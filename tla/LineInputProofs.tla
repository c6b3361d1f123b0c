-------------------------- MODULE LineInputProofs --------------------------
(***************************************************************************)
(* Proofs about LineInput and the dictionary that it reads, for every file *)
(* that LoadStory accepts, every line and every use a story makes of its   *)
(* buffers.  The loops of the code are recursive functions; what each of   *)
(* them computes is shown by induction on its rounds.                      *)
(***************************************************************************)
EXTENDS LineInput, NumberFacts, SequenceTheorems, FiniteSetTheorems, TLAPS

-----------------------------------------------------------------------------
(* The numbers that entries are compared by.                               *)

Entry == [1 .. DictionaryZChars -> Byte]

LEMMA Bytes ==
  /\ ByteLimit \in Nat \ {0} /\ WordLimit = ByteLimit * ByteLimit /\ WordLimit \in Nat \ {0}
  /\ 0 \in Byte
  /\ DictionaryZChars \in Nat \ {0} /\ EntryLengthMin \in Nat /\ DictionaryZChars <= EntryLengthMin
  /\ ZChar \subseteq Byte
<1>1. ByteLimit \in Nat \ {0} /\ WordLimit = ByteLimit * ByteLimit /\ WordLimit \in Nat \ {0}
  BY StoryAssumption, WordAssumption
<1>2. ZLimit \in Nat /\ ZLimit <= ByteLimit
  BY TextAssumption, DictionaryAssumption
<1> QED BY <1>1, <1>2, TextAssumption, DictionaryAssumption, StoryAssumption DEF Byte, ZChar

\* f holds the number after each Z-character of z.
Numbers(f, z) ==
    /\ \A i \in 0 .. DictionaryZChars : f[i] \in Nat
    /\ f[0] = 0
    /\ \A i \in 1 .. DictionaryZChars : f[i] = f[i - 1] * ByteLimit + z[i]

LEMMA NumberComputed ==
  ASSUME NEW z \in Entry
  PROVE  \E f : Numbers(f, z) /\ AsNumber(z) = f[DictionaryZChars]
<1> DEFINE n == DictionaryZChars
           Digit(k) == IF k \in 1 .. n THEN z[k] ELSE 0
           step == [kx \in Nat \X Nat |-> kx[2] * ByteLimit + Digit(kx[1])]
           Steps(f) == [i \in 0 .. n |-> IF i = 0 THEN 0 ELSE f[i - 1] * ByteLimit + z[i]]
<1>1. n \in Nat
  BY Bytes
<1>2. \A k \in Nat : Digit(k) \in Nat
  BY DEF Entry, Byte
<1>3. \A k \in 1 .. n : Digit(k) = z[k]
  OBVIOUS
<1> HIDE DEF n, Digit
<1>4. step \in [Nat \X Nat -> Nat] /\ \A k, x \in Nat : step[<<k, x>>] = x * ByteLimit + Digit(k)
  BY <1>2, Bytes
<1> HIDE DEF step
<1>5. PICK f : Unfolds(f, Nat, n, 0, step)
  BY <1>1, <1>4, RecursionExists
<1>6. /\ f[0] = 0 /\ f \in [0 .. n -> Nat]
      /\ \A k \in 1 .. n : f[k] = step[<<k, f[k - 1]>>]
  BY <1>5 DEF Unfolds
<1>7. \A k \in 1 .. n : f[k] = f[k - 1] * ByteLimit + z[k]
  <2> SUFFICES ASSUME NEW k \in 1 .. n
               PROVE  f[k] = f[k - 1] * ByteLimit + z[k]
    OBVIOUS
  <2>1. k \in Nat /\ k - 1 \in 0 .. n
    BY <1>1
  <2>2. f[k - 1] \in Nat
    BY <1>6, <2>1
  <2> QED BY <1>3, <1>4, <1>6, <2>1, <2>2
<1>8. f = Steps(f)
  <2>1. \A i \in 0 .. n : Steps(f)[i] = f[i]
    <3> SUFFICES ASSUME NEW i \in 0 .. n
                 PROVE  Steps(f)[i] = f[i]
      OBVIOUS
    <3>1. i # 0 => i \in 1 .. n
      BY <1>1
    <3> QED BY <1>6, <1>7, <3>1
  <2>2. Steps(f) = [i \in 0 .. n |-> Steps(f)[i]] /\ f = [i \in 0 .. n |-> f[i]]
    BY <1>6
  <2> HIDE DEF Steps
  <2> QED BY <2>1, <2>2
<1>9. AsNumber(z) = (CHOOSE number : number = Steps(number))[n]
  BY DEF AsNumber, n
<1>10. PICK w : w = CHOOSE number : number = Steps(number)
  OBVIOUS
<1>11. w = Steps(w)
  <2> HIDE DEF Steps
  <2> QED BY <1>8, <1>10
<1>12. w[0] = 0 /\ \A i \in 1 .. n : w[i] = w[i - 1] * ByteLimit + z[i]
  <2>1. 0 \in 0 .. n /\ \A i \in 1 .. n : i \in 0 .. n /\ i # 0
    BY <1>1
  <2> QED BY <1>11, <2>1
<1> DEFINE S == {k \in Nat : k <= n => w[k] \in Nat}
<1>13. 0 \in S
  BY <1>12
<1>14. ASSUME NEW k \in Nat, k \in S
       PROVE  k + 1 \in S
  <2> SUFFICES ASSUME k + 1 <= n
               PROVE  w[k + 1] \in Nat
    OBVIOUS
  <2>1. k + 1 \in 1 .. n /\ (k + 1) - 1 = k /\ k <= n
    BY <1>1
  <2>2. w[k] \in Nat /\ z[k + 1] \in Nat
    BY <1>14, <2>1 DEF Entry, Byte, n
  <2>3. w[k + 1] = w[k] * ByteLimit + z[k + 1]
    BY <1>12, <2>1
  <2> QED BY <2>2, <2>3, Bytes
<1> HIDE DEF S
<1>15. Nat \subseteq S
  BY <1>13, <1>14, SetInduction
<1>16. \A i \in 0 .. n : w[i] \in Nat
  BY <1>1, <1>15 DEF S
<1>17. Numbers(w, z) /\ AsNumber(z) = w[n]
  BY <1>9, <1>10, <1>12, <1>16 DEF Numbers, n
<1> QED BY <1>17 DEF n

\* The number says which Z-characters it is made of.
LEMMA NumberExact ==
  ASSUME NEW y \in Entry, NEW z \in Entry, AsNumber(y) = AsNumber(z)
  PROVE  y = z
<1>1. PICK f : Numbers(f, y) /\ AsNumber(y) = f[DictionaryZChars]
  BY NumberComputed
<1>2. PICK g : Numbers(g, z) /\ AsNumber(z) = g[DictionaryZChars]
  BY NumberComputed
<1> DEFINE n == DictionaryZChars
           S == {k \in Nat : k <= n /\ f[k] = g[k] => \A i \in 1 .. k : y[i] = z[i]}
<1>3. n \in Nat
  BY Bytes
<1>4. 0 \in S
  OBVIOUS
<1>5. ASSUME NEW k \in Nat, k \in S
      PROVE  k + 1 \in S
  <2> SUFFICES ASSUME k + 1 <= n, f[k + 1] = g[k + 1]
               PROVE  \A i \in 1 .. k + 1 : y[i] = z[i]
    OBVIOUS
  <2>1. k + 1 \in 1 .. n /\ (k + 1) - 1 = k /\ k <= n /\ k \in 0 .. n
    BY <1>3
  <2>2. f[k] \in Nat /\ g[k] \in Nat
    BY <1>1, <1>2, <2>1 DEF Numbers
  <2>3. y[k + 1] \in 0 .. ByteLimit - 1 /\ z[k + 1] \in 0 .. ByteLimit - 1
    BY <2>1 DEF Entry, Byte
  <2>4. f[k + 1] = f[k] * ByteLimit + y[k + 1] /\ g[k + 1] = g[k] * ByteLimit + z[k + 1]
    BY <1>1, <1>2, <2>1 DEF Numbers
  <2>5. f[k] * ByteLimit = ByteLimit * f[k] /\ g[k] * ByteLimit = ByteLimit * g[k]
    BY <2>2, Bytes
  <2>6. ByteLimit * f[k] + y[k + 1] = ByteLimit * g[k] + z[k + 1]
    BY <2>4, <2>5
  <2>7. f[k] \in Int /\ g[k] \in Int /\ ByteLimit \in Nat \ {0}
    BY <2>2, Bytes
  <2>8. f[k] = g[k] /\ y[k + 1] = z[k + 1]
    <3>1. PICK p, q, r, s : p = f[k] /\ q = g[k] /\ r = y[k + 1] /\ s = z[k + 1]
      OBVIOUS
    <3>2. /\ p \in Int /\ q \in Int /\ r \in 0 .. ByteLimit - 1 /\ s \in 0 .. ByteLimit - 1
          /\ ByteLimit * p + r = ByteLimit * q + s
      BY <2>3, <2>6, <2>7, <3>1
    <3>3. p = q /\ r = s
      BY <2>7, <3>2, DivisionUnique
    <3> QED BY <3>1, <3>3
  <2>9. \A i \in 1 .. k : y[i] = z[i]
    BY <1>5, <2>1, <2>8
  <2> QED BY <2>8, <2>9
<1> HIDE DEF S
<1>6. Nat \subseteq S
  BY <1>4, <1>5, SetInduction
<1>7. f[n] = g[n]
  BY <1>1, <1>2
<1>8. \A i \in 1 .. n : y[i] = z[i]
  <2>1. n \in S
    BY <1>3, <1>6
  <2> HIDE DEF n
  <2> QED BY <1>3, <1>7, <2>1 DEF S
<1>9. y = [i \in 1 .. n |-> y[i]] /\ z = [i \in 1 .. n |-> z[i]]
  BY DEF Entry
<1> HIDE DEF n
<1> QED BY <1>8, <1>9

LEMMA NumberType ==
  ASSUME NEW z \in Entry
  PROVE  AsNumber(z) \in Nat
<1>1. PICK f : Numbers(f, z) /\ AsNumber(z) = f[DictionaryZChars]
  BY NumberComputed
<1> QED BY <1>1, Bytes DEF Numbers

-----------------------------------------------------------------------------
(* The binary chop.                                                        *)

\* The entries from r[1] on and before r[2].
Span(count) == {r \in (0 .. count) \X (0 .. count) : r[1] <= r[2]}

LEMMA MiddleBetween ==
  ASSUME NEW low \in Nat, NEW high \in Nat, low < high
  PROVE  Middle(low, high) \in Nat /\ low <= Middle(low, high) /\ Middle(low, high) < high
<1>1. (high - low) \div 2 \in Nat /\ (high - low) \div 2 < high - low
  OBVIOUS
<1> QED BY <1>1 DEF Middle

Ends(view, table, zchars, r) == ChopEnds(view, table, zchars, r[1], r[2])

\* A round leaves the chop where it has ended, or takes the part before the
\* middle or the part after it.
LEMMA RoundNarrows ==
  ASSUME NEW view, NEW table, NEW zchars, table.count \in Nat,
         NEW r \in Span(table.count), NEW s, s = ChopRound(view, table, zchars, r)
  PROVE  /\ s \in Span(table.count)
         /\ Ends(view, table, zchars, r) => s = r
         /\ ~Ends(view, table, zchars, r) =>
               \E m \in Nat :
                  /\ r[1] <= m /\ m < r[2]
                  /\ AsNumber(EntryZChars(view, table, m)) # AsNumber(zchars)
                  /\ IF AsNumber(EntryZChars(view, table, m)) < AsNumber(zchars)
                     THEN s[1] = m + 1 /\ s[2] = r[2]
                     ELSE s[1] = r[1] /\ s[2] = m
<1>1. PICK low, high : low = r[1] /\ high = r[2]
  OBVIOUS
<1>2. low \in 0 .. table.count /\ high \in 0 .. table.count /\ low <= high
  BY <1>1 DEF Span
<1>3. CASE Ends(view, table, zchars, r)
  BY <1>3 DEF ChopRound, Ends
<1>4. CASE ~Ends(view, table, zchars, r)
  <2>1. PICK m : m = Middle(low, high)
    OBVIOUS
  <2>2. low < high /\ AsNumber(EntryZChars(view, table, m)) # AsNumber(zchars)
    BY <1>1, <1>4, <2>1 DEF Ends, ChopEnds
  <2>3. m \in Nat /\ low <= m /\ m < high
    BY <1>2, <2>1, <2>2, MiddleBetween
  <2>4. s = IF AsNumber(EntryZChars(view, table, m)) < AsNumber(zchars)
            THEN <<m + 1, high>> ELSE <<low, m>>
    BY <1>1, <1>4, <2>1 DEF ChopRound, Narrowed, Ends
  <2>5. /\ m + 1 \in 0 .. table.count /\ m \in 0 .. table.count
        /\ m + 1 <= high
    BY <1>2, <2>3
  <2>6. CASE AsNumber(EntryZChars(view, table, m)) < AsNumber(zchars)
    <3>1. s = <<m + 1, high>>
      BY <2>4, <2>6
    <3>2. s[1] = m + 1 /\ s[2] = high /\ s \in (0 .. table.count) \X (0 .. table.count)
      BY <1>2, <2>5, <3>1
    <3>3. s \in Span(table.count)
      BY <2>5, <3>2 DEF Span
    <3> QED BY <1>1, <1>4, <2>2, <2>3, <2>6, <3>2, <3>3
  <2>7. CASE ~(AsNumber(EntryZChars(view, table, m)) < AsNumber(zchars))
    <3>1. s = <<low, m>>
      BY <2>4, <2>7
    <3>2. s[1] = low /\ s[2] = m /\ s \in (0 .. table.count) \X (0 .. table.count)
      BY <1>2, <2>5, <3>1
    <3>3. s \in Span(table.count)
      BY <2>3, <3>2 DEF Span
    <3> QED BY <1>1, <1>4, <2>2, <2>3, <2>7, <3>2, <3>3
  <2> QED BY <2>6, <2>7
<1> QED BY <1>3, <1>4

\* The rounds of a look-up.
Rounds(left, view, table, zchars) ==
    /\ left[0] = <<0, table.count>>
    /\ \A n \in 0 .. table.count : left[n] \in Span(table.count)
    /\ \A n \in 1 .. table.count : left[n] = ChopRound(view, table, zchars, left[n - 1])

PlaceLeft(r) == IF r[1] < r[2] THEN Middle(r[1], r[2]) ELSE -1

LEMMA RoundsExist ==
  ASSUME NEW view, NEW table, NEW zchars, table.count \in Nat
  PROVE  \E left : /\ Rounds(left, view, table, zchars)
                   /\ LookupPlace(view, table, zchars) = PlaceLeft(left[table.count])
<1> DEFINE n == table.count
           A == Span(n)
           Next(r) == ChopRound(view, table, zchars, r)
           step == [kx \in Nat \X A |-> Next(kx[2])]
           Steps(left) == [i \in 0 .. n |-> IF i = 0 THEN <<0, n>> ELSE Next(left[i - 1])]
<1>1. n \in Nat
  OBVIOUS
<1>2. <<0, n>> \in A
  BY <1>1 DEF Span
<1>3. \A r \in A : Next(r) \in A
  BY <1>1, RoundNarrows
<1> HIDE DEF n, A, Next
<1>4. step \in [Nat \X A -> A] /\ \A k \in Nat, x \in A : step[<<k, x>>] = Next(x)
  BY <1>3
<1> HIDE DEF step
<1>5. PICK f : Unfolds(f, A, n, <<0, n>>, step)
  BY <1>1, <1>2, <1>4, RecursionExists
<1>6. /\ f[0] = <<0, n>> /\ f \in [0 .. n -> A]
      /\ \A k \in 1 .. n : f[k] = step[<<k, f[k - 1]>>]
  BY <1>5 DEF Unfolds
<1>7. \A k \in 1 .. n : f[k] = Next(f[k - 1])
  <2> SUFFICES ASSUME NEW k \in 1 .. n
               PROVE  f[k] = Next(f[k - 1])
    OBVIOUS
  <2>1. k \in Nat /\ k - 1 \in 0 .. n
    BY <1>1
  <2>2. f[k - 1] \in A
    BY <1>6, <2>1
  <2> QED BY <1>4, <1>6, <2>1, <2>2
<1>8. f = Steps(f)
  <2>1. \A i \in 0 .. n : Steps(f)[i] = f[i]
    <3> SUFFICES ASSUME NEW i \in 0 .. n
                 PROVE  Steps(f)[i] = f[i]
      OBVIOUS
    <3>1. i # 0 => i \in 1 .. n
      BY <1>1
    <3> QED BY <1>6, <1>7, <3>1
  <2>2. Steps(f) = [i \in 0 .. n |-> Steps(f)[i]] /\ f = [i \in 0 .. n |-> f[i]]
    BY <1>6
  <2> HIDE DEF Steps
  <2> QED BY <2>1, <2>2
<1>9. PICK w : w = CHOOSE left : left = Steps(left)
  OBVIOUS
<1>10. LookupPlace(view, table, zchars) = PlaceLeft(w[n])
  BY <1>9 DEF LookupPlace, PlaceLeft, n, Next
<1>11. w = Steps(w)
  <2> HIDE DEF Steps
  <2> QED BY <1>8, <1>9
<1>12. w[0] = <<0, n>> /\ \A i \in 1 .. n : w[i] = Next(w[i - 1])
  <2>1. 0 \in 0 .. n /\ \A i \in 1 .. n : i \in 0 .. n /\ i # 0
    BY <1>1
  <2> QED BY <1>11, <2>1
<1> DEFINE S == {k \in Nat : k <= n => w[k] \in A}
<1>13. 0 \in S
  BY <1>2, <1>12
<1>14. ASSUME NEW k \in Nat, k \in S
       PROVE  k + 1 \in S
  <2> SUFFICES ASSUME k + 1 <= n
               PROVE  w[k + 1] \in A
    OBVIOUS
  <2>1. k + 1 \in 1 .. n /\ (k + 1) - 1 = k /\ k <= n
    BY <1>1
  <2> QED BY <1>3, <1>12, <1>14, <2>1
<1> HIDE DEF S
<1>15. Nat \subseteq S
  BY <1>13, <1>14, SetInduction
<1>16. \A i \in 0 .. n : w[i] \in A
  BY <1>1, <1>15 DEF S
<1>17. Rounds(w, view, table, zchars)
  BY <1>12, <1>16 DEF Rounds, n, A, Next
<1> QED BY <1>10, <1>17 DEF n

\* No round is without progress until the chop ends, so it has ended after as
\* many as there are entries.
LEMMA RoundsEnd ==
  ASSUME NEW view, NEW table, NEW zchars, table.count \in Nat,
         NEW left, Rounds(left, view, table, zchars)
  PROVE  Ends(view, table, zchars, left[table.count])
<1> DEFINE n == table.count
           Ended(r) == Ends(view, table, zchars, r)
           S == {k \in Nat : k <= n => Ended(left[k]) \/ left[k][2] - left[k][1] <= n - k}
<1>1. n \in Nat
  OBVIOUS
<1>2. 0 \in S
  BY DEF Rounds
<1>3. ASSUME NEW k \in Nat, k \in S
      PROVE  k + 1 \in S
  <2> SUFFICES ASSUME k + 1 <= n
               PROVE  Ended(left[k + 1]) \/ left[k + 1][2] - left[k + 1][1] <= n - (k + 1)
    OBVIOUS
  <2>1. k + 1 \in 1 .. n /\ (k + 1) - 1 = k /\ k <= n /\ k \in 0 .. n
    BY <1>1
  <2>2. PICK r, s : r = left[k] /\ s = left[k + 1]
    OBVIOUS
  <2>3. r \in Span(n) /\ s = ChopRound(view, table, zchars, r)
    BY <2>1, <2>2 DEF Rounds
  <2>4. Ended(r) \/ r[2] - r[1] <= n - k
    BY <1>3, <2>1, <2>2
  <2>5. CASE Ended(r)
    <3>1. s = r
      BY <2>3, <2>5, RoundNarrows
    <3> QED BY <2>2, <2>5, <3>1
  <2>6. CASE ~Ended(r)
    <3>1. PICK m \in Nat : /\ r[1] <= m /\ m < r[2]
                           /\ \/ s[1] = m + 1 /\ s[2] = r[2]
                              \/ s[1] = r[1] /\ s[2] = m
      BY <2>3, <2>6, RoundNarrows
    <3>2. r[1] \in Nat /\ r[2] \in Nat
      BY <2>3 DEF Span
    <3>3. s[2] - s[1] <= n - (k + 1)
      BY <1>1, <2>4, <2>6, <3>1, <3>2
    <3> QED BY <2>2, <3>3
  <2> QED BY <2>5, <2>6
<1> HIDE DEF S
<1>4. Nat \subseteq S
  BY <1>2, <1>3, SetInduction
<1>5. Ended(left[n]) \/ left[n][2] - left[n][1] <= 0
  BY <1>1, <1>4 DEF S
<1>6. left[n] \in Span(n)
  BY <1>1 DEF Rounds
<1>7. CASE left[n][2] - left[n][1] <= 0
  <2>1. ~(left[n][1] < left[n][2])
    BY <1>1, <1>6, <1>7 DEF Span
  <2> QED BY <2>1 DEF Ends, ChopEnds
<1> QED BY <1>5, <1>7

\* What is found is an entry with the number that was looked for.
LEMMA PlaceFound ==
  ASSUME NEW view, NEW table, NEW zchars, table.count \in Nat,
         NEW k, k = LookupPlace(view, table, zchars)
  PROVE  /\ k \in -1 .. table.count - 1
         /\ k # -1 => AsNumber(EntryZChars(view, table, k)) = AsNumber(zchars)
<1>1. PICK left : /\ Rounds(left, view, table, zchars)
                  /\ k = PlaceLeft(left[table.count])
  BY RoundsExist
<1>2. PICK r : r = left[table.count]
  OBVIOUS
<1>3. r \in Span(table.count)
  BY <1>1, <1>2 DEF Rounds
<1>4. Ends(view, table, zchars, r)
  BY <1>1, <1>2, RoundsEnd
<1>5. CASE r[1] < r[2]
  <2>1. k = Middle(r[1], r[2])
    BY <1>1, <1>2, <1>5 DEF PlaceLeft
  <2>2. AsNumber(EntryZChars(view, table, k)) = AsNumber(zchars)
    BY <1>4, <1>5, <2>1 DEF Ends, ChopEnds
  <2>3. r[1] \in Nat /\ r[2] \in 0 .. table.count
    BY <1>3 DEF Span
  <2>4. k \in Nat /\ k < r[2]
    BY <1>5, <2>1, <2>3, MiddleBetween
  <2> QED BY <2>2, <2>3, <2>4
<1>6. CASE ~(r[1] < r[2])
  BY <1>1, <1>2, <1>6 DEF PlaceLeft
<1> QED BY <1>5, <1>6

\* In a dictionary in order, the place of an entry never falls out of the span.
LEMMA EntryFound ==
  ASSUME NEW view, NEW table, table.count \in Nat,
         \A j \in 0 .. table.count - 1 : AsNumber(EntryZChars(view, table, j)) \in Nat,
         Sorted(view, table), NEW k \in 0 .. table.count - 1
  PROVE  LookupPlace(view, table, EntryZChars(view, table, k)) = k
<1> DEFINE n == table.count
           N(j) == AsNumber(EntryZChars(view, table, j))
<1>1. PICK z : z = EntryZChars(view, table, k)
  OBVIOUS
<1>2. PICK left : /\ Rounds(left, view, table, z)
                  /\ LookupPlace(view, table, z) = PlaceLeft(left[n])
  BY RoundsExist
<1>3. \A i, j \in 0 .. n - 1 : i < j => N(i) < N(j)
  BY DEF Sorted
<1>4. \A j \in 0 .. n - 1 : N(j) \in Nat
  OBVIOUS
<1>5. AsNumber(z) = N(k) /\ n \in Nat /\ k \in 0 .. n - 1
  BY <1>1
<1> DEFINE S == {j \in Nat : j <= n => left[j][1] <= k /\ k < left[j][2]}
<1>6. 0 \in S
  BY <1>2, <1>5 DEF Rounds
<1>7. ASSUME NEW j \in Nat, j \in S
      PROVE  j + 1 \in S
  <2> SUFFICES ASSUME j + 1 <= n
               PROVE  left[j + 1][1] <= k /\ k < left[j + 1][2]
    OBVIOUS
  <2>1. j + 1 \in 1 .. n /\ (j + 1) - 1 = j /\ j <= n /\ j \in 0 .. n
    BY <1>5
  <2>2. PICK r, s : r = left[j] /\ s = left[j + 1]
    OBVIOUS
  <2>3. r \in Span(n) /\ s = ChopRound(view, table, z, r)
    BY <1>2, <2>1, <2>2 DEF Rounds
  <2>4. r[1] <= k /\ k < r[2]
    BY <1>7, <2>1, <2>2
  <2>5. CASE Ends(view, table, z, r)
    <3>1. s = r
      BY <2>3, <2>5, RoundNarrows
    <3> QED BY <2>2, <2>4, <3>1
  <2>6. CASE ~Ends(view, table, z, r)
    <3> HIDE DEF N
    <3>1. PICK m \in Nat : /\ r[1] <= m /\ m < r[2]
                           /\ N(m) # AsNumber(z)
                           /\ IF N(m) < AsNumber(z)
                              THEN s[1] = m + 1 /\ s[2] = r[2]
                              ELSE s[1] = r[1] /\ s[2] = m
      BY <2>3, <2>6, RoundNarrows DEF N
    <3>2. r[1] \in Nat /\ r[2] \in 0 .. n
      BY <2>3 DEF Span
    <3>3. m \in 0 .. n - 1 /\ k \in Nat
      BY <1>5, <3>1, <3>2
    <3>4. N(m) \in Nat /\ N(k) \in Nat /\ N(m) # N(k)
      BY <1>4, <1>5, <3>1, <3>3
    <3>5. CASE N(m) < N(k)
      <4>1. ~(k < m) /\ k # m
        BY <1>3, <1>5, <3>3, <3>4, <3>5
      <4>2. s[1] = m + 1 /\ s[2] = r[2]
        BY <1>5, <3>1, <3>5
      <4> QED BY <2>2, <2>4, <3>3, <4>1, <4>2
    <3>6. CASE ~(N(m) < N(k))
      <4>1. ~(m < k) /\ k # m
        BY <1>3, <1>5, <3>3, <3>4, <3>6
      <4>2. s[1] = r[1] /\ s[2] = m
        BY <1>5, <3>1, <3>6
      <4> QED BY <2>2, <2>4, <3>3, <4>1, <4>2
    <3> QED BY <3>5, <3>6
  <2> QED BY <2>5, <2>6
<1> HIDE DEF S
<1>8. Nat \subseteq S
  BY <1>6, <1>7, SetInduction
<1>9. left[n][1] <= k /\ k < left[n][2]
  BY <1>5, <1>8 DEF S
<1>10. left[n] \in Span(n)
  BY <1>2, <1>5 DEF Rounds
<1>11. PICK m : m = LookupPlace(view, table, z)
  OBVIOUS
<1>12. m # -1
  <2>1. left[n][1] \in Nat /\ left[n][2] \in Nat /\ left[n][1] < left[n][2]
    BY <1>5, <1>9, <1>10 DEF Span
  <2>2. m \in Nat
    BY <1>2, <1>11, <2>1, MiddleBetween DEF PlaceLeft
  <2> QED BY <2>2
<1>13. m \in 0 .. n - 1 /\ N(m) = N(k)
  BY <1>5, <1>11, <1>12, PlaceFound
<1>14. m = k
  <2> HIDE DEF N
  <2>1. ~(m < k) /\ ~(k < m)
    BY <1>3, <1>4, <1>5, <1>13
  <2> QED BY <1>5, <1>13, <2>1
<1> QED BY <1>1, <1>11, <1>14

\* Two views with the same entries give the same answer.
LEMMA SameLookup ==
  ASSUME NEW u, NEW v, NEW table, table.count \in Nat, NEW zchars,
         \A j \in 0 .. table.count - 1 : EntryZChars(u, table, j) = EntryZChars(v, table, j)
  PROVE  LookupDictionaryWord(u, table, zchars) = LookupDictionaryWord(v, table, zchars)
<1> DEFINE n == table.count
<1>1. PICK f : /\ Rounds(f, u, table, zchars)
               /\ LookupPlace(u, table, zchars) = PlaceLeft(f[table.count])
  BY RoundsExist
<1>2. PICK g : /\ Rounds(g, v, table, zchars)
               /\ LookupPlace(v, table, zchars) = PlaceLeft(g[table.count])
  BY RoundsExist
<1>3. ASSUME NEW r \in Span(n)
      PROVE  ChopRound(u, table, zchars, r) = ChopRound(v, table, zchars, r)
  <2>1. PICK low, high, m : low = r[1] /\ high = r[2] /\ m = Middle(low, high)
    OBVIOUS
  <2>2. low \in Nat /\ high \in 0 .. n
    BY <2>1 DEF Span
  <2>3. low < high => EntryZChars(u, table, m) = EntryZChars(v, table, m)
    <3> SUFFICES ASSUME low < high PROVE EntryZChars(u, table, m) = EntryZChars(v, table, m)
      OBVIOUS
    <3>1. m \in Nat /\ m < high
      BY <2>1, <2>2, MiddleBetween
    <3>2. m \in 0 .. n - 1
      BY <2>2, <3>1
    <3> QED BY <3>2
  <2>4. ChopEnds(u, table, zchars, low, high) <=> ChopEnds(v, table, zchars, low, high)
    BY <2>1, <2>3 DEF ChopEnds
  <2>5. CASE ChopEnds(u, table, zchars, low, high)
    BY <2>1, <2>4, <2>5 DEF ChopRound
  <2>6. CASE ~ChopEnds(u, table, zchars, low, high)
    <3>1. low < high
      BY <2>6 DEF ChopEnds
    <3> QED BY <2>1, <2>3, <2>4, <2>6, <3>1 DEF ChopRound
  <2> QED BY <2>5, <2>6
<1> DEFINE S == {k \in Nat : k <= n => f[k] = g[k]}
<1>4. 0 \in S
  BY <1>1, <1>2 DEF Rounds
<1>5. ASSUME NEW k \in Nat, k \in S
      PROVE  k + 1 \in S
  <2> SUFFICES ASSUME k + 1 <= n PROVE f[k + 1] = g[k + 1]
    OBVIOUS
  <2>1. k + 1 \in 1 .. n /\ (k + 1) - 1 = k /\ k <= n /\ k \in 0 .. n
    OBVIOUS
  <2>2. PICK r : r = f[k]
    OBVIOUS
  <2>3. r = g[k] /\ r \in Span(n)
    BY <1>1, <1>5, <2>1, <2>2 DEF Rounds
  <2>4. f[k + 1] = ChopRound(u, table, zchars, r) /\ g[k + 1] = ChopRound(v, table, zchars, r)
    BY <1>1, <1>2, <2>1, <2>2, <2>3 DEF Rounds
  <2> QED BY <1>3, <2>3, <2>4
<1> HIDE DEF S
<1>6. Nat \subseteq S
  BY <1>4, <1>5, SetInduction
<1>7. f[n] = g[n]
  BY <1>6 DEF S
<1> QED BY <1>1, <1>2, <1>7 DEF LookupDictionaryWord

-----------------------------------------------------------------------------
(* The dictionary in memory.                                               *)

Memories(size) == [0 .. size - 1 -> Byte]

TableOK(table) == table.count \in Nat /\ table.entryLength \in Nat /\ table.entries \in Nat

\* What DictionaryFits looks at of a view and what the header says.
LEMMA HeaderRead ==
  ASSUME NEW u, NEW size \in Nat, NEW d \in Nat,
         \A a \in d .. size - 1 : u[a] \in Byte,
         DictionaryFits(u, size, d)
  PROVE  /\ d \in d .. size - 1 /\ u[d] \in Nat
         /\ d + 1 + u[d] + 3 <= size
         /\ DictionaryHeader(u, d).entryLength \in Nat
         /\ DictionaryHeader(u, d).entryLength >= EntryLengthMin
         /\ DictionaryHeader(u, d).count \in Nat
         /\ DictionaryHeader(u, d).entries = d + 1 + u[d] + 3
         /\ DictionaryHeader(u, d).entries
              + DictionaryHeader(u, d).count * DictionaryHeader(u, d).entryLength <= size
<1>1. d \in d .. size - 1 /\ u[d] \in Nat /\ d + 1 + u[d] + 3 <= size
  <2>1. d < size
    BY DEF DictionaryFits
  <2>2. u[d] \in Nat
    BY <2>1 DEF Byte
  <2> QED BY <2>1, <2>2 DEF DictionaryFits, Lies
<1>2. PICK after : after = d + 1 + u[d]
  OBVIOUS
<1>3. after \in Nat /\ {after, after + 1, after + 2} \subseteq d .. size - 1
  BY <1>1, <1>2
<1>4. u[after] \in Nat /\ u[after + 1] \in Nat /\ u[after + 1 + 1] \in Nat
  <2>1. after + 1 + 1 = after + 2
    BY <1>3
  <2> QED BY <1>3, <2>1 DEF Byte
<1>5. WordAt(u, after + 1) \in Int
  BY <1>4, Bytes DEF WordAt
<1>6. Signed(WordAt(u, after + 1)) \in Int
  BY <1>5, Bytes DEF Signed
<1>7. /\ DictionaryHeader(u, d).entryLength = u[after]
      /\ DictionaryHeader(u, d).count = Signed(WordAt(u, after + 1))
      /\ DictionaryHeader(u, d).entries = after + 3
  BY <1>2 DEF DictionaryHeader
<1>8. /\ DictionaryHeader(u, d).entryLength >= EntryLengthMin
      /\ DictionaryHeader(u, d).count >= 0
      /\ Lies(DictionaryHeader(u, d).entries,
              DictionaryHeader(u, d).count * DictionaryHeader(u, d).entryLength, size)
  BY DEF DictionaryFits
<1> QED BY <1>1, <1>2, <1>4, <1>6, <1>7, <1>8 DEF Lies

\* A dictionary is the same in two views that agree from its address on.
LEMMA SameDictionary ==
  ASSUME NEW u, NEW v, NEW size \in Nat, NEW d \in Nat,
         \A a \in d .. size - 1 : u[a] \in Byte /\ v[a] = u[a],
         DictionaryFits(u, size, d)
  PROVE  DictionaryFits(v, size, d) /\ DictionaryHeader(v, d) = DictionaryHeader(u, d)
<1>1. d \in d .. size - 1 /\ u[d] \in Nat /\ d + 1 + u[d] + 3 <= size
  BY HeaderRead
<1>2. PICK after : after = d + 1 + u[d]
  OBVIOUS
<1>3. /\ after \in Nat /\ {after, after + 1, after + 1 + 1} \subseteq d .. size - 1
      /\ \A a \in d + 1 .. after - 1 : a \in d .. size - 1
  BY <1>1, <1>2
<1>4. v[d] = u[d] /\ v[after] = u[after] /\ WordAt(v, after + 1) = WordAt(u, after + 1)
  BY <1>1, <1>3 DEF WordAt
<1>5. {v[a] : a \in d + 1 .. after - 1} = {u[a] : a \in d + 1 .. after - 1}
  BY <1>3
<1>6. DictionaryHeader(v, d) = DictionaryHeader(u, d)
  BY <1>2, <1>4, <1>5 DEF DictionaryHeader
<1> QED BY <1>4, <1>6 DEF DictionaryFits

\* The Z-characters of every entry lie behind the header of the dictionary.
LEMMA EntryBytes ==
  ASSUME NEW size \in Nat, NEW u \in Memories(size), NEW d \in Nat,
         DictionaryFits(u, size, d), NEW table, table = DictionaryHeader(u, d)
  PROVE  /\ TableOK(table)
         /\ \A k \in 0 .. table.count - 1 :
               /\ EntryAddress(table, k) \in Nat \ {0}
               /\ EntryAddress(table, k) < EntryAddress(table, table.count)
               /\ \A i \in 1 .. DictionaryZChars : EntryAddress(table, k) + i - 1 \in d .. size - 1
<1>2. /\ table.entryLength \in Nat /\ table.entryLength >= EntryLengthMin
      /\ table.count \in Nat /\ table.entries \in Nat /\ d < table.entries
      /\ table.entries + table.count * table.entryLength <= size
  <2>1. \A a \in d .. size - 1 : u[a] \in Byte
    BY DEF Memories
  <2>2. PICK e : e = d + 1 + u[d] + 3
    OBVIOUS
  <2>3. /\ u[d] \in Nat
        /\ table.entryLength \in Nat /\ table.entryLength >= EntryLengthMin
        /\ table.count \in Nat /\ table.entries = e
        /\ table.entries + table.count * table.entryLength <= size
    BY <2>1, <2>2, HeaderRead
  <2>4. e \in Nat /\ d < e
    BY <2>2, <2>3
  <2> QED BY <2>3, <2>4
<1>3. PICK n, l, e : n = table.count /\ l = table.entryLength /\ e = table.entries
  OBVIOUS
<1>4. n \in Nat /\ l \in Nat /\ e \in Nat /\ l >= EntryLengthMin /\ e + n * l <= size /\ d < e
  BY <1>2, <1>3
<1>5. ASSUME NEW k \in 0 .. n - 1
      PROVE  /\ EntryAddress(table, k) \in Nat \ {0}
             /\ EntryAddress(table, k) < EntryAddress(table, n)
             /\ \A i \in 1 .. DictionaryZChars : EntryAddress(table, k) + i - 1 \in d .. size - 1
  <2>1. PICK kl, nl : kl = k * l /\ nl = n * l
    OBVIOUS
  <2>2. kl \in Nat /\ nl \in Int /\ kl + l <= nl /\ e + nl <= size /\ l \in Nat \ {0}
    <3>1. l \in Nat \ {0}
      BY <1>4, Bytes
    <3>2. l * k + l <= l * n
      BY <1>4, <3>1, MultiplesApart
    <3>3. l * k = k * l /\ l * n = n * l /\ k * l \in Nat /\ n * l \in Int
      BY <1>4
    <3> QED BY <1>4, <2>1, <3>1, <3>2, <3>3
  <2>3. EntryAddress(table, k) = e + kl /\ EntryAddress(table, n) = e + nl
    BY <1>3, <2>1 DEF EntryAddress
  <2>4. e + kl \in Nat \ {0} /\ e + kl < e + nl
    BY <1>4, <2>2
  <2>5. ASSUME NEW i \in 1 .. DictionaryZChars
        PROVE  e + kl + i - 1 \in d .. size - 1
    <3>1. i \in Nat /\ i >= 1 /\ i <= l
      BY <1>4, Bytes
    <3> QED BY <1>4, <2>2, <3>1
  <2> QED BY <2>3, <2>4, <2>5
<1> QED BY <1>2, <1>3, <1>5 DEF TableOK

\* The Z-characters of every entry lie in memory.
LEMMA EntriesInMemory ==
  ASSUME NEW size \in Nat, NEW u \in Memories(size), NEW d \in Nat,
         DictionaryFits(u, size, d), NEW k \in 0 .. DictionaryHeader(u, d).count - 1
  PROVE  EntryZChars(u, DictionaryHeader(u, d), k) \in Entry
<1>1. PICK table : table = DictionaryHeader(u, d)
  OBVIOUS
<1>2. \A i \in 1 .. DictionaryZChars : EntryAddress(table, k) + i - 1 \in d .. size - 1
  BY <1>1, EntryBytes
<1>3. \A a \in d .. size - 1 : u[a] \in Byte
  BY DEF Memories
<1>4. \A i \in 1 .. DictionaryZChars : u[EntryAddress(table, k) + i - 1] \in Byte
  BY <1>2, <1>3
<1> QED BY <1>1, <1>4 DEF EntryZChars, Entry

\* The chop is exact in every dictionary that is one.
LEMMA ChopExact ==
  ASSUME NEW size \in Nat, NEW u \in Memories(size), NEW d \in Nat,
         DictionaryFits(u, size, d)
  PROVE  ChopIsExact(u, DictionaryHeader(u, d), [1 .. DictionaryZChars -> ZChar])
<1>1. PICK table : table = DictionaryHeader(u, d)
  OBVIOUS
<1>2. table.count \in Nat
  <2>1. \A a \in d .. size - 1 : u[a] \in Byte
    BY DEF Memories
  <2> QED BY <1>1, <2>1, HeaderRead
<1>3. \A k \in 0 .. table.count - 1 : EntryZChars(u, table, k) \in Entry
  BY <1>1, EntriesInMemory
<1>4. ASSUME NEW z \in [1 .. DictionaryZChars -> ZChar],
             NEW k, k = LookupPlace(u, table, z), k # -1
      PROVE  k \in 0 .. table.count - 1 /\ EntryZChars(u, table, k) = z
  <2>1. z \in Entry
    BY Bytes DEF Entry
  <2>2. k \in 0 .. table.count - 1 /\ AsNumber(EntryZChars(u, table, k)) = AsNumber(z)
    BY <1>2, <1>4, PlaceFound
  <2> QED BY <1>3, <2>1, <2>2, NumberExact
<1>5. ASSUME Sorted(u, table), NEW k \in 0 .. table.count - 1
      PROVE  LookupPlace(u, table, EntryZChars(u, table, k)) = k
  <2>1. \A j \in 0 .. table.count - 1 : AsNumber(EntryZChars(u, table, j)) \in Nat
    BY <1>3, NumberType
  <2> QED BY <1>2, <1>5, <2>1, EntryFound
<1>6. ChopIsExact(u, table, [1 .. DictionaryZChars -> ZChar])
  BY <1>4, <1>5 DEF ChopIsExact
<1> QED BY <1>1, <1>6

\* The entry that is found lies where the table says.
LEMMA FoundAddress ==
  ASSUME NEW view, NEW table, TableOK(table), NEW zchars,
         NEW found, found = LookupDictionaryWord(view, table, zchars)
  PROVE  /\ found.entry \in Nat
         /\ ~found.fault <=> found.entry < WordLimit
         /\ ~found.fault => found.entry \in 0 .. WordLimit - 1
<1>1. PICK place : place = LookupPlace(view, table, zchars)
  OBVIOUS
<1>2. place \in -1 .. table.count - 1
  BY <1>1, PlaceFound DEF TableOK
<1>3. PICK address : address = IF place = -1 THEN 0 ELSE EntryAddress(table, place)
  OBVIOUS
<1>4. address \in Nat
  <2>1. CASE place = -1
    BY <1>3, <2>1
  <2>2. CASE place # -1
    <3>1. place \in Nat
      BY <1>2, <2>2 DEF TableOK
    <3>2. PICK size, far : size = table.entryLength /\ far = place * table.entryLength
      OBVIOUS
    <3>3. size \in Nat
      BY <3>2 DEF TableOK
    <3>4. far \in Nat
      BY <3>1, <3>2, <3>3
    <3>5. address = table.entries + far
      BY <1>3, <2>2, <3>2 DEF EntryAddress
    <3> QED BY <3>4, <3>5 DEF TableOK
  <2> QED BY <2>1, <2>2
<1>5. found = [fault |-> address >= WordLimit, entry |-> address]
  BY <1>1, <1>3 DEF LookupDictionaryWord
<1>6. found.entry = address
  BY <1>5
<1>7. found.fault = (address >= WordLimit)
  BY <1>5
<1>8. ~found.fault <=> ~(address >= WordLimit)
  BY <1>7
<1> QED BY <1>4, <1>6, <1>8, Bytes

-----------------------------------------------------------------------------
(* The story that has been loaded.                                         *)

\* What LoadStory has made sure of, whatever the file.
StoryOK ==
    /\ story.length \in Nat /\ story.staticBase \in Nat /\ story.staticBase <= story.length
    /\ {story.objectTable, story.globals, story.abbreviations, story.dictionary} \subseteq Nat
    /\ HeaderSize <= story.objectTable /\ story.objectTable + DefaultsSize <= story.staticBase
    /\ HeaderSize <= story.globals /\ story.globals + GlobalsSize <= story.staticBase
    /\ story.abbreviations # 0 => story.abbreviations + AbbreviationsSize <= story.length
    /\ story.image \in Memories(story.length)
    /\ DictionaryFits(story.image, story.length, story.dictionary)

LEMMA LoadedFile ==
  ASSUME NEW file \in Files, Acceptable(file), story = Loaded(file)
  PROVE  /\ StoryOK
         /\ [a \in 0 .. file.staticBase - 1 |-> file.bytes[a]] \in [0 .. story.staticBase - 1 -> Byte]
<1>1. /\ file.length \in Nat /\ file.declared \in Nat /\ file.staticBase \in Nat
      /\ file.objectTable \in Nat /\ file.globals \in Nat
      /\ file.abbreviations \in Nat /\ file.dictionary \in Nat
      /\ file.bytes \in [0 .. file.length - 1 -> Byte]
  BY LineAssumption
<1>2. PICK size : size = ImageLength(file)
  OBVIOUS
<1>3. size \in Nat /\ size <= file.length
  BY <1>1, <1>2, StoryAssumption, SMTT(20) DEF Acceptable, LengthFits, ImageLength
<1>4. file.staticBase <= size
  BY <1>2, <1>3, StoryAssumption DEF Acceptable, RegionsFit
<1>5. HeaderSize <= file.objectTable /\ file.objectTable + DefaultsSize <= file.staticBase
  BY DEF Acceptable, ObjectTableFits, Lies
<1>6. HeaderSize <= file.globals /\ file.globals + GlobalsSize <= file.staticBase
  BY DEF Acceptable, GlobalsFit, Lies
<1>7. file.abbreviations # 0 => file.abbreviations + AbbreviationsSize <= size
  BY <1>2 DEF Acceptable, AbbreviationsFit, Lies
<1>8. DictionaryFits(file.bytes, size, file.dictionary)
  BY <1>2 DEF Acceptable
<1>9. /\ story.length = size /\ story.staticBase = file.staticBase
      /\ story.objectTable = file.objectTable /\ story.globals = file.globals
      /\ story.abbreviations = file.abbreviations /\ story.dictionary = file.dictionary
      /\ story.image = [a \in 0 .. size - 1 |-> file.bytes[a]]
  BY <1>2 DEF Loaded
<1>10. \A a \in 0 .. size - 1 : file.bytes[a] \in Byte
  BY <1>1, <1>3
<1>11. story.image \in Memories(size)
  BY <1>9, <1>10 DEF Memories
<1>12. DictionaryFits(story.image, size, file.dictionary)
  <2>1. \A a \in file.dictionary .. size - 1 : file.bytes[a] \in Byte /\ story.image[a] = file.bytes[a]
    BY <1>1, <1>3, <1>9, <1>10
  <2> QED BY <1>1, <1>3, <1>8, <2>1, SameDictionary
<1>13. [a \in 0 .. file.staticBase - 1 |-> file.bytes[a]] \in [0 .. story.staticBase - 1 -> Byte]
  BY <1>1, <1>3, <1>4, <1>9, <1>10
<1>14. StoryOK
  BY <1>1, <1>3, <1>4, <1>5, <1>6, <1>7, <1>9, <1>11, <1>12 DEF StoryOK
<1> QED BY <1>13, <1>14

LEMMA ViewTyped ==
  ASSUME StoryOK, NEW m \in [0 .. story.staticBase - 1 -> Byte]
  PROVE  /\ View(m) \in Memories(story.length)
         /\ \A a \in 0 .. story.staticBase - 1 : View(m)[a] = m[a] /\ a \in 0 .. story.length - 1
         /\ \A a \in story.staticBase .. story.length - 1 : View(m)[a] = story.image[a]
<1>1. story.length \in Nat /\ story.staticBase \in Nat /\ story.staticBase <= story.length
  BY DEF StoryOK
<1>2. \A a \in 0 .. story.length - 1 : story.image[a] \in Byte
  BY DEF StoryOK, Memories
<1>3. \A a \in 0 .. story.length - 1 : a < story.staticBase => a \in 0 .. story.staticBase - 1
  BY <1>1
<1>4. \A a \in 0 .. story.length - 1 :
         View(m)[a] = IF a < story.staticBase THEN m[a] ELSE story.image[a]
  BY DEF View
<1>5. View(m) \in Memories(story.length)
  BY <1>2, <1>3 DEF View, Memories
<1>6. \A a \in 0 .. story.staticBase - 1 : View(m)[a] = m[a] /\ a \in 0 .. story.length - 1
  BY <1>1, <1>4
<1>7. \A a \in story.staticBase .. story.length - 1 : View(m)[a] = story.image[a]
  BY <1>1, <1>4
<1> QED BY <1>5, <1>6, <1>7

\* A dictionary in static memory is the one of the file, whatever m holds.
LEMMA StaticDictionary ==
  ASSUME StoryOK, story.dictionary >= story.staticBase,
         NEW m \in [0 .. story.staticBase - 1 -> Byte],
         NEW table, table = DictionaryHeader(story.image, story.dictionary)
  PROVE  /\ DictionaryFits(View(m), story.length, story.dictionary)
         /\ DictionaryHeader(View(m), story.dictionary) = table
         /\ \A j \in 0 .. table.count - 1 :
               /\ EntryZChars(View(m), table, j) = EntryZChars(story.image, table, j)
               /\ EntryZChars(story.image, table, j) \in Entry
<1>1. PICK base, size, d, u, v : /\ base = story.staticBase /\ size = story.length /\ d = story.dictionary
                                 /\ u = story.image /\ v = View(m)
  OBVIOUS
<1>2. /\ base \in Nat /\ size \in Nat /\ d \in Nat /\ d >= base
      /\ u \in Memories(size) /\ DictionaryFits(u, size, d)
  BY <1>1 DEF StoryOK
<1>3. \A a \in base .. size - 1 : v[a] = u[a]
  BY <1>1, ViewTyped
<1>4. \A a \in d .. size - 1 : u[a] \in Byte /\ v[a] = u[a]
  <2>1. \A a \in d .. size - 1 : a \in base .. size - 1 /\ a \in 0 .. size - 1
    BY <1>2
  <2> QED BY <1>2, <1>3, <2>1 DEF Memories
<1>5. DictionaryFits(v, size, d) /\ DictionaryHeader(v, d) = DictionaryHeader(u, d)
  BY <1>2, <1>4, SameDictionary
<1>6. table = DictionaryHeader(u, d)
  BY <1>1
<1>7. ASSUME NEW j \in 0 .. table.count - 1
      PROVE  EntryZChars(v, table, j) = EntryZChars(u, table, j) /\ EntryZChars(u, table, j) \in Entry
  <2>1. EntryZChars(u, table, j) \in Entry
    BY <1>2, <1>6, EntriesInMemory
  <2>2. \A i \in 1 .. DictionaryZChars : EntryAddress(table, j) + i - 1 \in d .. size - 1
    BY <1>2, <1>6, EntryBytes
  <2>3. \A i \in 1 .. DictionaryZChars : v[EntryAddress(table, j) + i - 1] = u[EntryAddress(table, j) + i - 1]
    BY <1>4, <2>2
  <2> QED BY <2>1, <2>3 DEF EntryZChars
<1> QED BY <1>1, <1>5, <1>6, <1>7

\* What the look-up says of a word, and when it can say it.
LEMMA LookupSays ==
  ASSUME StoryOK, NEW table, table = DictionaryHeader(story.image, story.dictionary),
         NEW z \in Entry, NEW found, found = LookupDictionaryWord(story.image, table, z)
  PROVE  /\ found.entry = 0 /\ Sorted(story.image, table) =>
               \A j \in 0 .. table.count - 1 : EntryZChars(story.image, table, j) # z
         /\ found.entry # 0 =>
               \E j \in 0 .. table.count - 1 :
                  EntryAddress(table, j) = found.entry /\ EntryZChars(story.image, table, j) = z
         /\ EntryAddress(table, table.count) <= WordLimit => ~found.fault
<1>1. PICK size, d, u : size = story.length /\ d = story.dictionary /\ u = story.image
  OBVIOUS
<1>2. /\ size \in Nat /\ d \in Nat
      /\ u \in Memories(size) /\ DictionaryFits(u, size, d) /\ table = DictionaryHeader(u, d)
  BY <1>1 DEF StoryOK
<1>3. \A j \in 0 .. table.count - 1 : EntryZChars(u, table, j) \in Entry
  BY <1>2, EntriesInMemory
<1>4. /\ TableOK(table)
      /\ \A k \in 0 .. table.count - 1 :
               /\ EntryAddress(table, k) \in Nat \ {0}
               /\ EntryAddress(table, k) < EntryAddress(table, table.count)
  BY <1>2, EntryBytes
<1>5. PICK k : k = LookupPlace(u, table, z)
  OBVIOUS
<1>6. table.count \in Nat
  BY <1>4 DEF TableOK
<1>7. /\ k \in -1 .. table.count - 1
      /\ k # -1 => k \in 0 .. table.count - 1 /\ AsNumber(EntryZChars(u, table, k)) = AsNumber(z)
  BY <1>5, <1>6, PlaceFound
<1>8. CASE k = -1
  <2>1. found = [fault |-> 0 >= WordLimit, entry |-> 0]
    BY <1>1, <1>5, <1>8 DEF LookupDictionaryWord
  <2>2. found.entry = 0 /\ found.fault = (0 >= WordLimit)
    BY <2>1
  <2>3. ~(0 >= WordLimit)
    BY Bytes
  <2>4. ~found.fault
    BY <2>2, <2>3
  <2>5. ASSUME Sorted(u, table), NEW j \in 0 .. table.count - 1, EntryZChars(u, table, j) = z
        PROVE  FALSE
    <3>1. \A i \in 0 .. table.count - 1 : AsNumber(EntryZChars(u, table, i)) \in Nat
      BY <1>3, NumberType
    <3>2. LookupPlace(u, table, EntryZChars(u, table, j)) = j
      BY <1>6, <2>5, <3>1, EntryFound
    <3>3. k = j
      BY <1>5, <2>5, <3>2
    <3> QED BY <1>8, <3>3
  <2> QED BY <1>1, <2>2, <2>4, <2>5
<1>9. CASE k # -1
  <2>1. PICK a : a = EntryAddress(table, k)
    OBVIOUS
  <2>2. found = [fault |-> a >= WordLimit, entry |-> a]
    BY <1>1, <1>5, <1>9, <2>1 DEF LookupDictionaryWord
  <2>3. found.entry = a /\ found.fault = (a >= WordLimit)
    BY <2>2
  <2>4. k \in 0 .. table.count - 1 /\ a \in Nat \ {0} /\ a < EntryAddress(table, table.count)
    BY <1>4, <1>7, <1>9, <2>1
  <2>5. EntryZChars(u, table, k) = z
    BY <1>3, <1>7, <1>9, <2>4, NumberExact
  <2>6. EntryAddress(table, table.count) <= WordLimit => ~found.fault
    <3>1. PICK e : e = EntryAddress(table, table.count)
      OBVIOUS
    <3>2. e \in Int
      <4>1. PICK n, l : n = table.count /\ l = table.entryLength
        OBVIOUS
      <4>2. n \in Nat /\ l \in Nat /\ table.entries \in Nat
        BY <1>4, <4>1 DEF TableOK
      <4>3. n * l \in Int
        BY <4>2
      <4> QED BY <3>1, <4>1, <4>2, <4>3 DEF EntryAddress
    <3>3. e <= WordLimit => ~(a >= WordLimit)
      BY <2>4, <3>1, <3>2, Bytes
    <3> QED BY <2>3, <3>1, <3>3
  <2>7. found.entry # 0
    BY <2>3, <2>4
  <2> QED BY <1>1, <2>1, <2>3, <2>4, <2>5, <2>6, <2>7
<1> QED BY <1>8, <1>9

-----------------------------------------------------------------------------
(* Storing.                                                                *)

Storage == [mem : [0 .. story.staticBase - 1 -> Byte], ok : BOOLEAN]

\* t is s after stores that lie in the area.
After(s, t, area) ==
    /\ t \in Storage
    /\ \A a \in (0 .. story.staticBase - 1) \ area : t.mem[a] = s.mem[a]

LEMMA AfterAfter ==
  ASSUME NEW r, NEW s, NEW t, NEW area, NEW more, After(r, s, area), After(s, t, more)
  PROVE  After(r, t, area \cup more)
BY DEF After

LEMMA AfterLarger ==
  ASSUME NEW s, NEW t, NEW area, NEW larger, After(s, t, area), area \subseteq larger
  PROVE  After(s, t, larger)
BY DEF After

LEMMA StoreTyped ==
  ASSUME NEW s \in Storage, NEW address \in Int, NEW values \in Seq(Byte)
  PROVE  /\ After(s, Store(s, address, values), address .. address + Len(values) - 1)
         /\ s.ok /\ Writable(address, Len(values)) => Store(s, address, values).ok
         /\ ~s.ok => Store(s, address, values) = [s EXCEPT !.ok = FALSE]
<1> DEFINE D == 0 .. story.staticBase - 1
           n == Len(values)
<1>1. PICK t : t = Store(s, address, values)
  OBVIOUS
<1>2. s.mem \in [D -> Byte] /\ s.ok \in BOOLEAN /\ n \in Nat
  BY DEF Storage
<1>3. CASE s.ok /\ Writable(address, n)
  <2> DEFINE m == [a \in D |-> IF a \in address .. address + n - 1 THEN values[a - address + 1] ELSE s.mem[a]]
  <2>1. DOMAIN s.mem = D
    BY <1>2
  <2>2. t = [s EXCEPT !.mem = m]
    BY <1>1, <1>3, <2>1 DEF Store
  <2>3. \A a \in D : a \in address .. address + n - 1 => values[a - address + 1] \in Byte
    <3> SUFFICES ASSUME NEW a \in D, a \in address .. address + n - 1
                 PROVE  values[a - address + 1] \in Byte
      OBVIOUS
    <3>1. a - address + 1 \in 1 .. n
      BY <1>2
    <3> QED BY <3>1
  <2>4. m \in [D -> Byte] /\ \A a \in D \ (address .. address + n - 1) : m[a] = s.mem[a]
    BY <1>2, <2>3
  <2> HIDE DEF m, D, n
  <2>5. t = [mem |-> m, ok |-> s.ok]
    BY <2>2 DEF Storage
  <2> QED BY <1>1, <1>3, <2>4, <2>5, <1>2 DEF After, Storage, D, n
<1>4. CASE ~(s.ok /\ Writable(address, n))
  <2>1. t = [s EXCEPT !.ok = FALSE]
    BY <1>1, <1>4 DEF Store
  <2>2. t = [mem |-> s.mem, ok |-> FALSE]
    BY <2>1 DEF Storage
  <2> QED BY <1>1, <1>2, <1>4, <2>1, <2>2 DEF After, Storage
<1> QED BY <1>3, <1>4

LEMMA StoreExact ==
  ASSUME StoryOK, NEW s \in Storage, NEW address \in Nat, NEW values \in Seq(Byte),
         NEW t, t = Store(s, address, values)
  PROVE  /\ t.ok <=> s.ok /\ Writable(address, Len(values))
         /\ t.ok => \A i \in 1 .. Len(values) : t.mem[address + i - 1] = values[i]
<1> DEFINE D == 0 .. story.staticBase - 1
           n == Len(values)
<1>1. s.mem \in [D -> Byte] /\ s.ok \in BOOLEAN /\ n \in Nat /\ DOMAIN s.mem = D
  BY DEF Storage
<1>2. CASE s.ok /\ Writable(address, n)
  <2> DEFINE m == [a \in D |-> IF a \in address .. address + n - 1 THEN values[a - address + 1] ELSE s.mem[a]]
  <2>1. t = [s EXCEPT !.mem = m]
    BY <1>1, <1>2 DEF Store
  <2>2. t.mem = m /\ (t.ok <=> s.ok)
    <3> HIDE DEF m
    <3>1. t.mem = m /\ t.ok = s.ok
      BY <2>1 DEF Storage
    <3> QED BY <3>1
  <2>3. ASSUME NEW i \in 1 .. n
        PROVE  m[address + i - 1] = values[i]
    <3>1. address + n <= story.staticBase
      BY <1>2 DEF Writable, Lies
    <3>2. PICK a : a = address + i - 1
      OBVIOUS
    <3>3. a \in address .. address + n - 1 /\ a - address + 1 = i
      BY <1>1, <3>2
    <3>4. a \in D
      <4>1. story.staticBase \in Int
        BY DEF StoryOK
      <4> QED BY <3>1, <3>3, <4>1, <1>1
    <3> QED BY <3>2, <3>3, <3>4
  <2> HIDE DEF m
  <2> QED BY <1>2, <2>2, <2>3
<1>3. CASE ~(s.ok /\ Writable(address, n))
  <2>1. t = [s EXCEPT !.ok = FALSE]
    BY <1>3 DEF Store
  <2>2. ~t.ok
    BY <2>1 DEF Storage
  <2> QED BY <1>3, <2>2
<1> QED BY <1>2, <1>3

\* One store, its area given by a name.
StoredAs(s, t, address, values) ==
    /\ t \in Storage
    /\ t.ok <=> s.ok /\ Writable(address, Len(values))
    /\ t.ok => \A i \in 1 .. Len(values) : t.mem[address + i - 1] = values[i]
    /\ \A a \in (0 .. story.staticBase - 1) \ (address .. address + Len(values) - 1) : t.mem[a] = s.mem[a]

LEMMA StoreAt ==
  ASSUME StoryOK, NEW s \in Storage, NEW address \in Nat, NEW values \in Seq(Byte),
         NEW t, t = Store(s, address, values)
  PROVE  StoredAs(s, t, address, values) /\ t \in Storage
<1>1. After(s, t, address .. address + Len(values) - 1)
  BY StoreTyped
<1>2. t.ok <=> s.ok /\ Writable(address, Len(values))
  BY StoreExact
<1>3. t.ok => \A i \in 1 .. Len(values) : t.mem[address + i - 1] = values[i]
  BY StoreExact
<1> QED BY <1>1, <1>2, <1>3 DEF After, StoredAs

-----------------------------------------------------------------------------
(* Loops that put pieces together: the line and its Z-characters.          *)

LEMMA MinOfTwo ==
  ASSUME NEW a \in Int, NEW b \in Int
  PROVE  Min({a, b}) = IF a <= b THEN a ELSE b
<1> DEFINE T == {a, b}
           least == IF a <= b THEN a ELSE b
<1>1. least \in T /\ \A y \in T : least <= y
  OBVIOUS
<1>2. \A x \in T : (\A y \in T : x <= y) => x = least
  OBVIOUS
<1> HIDE DEF T, least
<1>3. PICK m : m = CHOOSE x \in T : \A y \in T : x <= y
  OBVIOUS
<1>4. m \in T /\ \A y \in T : m <= y
  BY <1>1, <1>3
<1>5. m = least
  BY <1>2, <1>4
<1> QED BY <1>3, <1>5 DEF Min, T, least

\* What is typed is at least a space, never the zero that ends a line.
Typed == {b \in Byte : b >= Space}

LEMMA KeptTyped ==
  ASSUME NEW line \in Lines
  PROVE  Kept(line) \in Seq(Typed)
<1> DEFINE n == Len(line)
           piece == [k \in 1 .. n |-> KeptCode(TypedCode[line[k]])]
           Steps(f) == [i \in 0 .. n |-> IF i = 0 THEN <<>> ELSE f[i - 1] \o KeptCode(TypedCode[line[i]])]
<1>1. n \in Nat /\ \A k \in 1 .. n : line[k] \in Characters
  <2>1. line \in Seq(Characters)
    BY LineAssumption
  <2> QED BY <2>1
<1>2. piece \in [1 .. n -> Seq(Typed)]
  <2> SUFFICES ASSUME NEW k \in 1 .. n
               PROVE  KeptCode(TypedCode[line[k]]) \in Seq(Typed)
    OBVIOUS
  <2>1. PICK code : code = TypedCode[line[k]]
    OBVIOUS
  <2>2. code \in Byte \cup {NoCode}
    BY <1>1, <2>1, LineAssumption
  <2>3. CASE code # NoCode /\ code >= Space
    <3>1. KeptCode(code) = <<code>>
      BY <2>3 DEF KeptCode
    <3>2. code \in Typed
      BY <2>2, <2>3 DEF Typed
    <3> QED BY <2>1, <3>1, <3>2
  <2>4. CASE ~(code # NoCode /\ code >= Space)
    <3>1. KeptCode(code) = <<>>
      BY <2>4 DEF KeptCode
    <3> QED BY <2>1, <3>1
  <2> QED BY <2>3, <2>4
<1>3. ASSUME NEW f
      PROVE  f = Steps(f) <=> Joins(f, n, piece)
  <2>1. \A i \in 0 .. n : i # 0 => i \in 1 .. n
    BY <1>1
  <2>2. \A i \in 1 .. n : piece[i] = KeptCode(TypedCode[line[i]])
    OBVIOUS
  <2> HIDE DEF piece, n
  <2>3. Steps(f) = [i \in 0 .. n |-> IF i = 0 THEN <<>> ELSE f[i - 1] \o piece[i]]
    BY <2>1, <2>2
  <2> HIDE DEF Steps
  <2> QED BY <2>3 DEF Joins
<1>4. PICK f : Joins(f, n, piece)
  BY <1>1, <1>2, JoinsExist
<1>5. PICK w : w = CHOOSE kept : kept = Steps(kept)
  OBVIOUS
<1>6. Kept(line) = w[n]
  BY <1>5 DEF Kept
<1>7. w = Steps(w)
  <2> HIDE DEF Steps, piece, n
  <2>1. f = Steps(f)
    BY <1>3, <1>4
  <2> QED BY <1>5, <2>1
<1>8. Joins(w, n, piece)
  <2> HIDE DEF Steps, piece, n
  <2> QED BY <1>3, <1>7
<1>9. w[n] \in Seq(Typed)
  <2> HIDE DEF piece, n
  <2> QED BY <1>1, <1>2, <1>8, JoinsTyped
<1> QED BY <1>6, <1>9

\* At most all but one of the bytes after the first, the last being the zero.
LEMMA LettersTyped ==
  ASSUME NEW line \in Lines, NEW size \in Nat, size >= 1
  PROVE  Letters(line, size) \in Seq(Typed) /\ Len(Letters(line, size)) <= size - 1
<1>1. PICK kept : kept = Kept(line)
  OBVIOUS
<1>2. kept \in Seq(Typed) /\ Len(kept) \in Nat
  BY <1>1, KeptTyped
<1>3. PICK n : n = Min({size - 1, Len(kept)})
  OBVIOUS
<1>4. n \in Nat /\ n <= size - 1 /\ n <= Len(kept)
  <2>1. size - 1 \in Nat /\ Len(kept) \in Nat
    BY <1>2
  <2>2. n = IF size - 1 <= Len(kept) THEN size - 1 ELSE Len(kept)
    BY <1>3, <2>1, MinOfTwo
  <2> QED BY <2>1, <2>2
<1>5. Letters(line, size) = SubSeq(kept, 1, n)
  BY <1>1, <1>3 DEF Letters, MaxLetters
<1>6. \A i \in 1 .. n : kept[i] \in Typed
  BY <1>2, <1>4
<1>7. SubSeq(kept, 1, n) \in Seq(Typed) /\ Len(SubSeq(kept, 1, n)) <= n
  <2>1. /\ SubSeq(kept, 1, n) \in Seq(Typed)
        /\ Len(SubSeq(kept, 1, n)) = IF 1 <= n THEN n - 1 + 1 ELSE 0
    BY <1>4, <1>6, SubSeqProperties
  <2> QED BY <1>4, <2>1
<1>8. Len(SubSeq(kept, 1, n)) \in Nat
  BY <1>7
<1> QED BY <1>4, <1>5, <1>7, <1>8

LEMMA TypedBytes ==
  ASSUME NEW letters \in Seq(Typed)
  PROVE  /\ letters \in Seq(Byte) /\ Len(letters) \in Nat
         /\ \A i \in 1 .. Len(letters) : letters[i] \in Byte /\ letters[i] # 0
<1>1. Typed \subseteq Byte
  BY DEF Typed
<1>2. letters \in Seq(Byte)
  BY <1>1, SeqMonotonic
<1>3. \A i \in 1 .. Len(letters) : letters[i] \in Typed
  OBVIOUS
<1>4. Space \in Nat \ {0}
  BY TextAssumption DEF Code
<1>5. \A b \in Typed : b \in Byte /\ b # 0
  BY <1>4 DEF Typed, Byte
<1> QED BY <1>2, <1>3, <1>5

\* The Z-characters of a code.
LEMMA PlaceTyped ==
  ASSUME NEW alphabet, NEW first \in Nat, NEW code
  PROVE  PlaceIn(alphabet, first, code) \in Byte
<1> DEFINE places == {z \in first .. ZLimit - 1 : alphabet[z] = code}
<1>1. ZLimit \in Nat /\ ZLimit <= ByteLimit /\ ByteLimit \in Nat /\ 0 \in Byte
  BY TextAssumption, DictionaryAssumption, Bytes
<1>2. places \subseteq Nat /\ places \subseteq Byte
  BY <1>1 DEF Byte
<1>3. CASE places = {}
  BY <1>1, <1>3 DEF PlaceIn
<1>4. CASE places # {}
  <2>1. PlaceIn(alphabet, first, code) = CHOOSE z \in places : \A y \in places : z <= y
    BY <1>4 DEF PlaceIn
  <2> HIDE DEF places
  <2>2. \E z \in places : \A y \in places : z <= y
    BY <1>2, <1>4, LeastNumber
  <2>3. (CHOOSE z \in places : \A y \in places : z <= y) \in places
    BY <2>2
  <2> QED BY <1>2, <2>1, <2>3
<1> QED BY <1>3, <1>4

LEMMA WordZCharsTyped ==
  ASSUME NEW code \in Byte
  PROVE  WordZChars(code) \in Seq(Byte)
<1>1. PICK lower, other : /\ lower = PlaceIn(AlphabetA0, AlphabetLow, LowerCase(code))
                          /\ other = PlaceIn(AlphabetA2, Escape + 1, LowerCase(code))
  OBVIOUS
<1>2. lower \in Byte /\ other \in Byte
  <2>1. AlphabetLow \in Nat /\ Escape + 1 \in Nat
    BY DEF AlphabetLow, Escape
  <2>2. PICK e, c : e = Escape + 1 /\ c = LowerCase(code)
    OBVIOUS
  <2>3. PlaceIn(AlphabetA0, AlphabetLow, c) \in Byte /\ PlaceIn(AlphabetA2, e, c) \in Byte
    BY <2>1, <2>2, PlaceTyped
  <2> QED BY <1>1, <2>2, <2>3
<1>3. PICK q, r : q = code \div ZLimit /\ r = code % ZLimit
  OBVIOUS
<1>4. ZLimit \in Nat \ {0} /\ ZLimit > 7 /\ ZLimit <= ByteLimit /\ ByteLimit \in Nat
  BY TextAssumption, DictionaryAssumption, Bytes
<1>5. code \in Int /\ code >= 0 /\ code < ByteLimit
  BY <1>4 DEF Byte
<1>6. code = ZLimit * q + r /\ q \in Nat /\ r \in 0 .. ZLimit - 1
  BY <1>3, <1>4, <1>5, DivisionParts
<1>7. q <= ZLimit * q
  BY <1>4, <1>6
<1>8. q \in Byte /\ r \in Byte
  <2>1. PICK x : x = ZLimit * q
    OBVIOUS
  <2>2. x \in Int
    BY <1>4, <1>6, <2>1
  <2> QED BY <1>4, <1>5, <1>6, <1>7, <2>1, <2>2 DEF Byte
<1>9. {ZCharSpace, ShiftA2, Escape} \subseteq Byte
  BY <1>4 DEF Byte, ZCharSpace, ShiftA2, Escape
<1>10. \/ WordZChars(code) = <<ZCharSpace>> \/ WordZChars(code) = <<lower>>
       \/ WordZChars(code) = <<ShiftA2, other>> \/ WordZChars(code) = <<ShiftA2, Escape, q, r>>
  BY <1>1, <1>3 DEF WordZChars
<1>11. PICK space, shift, escape : space = ZCharSpace /\ shift = ShiftA2 /\ escape = Escape
  OBVIOUS
<1>12. {space, shift, escape, lower, other, q, r} \subseteq Byte
  BY <1>2, <1>8, <1>9, <1>11
<1>13. /\ <<space>> \in Seq(Byte) /\ <<lower>> \in Seq(Byte)
       /\ <<shift, other>> \in Seq(Byte) /\ <<shift, escape, q, r>> \in Seq(Byte)
  BY <1>12
<1> QED BY <1>10, <1>11, <1>13

LEMMA WordEncoded ==
  ASSUME NEW word \in Seq(Byte)
  PROVE  EncodeDictionaryWord(word) \in Entry
<1> DEFINE n == Len(word)
           piece == [k \in 1 .. n |-> WordZChars(word[k])]
           Steps(f) == [i \in 0 .. n |-> IF i = 0 THEN <<>> ELSE f[i - 1] \o WordZChars(word[i])]
<1>1. n \in Nat /\ \A k \in 1 .. n : word[k] \in Byte
  OBVIOUS
<1>2. piece \in [1 .. n -> Seq(Byte)]
  BY <1>1, WordZCharsTyped
<1>3. ASSUME NEW f
      PROVE  f = Steps(f) <=> Joins(f, n, piece)
  <2>1. \A i \in 0 .. n : i # 0 => i \in 1 .. n
    BY <1>1
  <2>2. \A i \in 1 .. n : piece[i] = WordZChars(word[i])
    OBVIOUS
  <2> HIDE DEF piece, n
  <2>3. Steps(f) = [i \in 0 .. n |-> IF i = 0 THEN <<>> ELSE f[i - 1] \o piece[i]]
    BY <2>1, <2>2
  <2> HIDE DEF Steps
  <2> QED BY <2>3 DEF Joins
<1>4. PICK f : Joins(f, n, piece)
  BY <1>1, <1>2, JoinsExist
<1>5. PICK w : w = CHOOSE all : all = Steps(all)
  OBVIOUS
<1>6. AllZChars(word) = w[n]
  BY <1>5 DEF AllZChars
<1>7. w = Steps(w)
  <2> HIDE DEF Steps, piece, n
  <2>1. f = Steps(f)
    BY <1>3, <1>4
  <2> QED BY <1>5, <2>1
<1>8. Joins(w, n, piece)
  <2> HIDE DEF Steps, piece, n
  <2> QED BY <1>3, <1>7
<1>9. PICK zchars : zchars = AllZChars(word)
  OBVIOUS
<1>10. zchars \in Seq(Byte)
  <2> HIDE DEF piece, n
  <2> QED BY <1>1, <1>2, <1>6, <1>8, <1>9, JoinsTyped
<1>11. ShiftA2 \in Byte /\ DictionaryZChars \in Nat
  BY TextAssumption, DictionaryAssumption, Bytes DEF Byte, ShiftA2
<1>12. \A i \in 1 .. DictionaryZChars : i <= Len(zchars) => zchars[i] \in Byte
  <2>1. Len(zchars) \in Nat
    BY <1>10
  <2>2. \A i \in 1 .. Len(zchars) : zchars[i] \in Byte
    BY <1>10
  <2> QED BY <1>11, <2>1, <2>2
<1>13. EncodeDictionaryWord(word) = [i \in 1 .. DictionaryZChars |-> IF i <= Len(zchars) THEN zchars[i] ELSE ShiftA2]
  BY <1>9 DEF EncodeDictionaryWord
<1> QED BY <1>11, <1>12, <1>13 DEF Entry

-----------------------------------------------------------------------------
(* The line in the text buffer.                                            *)

\* The bytes of the text buffer at t after its first, if it has any.
TextBytes(m, t) == IF t < story.length THEN t + 1 .. t + View(m)[t] ELSE {}

LEMMA LineStored ==
  ASSUME StoryOK, mem \in [0 .. story.staticBase - 1 -> Byte], NEW t \in Nat, NEW line \in Lines
  PROVE  /\ After([mem |-> mem, ok |-> TRUE], StoreInputLine(t, line), TextBytes(mem, t))
         /\ StoreInputLine(t, line).ok =>
               /\ Letters(line, View(mem)[t]) \in Seq(Byte)
               /\ Len(Letters(line, View(mem)[t])) < ByteLimit - 1
<1> DEFINE s == [mem |-> mem, ok |-> TRUE]
           letters == Letters(line, View(mem)[t])
<1>1. s \in Storage
  BY DEF Storage
<1>2. CASE TextBufferFits(mem, t)
  <2>1. t < story.length /\ story.length \in Nat
    BY <1>2 DEF TextBufferFits, StoryOK
  <2>2. PICK size : size = View(mem)[t]
    OBVIOUS
  <2>3. size \in Byte /\ size >= 2
    <3>1. t \in 0 .. story.length - 1
      BY <2>1
    <3>2. size \in Byte
      BY <2>2, <3>1, ViewTyped DEF Memories
    <3>3. size + 1 >= 3
      BY <1>2, <2>2 DEF TextBufferFits, TextBufferMin
    <3>4. size \in Int
      BY <3>2 DEF Byte
    <3> QED BY <3>2, <3>3, <3>4
  <2>4. letters \in Seq(Byte) /\ Len(letters) <= size - 1 /\ Len(letters) \in Nat
    <3>1. size \in Nat /\ size >= 1
      BY <2>3 DEF Byte
    <3>2. Letters(line, size) \in Seq(Byte) /\ Len(Letters(line, size)) <= size - 1
      BY <3>1, LettersTyped, TypedBytes
    <3>3. Len(Letters(line, size)) \in Nat
      BY <3>2
    <3> QED BY <2>2, <3>2, <3>3
  <2> HIDE DEF letters
  <2>5. PICK values : values = letters \o <<0>>
    OBVIOUS
  <2>6. values \in Seq(Byte) /\ Len(values) = Len(letters) + 1
    <3>1. <<0>> \in Seq(Byte) /\ Len(<<0>>) = 1
      BY Bytes
    <3> QED BY <2>4, <2>5, <3>1, ConcatProperties
  <2>7. StoreInputLine(t, line) = Store(s, t + 1, values)
    BY <1>2, <2>5 DEF StoreInputLine, letters
  <2>8. After(s, Store(s, t + 1, values), (t + 1) .. (t + 1) + Len(values) - 1)
    <3>1. PICK u, address : u = s /\ address = t + 1
      OBVIOUS
    <3>2. u \in Storage /\ address \in Int
      BY <1>1, <3>1
    <3>3. After(u, Store(u, address, values), address .. address + Len(values) - 1)
      BY <2>6, <3>2, StoreTyped
    <3> QED BY <3>1, <3>3
  <2>9. (t + 1) .. (t + 1) + Len(values) - 1 \subseteq TextBytes(mem, t)
    <3>1. size \in Int
      BY <2>3 DEF Byte
    <3>2. TextBytes(mem, t) = t + 1 .. t + size
      BY <2>1, <2>2 DEF TextBytes
    <3> QED BY <2>4, <2>6, <3>1, <3>2
  <2>10. After(s, StoreInputLine(t, line), TextBytes(mem, t))
    BY <2>7, <2>8, <2>9 DEF After
  <2>11. Len(letters) < ByteLimit - 1
    BY <2>3, <2>4, Bytes DEF Byte
  <2> QED BY <2>4, <2>10, <2>11 DEF letters
<1>3. CASE ~TextBufferFits(mem, t)
  <2>1. StoreInputLine(t, line) = [mem |-> mem, ok |-> FALSE]
    BY <1>3 DEF StoreInputLine
  <2> QED BY <2>1 DEF After, Storage
<1> QED BY <1>2, <1>3

\* The letters lie after the byte at t, and a zero after them.
LettersAt(m, t, letters) ==
    /\ \A i \in 1 .. Len(letters) : m[t + i] = letters[i]
    /\ m[t + Len(letters) + 1] = 0

\* The bytes of m from t on hold the letters and what ends them.
LEMMA LineContents ==
  ASSUME StoryOK, mem \in [0 .. story.staticBase - 1 -> Byte],
         NEW t \in Nat, NEW line \in Lines, NEW s, s = StoreInputLine(t, line),
         NEW size, size = View(mem)[t], NEW letters, letters = Letters(line, size)
  PROVE  /\ s.ok <=> TextBufferFits(mem, t)
         /\ s.ok => /\ size \in Byte /\ size >= 2 /\ t + size < story.staticBase
                    /\ letters \in Seq(Typed) /\ Len(letters) < size
                    /\ TextBytes(mem, t) = t + 1 .. t + size
                    /\ LettersAt(s.mem, t, letters)
<1>1. CASE ~TextBufferFits(mem, t)
  <2>1. s = [mem |-> mem, ok |-> FALSE]
    BY <1>1 DEF StoreInputLine
  <2>2. ~s.ok
    BY <2>1
  <2> QED BY <1>1, <2>2
<1>2. CASE TextBufferFits(mem, t)
  <2>1. t < story.length /\ story.length \in Nat /\ story.staticBase \in Nat
    BY <1>2 DEF TextBufferFits, StoryOK
  <2>2. size \in Byte /\ size >= 2 /\ size \in Nat /\ t + size < story.staticBase
    <3>1. t \in 0 .. story.length - 1
      BY <2>1
    <3>2. size \in Byte
      BY <3>1, ViewTyped DEF Memories
    <3>3. size + 1 >= 3 /\ t + (size + 1) <= story.staticBase
      BY <1>2 DEF TextBufferFits, TextBufferMin, Writable, Lies
    <3>4. size \in Nat
      BY <3>2 DEF Byte
    <3> QED BY <2>1, <3>2, <3>3, <3>4
  <2>3. letters \in Seq(Typed) /\ Len(letters) <= size - 1
    <3>1. size \in Nat /\ size >= 1
      BY <2>2
    <3> QED BY <3>1, LettersTyped
  <2>4. PICK n : n = Len(letters)
    OBVIOUS
  <2>5. letters \in Seq(Byte) /\ n \in Nat /\ n < size
    BY <2>2, <2>3, <2>4, TypedBytes
  <2>6. PICK values : values = letters \o <<0>>
    OBVIOUS
  <2>7. /\ values \in Seq(Byte) /\ Len(values) = n + 1
        /\ \A i \in 1 .. n + 1 : values[i] = IF i <= n THEN letters[i] ELSE 0
    <3>1. PICK zero : zero = <<0>>
      OBVIOUS
    <3>2. zero \in Seq(Byte) /\ Len(zero) = 1 /\ zero[1] = 0
      BY <3>1, Bytes
    <3>3. /\ letters \o zero \in Seq(Byte)
          /\ Len(letters \o zero) = n + 1
          /\ \A i \in 1 .. n + 1 : (letters \o zero)[i] = IF i <= n THEN letters[i] ELSE zero[i - n]
      <4>1. /\ letters \o zero \in Seq(Byte)
            /\ Len(letters \o zero) = Len(letters) + Len(zero)
            /\ \A i \in 1 .. Len(letters) + Len(zero) :
                  (letters \o zero)[i] = IF i <= Len(letters) THEN letters[i] ELSE zero[i - Len(letters)]
        BY <2>5, <3>2, ConcatProperties, SMTT(20)
      <4> QED BY <2>4, <3>2, <4>1
    <3>4. \A i \in 1 .. n + 1 : ~(i <= n) => i - n = 1
      BY <2>5
    <3> QED BY <2>6, <3>1, <3>2, <3>3, <3>4
  <2>8. PICK r, c : r = [mem |-> mem, ok |-> TRUE] /\ c = t + 1
    OBVIOUS
  <2>9. r \in Storage /\ r.ok /\ c \in Nat /\ s = Store(r, c, values)
    BY <1>2, <2>6, <2>8 DEF Storage, StoreInputLine
  <2>10. StoredAs(r, s, c, values)
    BY <2>7, <2>9, StoreAt
  <2>11. s.ok
    <3>1. Writable(c, Len(values))
      BY <2>1, <2>2, <2>5, <2>7, <2>8 DEF Writable, Lies
    <3> QED BY <2>9, <2>10, <3>1 DEF StoredAs
  <2>12. \A i \in 1 .. n + 1 : s.mem[t + i] = values[i]
    <3> SUFFICES ASSUME NEW i \in 1 .. n + 1 PROVE s.mem[t + i] = values[i]
      OBVIOUS
    <3>1. c + i - 1 = t + i
      BY <2>5, <2>8
    <3> QED BY <2>7, <2>10, <2>11, <3>1 DEF StoredAs
  <2>13. \A i \in 1 .. n : s.mem[t + i] = letters[i]
    <3>1. \A i \in 1 .. n : i \in 1 .. n + 1 /\ i <= n
      BY <2>5
    <3> QED BY <2>7, <2>12, <3>1
  <2>14. s.mem[t + n + 1] = 0
    <3>1. n + 1 \in 1 .. n + 1 /\ ~(n + 1 <= n) /\ t + (n + 1) = t + n + 1
      BY <2>5
    <3> QED BY <2>7, <2>12, <3>1
  <2>15. TextBytes(mem, t) = t + 1 .. t + size
    BY <2>1 DEF TextBytes
  <2> QED BY <1>2, <2>2, <2>3, <2>4, <2>5, <2>11, <2>13, <2>14, <2>15 DEF LettersAt
<1> QED BY <1>1, <1>2

\* The text in a buffer at t that says it has so many bytes.
TextRead(m, t, size) ==
    LET end == Min({i \in 1 .. size : m[t + i] = 0})
    IN  [i \in 1 .. end - 1 |-> m[t + i]]

\* What is stored so is what is read back up to the first zero.
LEMMA LineReadBack ==
  ASSUME NEW m, NEW t \in Nat, NEW size \in Nat, NEW letters \in Seq(Typed), Len(letters) < size,
         LettersAt(m, t, letters)
  PROVE  TextRead(m, t, size) = letters
<1> DEFINE T == {i \in 1 .. size : m[t + i] = 0}
<1>1. PICK end, u : end = Min(T) /\ u = [i \in 1 .. end - 1 |-> m[t + i]]
  OBVIOUS
<1>2. TextRead(m, t, size) = u
  BY <1>1 DEF TextRead
<1>3. PICK n : n = Len(letters)
  OBVIOUS
<1>4. n \in Nat /\ n < size /\ \A i \in 1 .. n : m[t + i] # 0 /\ m[t + i] = letters[i]
  BY <1>3, TypedBytes DEF LettersAt
<1>5. m[t + (n + 1)] = 0
  <2>1. t + n + 1 = t + (n + 1)
    BY <1>4
  <2>2. m[t + n + 1] = 0
    BY <1>3 DEF LettersAt
  <2> QED BY <2>1, <2>2
<1>6. n + 1 \in T
  BY <1>4, <1>5
<1>7. \A i \in T : i \in Nat /\ n + 1 <= i
  <2> SUFFICES ASSUME NEW i \in T PROVE i \in Nat /\ n + 1 <= i
    OBVIOUS
  <2>1. i \in Nat /\ i >= 1 /\ m[t + i] = 0
    OBVIOUS
  <2>2. ~(i <= n)
    <3>1. i <= n => i \in 1 .. n
      BY <1>4, <2>1
    <3> QED BY <1>4, <2>1, <3>1
  <2> QED BY <1>4, <2>1, <2>2
<1>8. PICK x : x = n + 1
  OBVIOUS
<1>9. x \in T /\ x \in Nat /\ \A i \in T : i \in Nat /\ x <= i
  BY <1>4, <1>6, <1>7, <1>8
<1>10. end = CHOOSE i \in T : \A j \in T : i <= j
  BY <1>1 DEF Min
<1> HIDE DEF T
<1>11. end \in T /\ \A j \in T : end <= j
  BY <1>9, <1>10
<1>12. end = x
  <2>1. end <= x /\ x <= end /\ end \in Nat
    BY <1>9, <1>11
  <2> QED BY <1>9, <2>1
<1>13. end - 1 = n
  BY <1>4, <1>8, <1>12
<1>14. PICK f : f = [i \in 1 .. n |-> m[t + i]]
  OBVIOUS
<1>15. u = f
  BY <1>13, <1>14, <1>1
<1>16. f \in [1 .. n -> Byte] /\ \A i \in 1 .. n : f[i] = letters[i]
  <2>1. \A i \in 1 .. n : m[t + i] = letters[i] /\ letters[i] \in Byte
    BY <1>3, <1>4, TypedBytes
  <2> QED BY <1>14, <2>1
<1>17. f \in Seq(Byte) /\ Len(f) = n /\ letters \in Seq(Byte)
  BY <1>4, <1>16, TypedBytes
<1>18. f = letters
  BY <1>3, <1>16, <1>17, SeqEqual
<1> QED BY <1>15, <1>2, <1>18

-----------------------------------------------------------------------------
(* The words of the line.                                                  *)

\* Where a word of the text can begin and how long it can be.
Piece(text) == {w \in [start : 1 .. Len(text), text : Seq(Byte)] : Len(w.text) <= Len(text)}

Splitting(text) == [start : 0 .. Len(text), words : Seq(Piece(text))]

LEMMA FlushedTyped ==
  ASSUME NEW text \in Seq(Byte), NEW s \in Splitting(text), NEW end \in 0 .. Len(text)
  PROVE  Flushed(s, text, end) \in Splitting(text)
<1>1. Len(text) \in Nat /\ s.start \in 0 .. Len(text) /\ s.words \in Seq(Piece(text))
  BY DEF Splitting
<1>2. CASE s.start = 0
  BY <1>2 DEF Flushed
<1>3. CASE s.start # 0
  <2>1. PICK start, part : start = s.start /\ part = SubSeq(text, start, end)
    OBVIOUS
  <2>2. start \in 1 .. Len(text)
    BY <1>1, <1>3, <2>1
  <2>3. \A i \in start .. end : text[i] \in Byte
    BY <1>1, <2>2
  <2>4. /\ SubSeq(text, start, end) \in Seq(Byte)
        /\ Len(SubSeq(text, start, end)) = IF start <= end THEN end - start + 1 ELSE 0
    <3>1. start \in Int /\ end \in Int
      BY <1>1, <2>2
    <3> QED BY <2>3, <3>1, SubSeqProperties
  <2>5. part \in Seq(Byte) /\ Len(part) <= Len(text)
    BY <1>1, <2>1, <2>2, <2>4
  <2>6. PICK w : w = [start |-> start, text |-> part]
    OBVIOUS
  <2>7. w \in Piece(text)
    BY <2>2, <2>5, <2>6 DEF Piece
  <2>8. Append(s.words, w) \in Seq(Piece(text))
    BY <1>1, <2>7, AppendProperties
  <2>9. Flushed(s, text, end) = [start |-> 0, words |-> Append(s.words, w)]
    BY <1>3, <2>1, <2>6 DEF Flushed
  <2>10. 0 \in 0 .. Len(text)
    BY <1>1
  <2> QED BY <2>8, <2>9, <2>10 DEF Splitting
<1> QED BY <1>2, <1>3

LEMMA AtCharacterTyped ==
  ASSUME NEW text \in Seq(Byte), NEW s \in Splitting(text), NEW i \in 1 .. Len(text), NEW separators
  PROVE  AtCharacter(s, text, i, separators) \in Splitting(text)
<1>1. Len(text) \in Nat /\ i - 1 \in 0 .. Len(text) /\ text[i] \in Byte
  OBVIOUS
<1>2. PICK f : f = Flushed(s, text, i - 1)
  OBVIOUS
<1>3. f \in Splitting(text)
  BY <1>1, <1>2, FlushedTyped
<1>4. PICK c : c = text[i]
  OBVIOUS
<1>5. CASE c = Space
  BY <1>2, <1>3, <1>4, <1>5 DEF AtCharacter
<1>6. CASE c # Space /\ c \in separators
  <2>1. PICK w : w = [start |-> i, text |-> <<c>>]
    OBVIOUS
  <2>2. <<c>> \in Seq(Byte) /\ Len(<<c>>) = 1
    BY <1>1, <1>4
  <2>3. w \in Piece(text)
    BY <1>1, <2>1, <2>2 DEF Piece
  <2>4. f.words \in Seq(Piece(text))
    BY <1>3 DEF Splitting
  <2>5. Append(f.words, w) \in Seq(Piece(text))
    BY <2>3, <2>4, AppendProperties
  <2>6. AtCharacter(s, text, i, separators) = [start |-> 0, words |-> Append(f.words, w)]
    BY <1>2, <1>4, <1>6, <2>1 DEF AtCharacter
  <2>7. 0 \in 0 .. Len(text)
    BY <1>1
  <2> QED BY <2>5, <2>6, <2>7 DEF Splitting
<1>7. CASE c # Space /\ c \notin separators
  <2>1. CASE s.start = 0
    <3>1. AtCharacter(s, text, i, separators) = [s EXCEPT !.start = i]
      BY <1>4, <1>7, <2>1 DEF AtCharacter
    <3>2. [s EXCEPT !.start = i] = [start |-> i, words |-> s.words]
      BY DEF Splitting
    <3>3. s.words \in Seq(Piece(text)) /\ i \in 0 .. Len(text)
      BY <1>1 DEF Splitting
    <3> QED BY <3>1, <3>2, <3>3 DEF Splitting
  <2>2. CASE s.start # 0
    <3>1. AtCharacter(s, text, i, separators) = s
      BY <1>4, <1>7, <2>2 DEF AtCharacter
    <3> QED BY <3>1
  <2> QED BY <2>1, <2>2
<1> QED BY <1>5, <1>6, <1>7

Divides(text, separators, i) == text[i] \in separators \cup {Space}

Outside(text, separators, i) == i \notin 1 .. Len(text) \/ Divides(text, separators, i)

\* The text from f to l holds neither separators nor spaces.
Undivided(text, separators, f, l) == \A i \in f .. l : ~Divides(text, separators, i)

\* What WordsOf says of one piece of the text.
LEMMA WordShape ==
  ASSUME NEW text \in Seq(Byte), NEW separators, NEW f, NEW l
  PROVE  <<f, l>> \in WordsOf(text, separators) <=>
            /\ f \in 1 .. Len(text) /\ l \in 1 .. Len(text) /\ f <= l
            /\ \/ f = l /\ Divides(text, separators, f) /\ text[f] # Space
               \/ /\ \A i \in f .. l : ~Divides(text, separators, i)
                  /\ Outside(text, separators, f - 1) /\ Outside(text, separators, l + 1)
<1> DEFINE n == Len(text)
           D(i) == text[i] \in separators \cup {Space}
           O(i) == i \notin 1 .. n \/ D(i)
           A == {<<i, i>> : i \in {j \in 1 .. n : D(j) /\ text[j] # Space}}
           B == {w \in (1 .. n) \X (1 .. n) :
                   /\ w[1] <= w[2] /\ \A i \in w[1] .. w[2] : ~D(i)
                   /\ O(w[1] - 1) /\ O(w[2] + 1)}
<1>1. WordsOf(text, separators) = A \cup B
  BY DEF WordsOf
<1>2. n \in Nat /\ \A i \in 1 .. n : i <= i
  OBVIOUS
<1>3. <<f, l>> \in A <=> f = l /\ f \in 1 .. n /\ D(f) /\ text[f] # Space
  <2> HIDE DEF D
  <2> QED OBVIOUS
<1>4. <<f, l>> \in B <=> /\ f \in 1 .. n /\ l \in 1 .. n /\ f <= l
                         /\ \A i \in f .. l : ~D(i)
                         /\ O(f - 1) /\ O(l + 1)
  <2> HIDE DEF D, O
  <2> QED OBVIOUS
<1>5. \A i : D(i) <=> Divides(text, separators, i)
  BY DEF Divides
<1>6. \A i : O(i) <=> Outside(text, separators, i)
  BY <1>5 DEF Outside
<1> HIDE DEF n, D, O, A, B
<1> QED BY <1>1, <1>2, <1>3, <1>4, <1>5, <1>6 DEF n

LEMMA WordPairs ==
  ASSUME NEW text \in Seq(Byte), NEW separators, NEW v \in WordsOf(text, separators)
  PROVE  v = <<v[1], v[2]>> /\ v \in (1 .. Len(text)) \X (1 .. Len(text))
<1> DEFINE n == Len(text)
           D(i) == text[i] \in separators \cup {Space}
           O(i) == i \notin 1 .. n \/ D(i)
           A == {<<i, i>> : i \in {j \in 1 .. n : D(j) /\ text[j] # Space}}
           B == {w \in (1 .. n) \X (1 .. n) :
                   /\ w[1] <= w[2] /\ \A i \in w[1] .. w[2] : ~D(i)
                   /\ O(w[1] - 1) /\ O(w[2] + 1)}
<1>1. WordsOf(text, separators) = A \cup B
  BY DEF WordsOf
<1>2. A \subseteq (1 .. n) \X (1 .. n) /\ B \subseteq (1 .. n) \X (1 .. n)
  <2> HIDE DEF D, O
  <2> QED OBVIOUS
<1>3. v \in (1 .. n) \X (1 .. n)
  BY <1>1, <1>2
<1> QED BY <1>3

\* The words that begin before b.
Begun(text, separators, b) == {v \in WordsOf(text, separators) : v[1] < b}

\* No word begins with a space.
LEMMA SpaceBegins ==
  ASSUME NEW text \in Seq(Byte), NEW separators, NEW i \in 1 .. Len(text), text[i] = Space
  PROVE  Begun(text, separators, i + 1) = Begun(text, separators, i)
<1> SUFFICES ASSUME NEW v \in WordsOf(text, separators), v[1] < i + 1
             PROVE  v[1] < i
  BY WordPairs DEF Begun
<1>1. PICK f, l : f = v[1] /\ l = v[2]
  OBVIOUS
<1>2. v = <<f, l>> /\ f \in 1 .. Len(text) /\ l \in 1 .. Len(text)
  BY <1>1, WordPairs
<1>3. f # i
  <2> SUFFICES ASSUME f = i PROVE FALSE
    OBVIOUS
  <2>1. Divides(text, separators, f) /\ f \in f .. l
    BY <1>2, WordShape DEF Divides
  <2> QED BY <1>2, <2>1, WordShape
<1> QED BY <1>1, <1>2, <1>3

\* A separator is a word.
LEMMA SeparatorBegins ==
  ASSUME NEW text \in Seq(Byte), NEW separators, NEW i \in 1 .. Len(text),
         text[i] # Space, text[i] \in separators
  PROVE  /\ <<i, i>> \in WordsOf(text, separators)
         /\ Begun(text, separators, i + 1) = Begun(text, separators, i) \cup {<<i, i>>}
<1>1. <<i, i>> \in WordsOf(text, separators)
  BY WordShape DEF Divides
<1>2. ASSUME NEW v \in WordsOf(text, separators), v[1] < i + 1
      PROVE  v[1] < i \/ v = <<i, i>>
  <2>1. PICK f, l : f = v[1] /\ l = v[2]
    OBVIOUS
  <2>2. v = <<f, l>> /\ f \in 1 .. Len(text) /\ l \in 1 .. Len(text)
    BY <2>1, WordPairs
  <2>3. f = i => l = i
    <3> SUFFICES ASSUME f = i PROVE l = i
      OBVIOUS
    <3>1. Divides(text, separators, f) /\ f <= l
      BY <2>2, WordShape DEF Divides
    <3>2. f \in f .. l
      BY <2>2, <3>1
    <3> QED BY <2>2, <3>1, <3>2, WordShape
  <2> QED BY <1>2, <2>1, <2>2, <2>3
<1>3. \A v \in WordsOf(text, separators) : v[1] \in Int
  BY WordPairs
<1>4. <<i, i>>[1] = i /\ i < i + 1 /\ \A x \in Int : x < i => x < i + 1
  OBVIOUS
<1> QED BY <1>1, <1>2, <1>3, <1>4 DEF Begun

\* The longest piece without separators and spaces is one.
LEMMA PieceBegins ==
  ASSUME NEW text \in Seq(Byte), NEW separators,
         NEW f \in 1 .. Len(text), NEW l \in 1 .. Len(text), f <= l,
         Undivided(text, separators, f, l),
         Outside(text, separators, f - 1), Outside(text, separators, l + 1),
         NEW w, w = <<f, l>>
  PROVE  /\ w \in WordsOf(text, separators)
         /\ Begun(text, separators, l + 1) = Begun(text, separators, f) \cup {w}
<1>1. <<f, l>> \in WordsOf(text, separators)
  BY WordShape DEF Undivided
<1>2. ASSUME NEW v \in WordsOf(text, separators), v[1] < l + 1
      PROVE  v[1] < f \/ v = <<f, l>>
  <2>1. PICK g, h : g = v[1] /\ h = v[2]
    OBVIOUS
  <2>2. v = <<g, h>> /\ g \in 1 .. Len(text) /\ h \in 1 .. Len(text) /\ g <= h
    BY <2>1, WordPairs, WordShape
  <2>3. Len(text) \in Nat /\ g < l + 1
    BY <1>2, <2>1
  <2> SUFFICES ASSUME ~(g < f) PROVE g = f /\ h = l
    BY <2>1, <2>2
  <2>4. g \in f .. l
    BY <2>2, <2>3
  <2>5. /\ \A i \in g .. h : ~Divides(text, separators, i)
        /\ Outside(text, separators, g - 1) /\ Outside(text, separators, h + 1)
    BY <2>2, <2>4, WordShape DEF Undivided
  <2>6. g = f
    <3> SUFFICES ASSUME g # f PROVE FALSE
      OBVIOUS
    <3>1. g - 1 \in f .. l /\ g - 1 \in 1 .. Len(text)
      BY <2>2, <2>3, <2>4
    <3> QED BY <2>5, <3>1 DEF Outside, Undivided
  <2>7. ~(h < l)
    <3> SUFFICES ASSUME h < l PROVE FALSE
      OBVIOUS
    <3>1. h + 1 \in f .. l /\ h + 1 \in 1 .. Len(text)
      BY <2>2, <2>3, <2>6
    <3> QED BY <2>5, <3>1 DEF Outside, Undivided
  <2>8. ~(l < h)
    <3> SUFFICES ASSUME l < h PROVE FALSE
      OBVIOUS
    <3>1. l + 1 \in g .. h /\ l + 1 \in 1 .. Len(text)
      BY <2>2, <2>3, <2>6
    <3> QED BY <2>5, <3>1 DEF Outside
  <2> QED BY <2>2, <2>3, <2>6, <2>7, <2>8
<1>3. \A v \in WordsOf(text, separators) : v[1] \in Int
  BY WordPairs
<1>4. <<f, l>>[1] = f /\ f < l + 1 /\ \A x \in Int : x < f => x < l + 1
  OBVIOUS
<1> QED BY <1>1, <1>2, <1>3, <1>4 DEF Begun

\* The first and the last position of a word.
Place(w) == <<w.start, w.start + Len(w.text) - 1>>

\* The words are those at the places T of the text, from the left to the right.
Listing(words, text, T) ==
    /\ \A k \in 1 .. Len(words) :
          /\ Place(words[k]) \in T
          /\ words[k].text = SubSeq(text, Place(words[k])[1], Place(words[k])[2])
    /\ \A v \in T : \E k \in 1 .. Len(words) : v = Place(words[k])
    /\ \A j, k \in 1 .. Len(words) : j < k => words[j].start < words[k].start

LEMMA PieceText ==
  ASSUME NEW text \in Seq(Byte), NEW f \in 1 .. Len(text), NEW l \in 1 .. Len(text), f <= l,
         NEW w, w = [start |-> f, text |-> SubSeq(text, f, l)]
  PROVE  w \in Piece(text) /\ Place(w) = <<f, l>>
<1>1. f \in Int /\ l \in Int /\ Len(text) \in Nat /\ \A i \in f .. l : text[i] \in Byte
  OBVIOUS
<1>2. SubSeq(text, f, l) \in Seq(Byte) /\ Len(SubSeq(text, f, l)) = l - f + 1
  BY <1>1, SubSeqProperties
<1>3. w.start = f /\ w.text = SubSeq(text, f, l)
  OBVIOUS
<1>4. Len(w.text) = l - f + 1 /\ Len(w.text) <= Len(text)
  BY <1>1, <1>2, <1>3
<1>5. Place(w) = <<f, l>>
  BY <1>1, <1>3, <1>4 DEF Place
<1> QED BY <1>2, <1>4, <1>5 DEF Piece

LEMMA ListingAppended ==
  ASSUME NEW text \in Seq(Byte), NEW words \in Seq(Piece(text)), NEW T, Listing(words, text, T),
         NEW f \in 1 .. Len(text), NEW l \in 1 .. Len(text), f <= l,
         \A v \in T : v[1] < f,
         NEW w, w = [start |-> f, text |-> SubSeq(text, f, l)]
  PROVE  Listing(Append(words, w), text, T \cup {<<f, l>>})
<1>1. w \in Piece(text) /\ Place(w) = <<f, l>>
  BY PieceText
<1>2. PICK more, n : more = Append(words, w) /\ n = Len(words)
  OBVIOUS
<1>3. /\ n \in Nat /\ Len(more) = n + 1 /\ more[n + 1] = w
      /\ \A k \in 1 .. n : more[k] = words[k]
  BY <1>1, <1>2, AppendProperties
<1>4. \A k \in 1 .. n + 1 : k \in 1 .. n \/ k = n + 1
  BY <1>3
<1>5. n + 1 \in 1 .. n + 1 /\ \A k \in 1 .. n : k \in 1 .. n + 1
  BY <1>3
<1>6. w.text = SubSeq(text, f, l) /\ w.start = f
  OBVIOUS
<1>7. \A k \in 1 .. n : words[k].start < f
  <2> SUFFICES ASSUME NEW k \in 1 .. n PROVE words[k].start < f
    OBVIOUS
  <2>1. Place(words[k]) \in T /\ Place(words[k])[1] = words[k].start
    BY <1>2 DEF Listing, Place
  <2> QED BY <2>1
<1> DEFINE P == Place(w)
<1>8. \A k \in 1 .. n + 1 :
          /\ Place(more[k]) \in T \cup {<<f, l>>}
          /\ more[k].text = SubSeq(text, Place(more[k])[1], Place(more[k])[2])
  <2> SUFFICES ASSUME NEW k \in 1 .. n + 1
               PROVE  /\ Place(more[k]) \in T \cup {<<f, l>>}
                      /\ more[k].text = SubSeq(text, Place(more[k])[1], Place(more[k])[2])
    OBVIOUS
  <2>1. CASE k \in 1 .. n
    BY <1>2, <1>3, <2>1 DEF Listing
  <2>2. CASE k = n + 1
    <3>1. more[k] = w /\ Place(w)[1] = f /\ Place(w)[2] = l
      BY <1>1, <1>3, <2>2
    <3> QED BY <1>1, <1>6, <3>1
  <2> QED BY <1>4, <2>1, <2>2
<1>9. \A v \in T \cup {<<f, l>>} : \E k \in 1 .. n + 1 : v = Place(more[k])
  <2> SUFFICES ASSUME NEW v \in T \cup {<<f, l>>}
               PROVE  \E k \in 1 .. n + 1 : v = Place(more[k])
    OBVIOUS
  <2>1. CASE v \in T
    <3>1. PICK k \in 1 .. n : v = Place(words[k])
      BY <1>2, <2>1 DEF Listing
    <3> QED BY <1>3, <1>5, <3>1
  <2>2. CASE v = <<f, l>>
    BY <1>1, <1>3, <1>5, <2>2
  <2> QED BY <2>1, <2>2
<1>10. \A j, k \in 1 .. n + 1 : j < k => more[j].start < more[k].start
  <2> SUFFICES ASSUME NEW j \in 1 .. n + 1, NEW k \in 1 .. n + 1, j < k
               PROVE  more[j].start < more[k].start
    OBVIOUS
  <2>1. j \in 1 .. n /\ more[j] = words[j]
    BY <1>3
  <2>2. CASE k \in 1 .. n
    BY <1>2, <1>3, <2>1, <2>2 DEF Listing
  <2>3. CASE k = n + 1
    BY <1>3, <1>6, <1>7, <2>1, <2>3
  <2> QED BY <1>4, <2>2, <2>3
<1>11. Listing(more, text, T \cup {<<f, l>>})
  BY <1>3, <1>8, <1>9, <1>10 DEF Listing
<1> QED BY <1>2, <1>11

\* The splitting after i characters: the words that have been listed are those
\* that begin before the word in progress, or all that begin by i.
SplitUpTo(s, text, separators, i) ==
    /\ s \in Splitting(text)
    /\ IF s.start = 0
       THEN /\ Outside(text, separators, i)
            /\ Listing(s.words, text, Begun(text, separators, i + 1))
       ELSE /\ s.start <= i /\ Outside(text, separators, s.start - 1)
            /\ Undivided(text, separators, s.start, i)
            /\ Listing(s.words, text, Begun(text, separators, s.start))

LEMMA FlushedLists ==
  ASSUME NEW text \in Seq(Byte), NEW separators, NEW i \in 0 .. Len(text),
         NEW s, SplitUpTo(s, text, separators, i), Outside(text, separators, i + 1)
  PROVE  /\ Flushed(s, text, i).start = 0
         /\ Listing(Flushed(s, text, i).words, text, Begun(text, separators, i + 1))
<1>1. s \in Splitting(text)
  BY DEF SplitUpTo
<1>2. CASE s.start = 0
  BY <1>2 DEF Flushed, SplitUpTo
<1>3. CASE s.start # 0
  <2>1. PICK f : f = s.start
    OBVIOUS
  <2>2. f \in 1 .. Len(text) /\ i \in 1 .. Len(text) /\ f <= i
    BY <1>1, <1>3, <2>1 DEF SplitUpTo, Splitting
  <2>3. PICK w : w = [start |-> f, text |-> SubSeq(text, f, i)]
    OBVIOUS
  <2>4. Flushed(s, text, i) = [start |-> 0, words |-> Append(s.words, w)]
    BY <1>3, <2>1, <2>3 DEF Flushed
  <2>5. Begun(text, separators, i + 1) = Begun(text, separators, f) \cup {<<f, i>>}
    <3>1. /\ Undivided(text, separators, f, i)
          /\ Outside(text, separators, f - 1)
      BY <1>3, <2>1 DEF SplitUpTo
    <3>2. PICK v : v = <<f, i>>
      OBVIOUS
    <3>3. Begun(text, separators, i + 1) = Begun(text, separators, f) \cup {v}
      BY <2>2, <3>1, <3>2, PieceBegins
    <3> QED BY <3>2, <3>3
  <2>6. Listing(s.words, text, Begun(text, separators, f)) /\ s.words \in Seq(Piece(text))
    BY <1>1, <1>3, <2>1 DEF SplitUpTo, Splitting
  <2>7. \A v \in Begun(text, separators, f) : v[1] < f
    BY DEF Begun
  <2>8. Listing(Append(s.words, w), text, Begun(text, separators, f) \cup {<<f, i>>})
    BY <2>2, <2>3, <2>6, <2>7, ListingAppended
  <2>9. Flushed(s, text, i).start = 0 /\ Flushed(s, text, i).words = Append(s.words, w)
    BY <2>4
  <2> QED BY <2>5, <2>8, <2>9
<1> QED BY <1>2, <1>3

LEMMA AtCharacterLists ==
  ASSUME NEW text \in Seq(Byte), NEW separators, NEW i \in 1 .. Len(text),
         NEW s, SplitUpTo(s, text, separators, i - 1)
  PROVE  SplitUpTo(AtCharacter(s, text, i, separators), text, separators, i)
<1>1. s \in Splitting(text) /\ i - 1 \in 0 .. Len(text) /\ (i - 1) + 1 = i /\ i \in Nat
  BY DEF SplitUpTo
<1>2. PICK t, f : t = AtCharacter(s, text, i, separators) /\ f = Flushed(s, text, i - 1)
  OBVIOUS
<1>3. t \in Splitting(text) /\ f \in Splitting(text)
  BY <1>1, <1>2, AtCharacterTyped, FlushedTyped
<1>4. PICK c : c = text[i]
  OBVIOUS
<1>5. ASSUME Divides(text, separators, i)
      PROVE  f.start = 0 /\ Listing(f.words, text, Begun(text, separators, i))
  <2>1. PICK h : h = i - 1
    OBVIOUS
  <2>2. h \in 0 .. Len(text) /\ h + 1 = i /\ f = Flushed(s, text, h) /\ SplitUpTo(s, text, separators, h)
    BY <1>1, <1>2, <2>1
  <2>3. Outside(text, separators, h + 1)
    BY <1>5, <2>2 DEF Outside
  <2> QED BY <2>2, <2>3, FlushedLists
<1>6. CASE c = Space
  <2>1. Divides(text, separators, i) /\ t = f
    BY <1>2, <1>4, <1>6 DEF AtCharacter, Divides
  <2>2. Begun(text, separators, i + 1) = Begun(text, separators, i)
    BY <1>4, <1>6, SpaceBegins
  <2> QED BY <1>2, <1>3, <1>5, <2>1, <2>2 DEF SplitUpTo, Outside
<1>7. CASE c # Space /\ c \in separators
  <2>1. Divides(text, separators, i)
    BY <1>4, <1>7 DEF Divides
  <2>2. PICK w : w = [start |-> i, text |-> SubSeq(text, i, i)]
    OBVIOUS
  <2>3. SubSeq(text, i, i) = <<c>>
    <3>1. \A j \in i .. i : text[j] \in Byte
      OBVIOUS
    <3>2. /\ SubSeq(text, i, i) \in Seq(Byte) /\ Len(SubSeq(text, i, i)) = i - i + 1
          /\ \A j \in 1 .. i - i + 1 : SubSeq(text, i, i)[j] = text[i + j - 1]
      BY <3>1, SubSeqProperties
    <3>3. SubSeq(text, i, i)[1] = c /\ Len(SubSeq(text, i, i)) = 1
      BY <1>4, <3>2
    <3>4. <<c>> \in Seq(Byte) /\ Len(<<c>>) = 1 /\ <<c>>[1] = c
      BY <1>4
    <3>5. \A j \in 1 .. 1 : SubSeq(text, i, i)[j] = <<c>>[j]
      BY <3>3, <3>4
    <3> QED BY <3>2, <3>3, <3>4, <3>5, SeqEqual
  <2>4. t = [start |-> 0, words |-> Append(f.words, w)]
    BY <1>2, <1>4, <1>7, <2>2, <2>3 DEF AtCharacter
  <2>5. Begun(text, separators, i + 1) = Begun(text, separators, i) \cup {<<i, i>>}
    BY <1>4, <1>7, SeparatorBegins
  <2>6. \A v \in Begun(text, separators, i) : v[1] < i
    BY DEF Begun
  <2>7. f.words \in Seq(Piece(text)) /\ i <= i
    BY <1>1, <1>3 DEF Splitting
  <2>8. Listing(Append(f.words, w), text, Begun(text, separators, i) \cup {<<i, i>>})
    BY <1>5, <2>1, <2>2, <2>6, <2>7, ListingAppended
  <2>9. t.start = 0 /\ t.words = Append(f.words, w)
    BY <2>4
  <2>10. Listing(t.words, text, Begun(text, separators, i + 1))
    BY <2>5, <2>8, <2>9
  <2>11. SplitUpTo(t, text, separators, i)
    BY <1>3, <2>1, <2>9, <2>10 DEF SplitUpTo, Outside
  <2> QED BY <1>2, <2>11
<1>8. CASE c # Space /\ c \notin separators
  <2>1. ~Divides(text, separators, i)
    BY <1>4, <1>8 DEF Divides
  <2>2. CASE s.start = 0
    <3>1. t = [s EXCEPT !.start = i]
      BY <1>2, <1>4, <1>8, <2>2 DEF AtCharacter
    <3>2. t.start = i /\ t.words = s.words
      BY <1>1, <3>1 DEF Splitting
    <3>3. Outside(text, separators, i - 1) /\ Listing(s.words, text, Begun(text, separators, i))
      BY <1>1, <2>2 DEF SplitUpTo
    <3>4. i # 0 /\ i <= i /\ \A j \in i .. i : j = i
      BY <1>1
    <3> QED BY <1>2, <1>3, <2>1, <3>2, <3>3, <3>4 DEF SplitUpTo, Undivided
  <2>3. CASE s.start # 0
    <3>1. t = s
      BY <1>2, <1>4, <1>8, <2>3 DEF AtCharacter
    <3>2. PICK b : b = s.start
      OBVIOUS
    <3>3. /\ b <= i - 1 /\ b \in Nat /\ Outside(text, separators, b - 1)
          /\ Undivided(text, separators, b, i - 1)
          /\ Listing(s.words, text, Begun(text, separators, b))
      BY <1>1, <2>3, <3>2 DEF SplitUpTo, Splitting
    <3>4. b <= i /\ \A j \in b .. i : j \in b .. i - 1 \/ j = i
      BY <1>1, <3>3
    <3>5. Undivided(text, separators, b, i)
      BY <2>1, <3>3, <3>4 DEF Undivided
    <3> QED BY <1>2, <1>3, <2>3, <3>1, <3>2, <3>3, <3>4, <3>5 DEF SplitUpTo
  <2> QED BY <2>2, <2>3
<1> QED BY <1>2, <1>6, <1>7, <1>8

\* The automaton, round by round.
LEMMA SplitRounds ==
  ASSUME NEW text \in Seq(Byte), NEW separators
  PROVE  \E w : /\ w[0] = [start |-> 0, words |-> <<>>]
                /\ \A i \in 1 .. Len(text) : w[i] = AtCharacter(w[i - 1], text, i, separators)
                /\ \A i \in 0 .. Len(text) : w[i] \in Splitting(text)
                /\ SplitInputWords(text, separators) = Flushed(w[Len(text)], text, Len(text)).words
<1> DEFINE n == Len(text)
           A == Splitting(text)
           a == [start |-> 0, words |-> <<>>]
           Next(x, k) == AtCharacter(x, text, k, separators)
           step == [kx \in Nat \X A |-> IF kx[1] \in 1 .. n THEN Next(kx[2], kx[1]) ELSE kx[2]]
           Steps(f) == [i \in 0 .. n |-> IF i = 0 THEN a ELSE Next(f[i - 1], i)]
<1>1. n \in Nat /\ n \in 0 .. n
  OBVIOUS
<1>2. a \in A
  BY <1>1 DEF Splitting
<1>3. \A k \in 1 .. n : \A x \in A : Next(x, k) \in A
  BY AtCharacterTyped
<1>6. step \in [Nat \X A -> A] /\ \A k \in 1 .. n, x \in A : step[<<k, x>>] = Next(x, k)
  <2> HIDE DEF n, A, a, Next
  <2>1. \A kx \in Nat \X A : kx[2] \in A /\ (kx[1] \in 1 .. n => Next(kx[2], kx[1]) \in A)
    BY <1>3
  <2>2. step \in [Nat \X A -> A]
    BY <2>1
  <2>3. \A k \in 1 .. n, x \in A : <<k, x>> \in Nat \X A /\ <<k, x>>[1] = k /\ <<k, x>>[2] = x
    BY <1>1
  <2>4. \A k \in 1 .. n, x \in A : step[<<k, x>>] = Next(x, k)
    BY <2>3
  <2> QED BY <2>2, <2>4
<1> HIDE DEF n, A, a, Next, step
<1>7. PICK f : Unfolds(f, A, n, a, step)
  BY <1>1, <1>2, <1>6, RecursionExists
<1>8. /\ f[0] = a /\ f \in [0 .. n -> A]
      /\ \A k \in 1 .. n : f[k] = step[<<k, f[k - 1]>>]
  BY <1>7 DEF Unfolds
<1>9. \A k \in 1 .. n : f[k] = Next(f[k - 1], k)
  <2> SUFFICES ASSUME NEW k \in 1 .. n
               PROVE  f[k] = Next(f[k - 1], k)
    OBVIOUS
  <2>1. k - 1 \in 0 .. n
    BY <1>1
  <2> QED BY <1>6, <1>8, <2>1
<1>10. f = Steps(f)
  <2>1. \A i \in 0 .. n : Steps(f)[i] = f[i]
    <3> SUFFICES ASSUME NEW i \in 0 .. n
                 PROVE  Steps(f)[i] = f[i]
      OBVIOUS
    <3>1. i # 0 => i \in 1 .. n
      BY <1>1
    <3> QED BY <1>8, <1>9, <3>1
  <2>2. Steps(f) = [i \in 0 .. n |-> Steps(f)[i]] /\ f = [i \in 0 .. n |-> f[i]]
    BY <1>8
  <2> HIDE DEF Steps
  <2> QED BY <2>1, <2>2
<1>11. PICK w : w = CHOOSE split : split = Steps(split)
  OBVIOUS
<1>12. SplitInputWords(text, separators) = Flushed(w[n], text, n).words
  BY <1>11 DEF SplitInputWords, n, a, Next
<1>13. w = Steps(w)
  <2> HIDE DEF Steps
  <2> QED BY <1>10, <1>11
<1>14. w[0] = a /\ \A i \in 1 .. n : w[i] = Next(w[i - 1], i)
  <2>1. 0 \in 0 .. n /\ \A i \in 1 .. n : i \in 0 .. n /\ i # 0
    BY <1>1
  <2> QED BY <1>13, <2>1
<1> DEFINE S == {k \in Nat : k <= n => w[k] \in A}
<1>15. 0 \in S
  BY <1>2, <1>14
<1>16. ASSUME NEW k \in Nat, k \in S
       PROVE  k + 1 \in S
  <2> SUFFICES ASSUME k + 1 <= n
               PROVE  w[k + 1] \in A
    OBVIOUS
  <2>1. k + 1 \in 1 .. n /\ (k + 1) - 1 = k /\ k <= n
    BY <1>1
  <2>2. w[k] \in A /\ w[k + 1] = Next(w[k], k + 1)
    BY <1>14, <1>16, <2>1
  <2> QED BY <1>3, <2>1, <2>2
<1> HIDE DEF S
<1>17. Nat \subseteq S
  BY <1>15, <1>16, SetInduction
<1>18. \A i \in 0 .. n : w[i] \in A
  BY <1>1, <1>17 DEF S
<1> QED BY <1>12, <1>14, <1>18 DEF n, A, a, Next

\* The automaton finds the words of the text, from the left to the right.
LEMMA SplitExact ==
  ASSUME NEW text \in Seq(Byte), NEW separators
  PROVE  /\ SplitInputWords(text, separators) \in Seq(Piece(text))
         /\ Listing(SplitInputWords(text, separators), text, WordsOf(text, separators))
<1> DEFINE n == Len(text)
<1>1. PICK w : /\ w[0] = [start |-> 0, words |-> <<>>]
               /\ \A i \in 1 .. n : w[i] = AtCharacter(w[i - 1], text, i, separators)
               /\ \A i \in 0 .. n : w[i] \in Splitting(text)
               /\ SplitInputWords(text, separators) = Flushed(w[n], text, n).words
  BY SplitRounds
<1>2. n \in Nat /\ n \in 0 .. n /\ 0 \in 0 .. n
  OBVIOUS
<1> HIDE DEF n
<1> DEFINE S == {k \in Nat : k <= n => SplitUpTo(w[k], text, separators, k)}
<1>3. 0 \in S
  <2>1. Begun(text, separators, 0 + 1) = {}
    <3>1. \A v \in WordsOf(text, separators) : ~(v[1] < 0 + 1)
      BY WordPairs
    <3> QED BY <3>1 DEF Begun
  <2>2. Outside(text, separators, 0)
    BY <1>2 DEF Outside
  <2>3. w[0].start = 0 /\ w[0].words = <<>> /\ w[0] \in Splitting(text)
    BY <1>1, <1>2
  <2>4. Listing(<<>>, text, {})
    BY DEF Listing
  <2> QED BY <2>1, <2>2, <2>3, <2>4 DEF SplitUpTo
<1>4. ASSUME NEW k \in Nat, k \in S
      PROVE  k + 1 \in S
  <2> SUFFICES ASSUME k + 1 <= n
               PROVE  SplitUpTo(w[k + 1], text, separators, k + 1)
    OBVIOUS
  <2>1. k + 1 \in 1 .. n /\ (k + 1) - 1 = k /\ k <= n
    BY <1>2
  <2>2. PICK i : i = k + 1
    OBVIOUS
  <2>3. i \in 1 .. Len(text) /\ i - 1 = k /\ w[i] = AtCharacter(w[k], text, i, separators)
    BY <1>1, <2>1, <2>2 DEF n
  <2>4. SplitUpTo(w[k], text, separators, i - 1)
    BY <1>4, <2>1, <2>3
  <2> QED BY <2>2, <2>3, <2>4, AtCharacterLists
<1> HIDE DEF S
<1>5. Nat \subseteq S
  BY <1>3, <1>4, SetInduction
<1>6. SplitUpTo(w[n], text, separators, n)
  BY <1>2, <1>5 DEF S
<1>7. Outside(text, separators, n + 1)
  BY <1>2 DEF Outside, n
<1>8. Listing(Flushed(w[n], text, n).words, text, Begun(text, separators, n + 1))
  BY <1>2, <1>6, <1>7, FlushedLists DEF n
<1>9. Begun(text, separators, n + 1) = WordsOf(text, separators)
  <2>1. \A v \in WordsOf(text, separators) : v[1] < n + 1
    <3> SUFFICES ASSUME NEW v \in WordsOf(text, separators) PROVE v[1] < n + 1
      OBVIOUS
    <3>1. v[1] \in 1 .. n
      BY WordPairs DEF n
    <3> QED BY <1>2, <3>1
  <2> QED BY <2>1 DEF Begun
<1>10. Flushed(w[n], text, n) \in Splitting(text)
  BY <1>1, <1>2, FlushedTyped DEF n
<1> QED BY <1>1, <1>8, <1>9, <1>10 DEF Splitting

\* As many words as places, and so many before each as its number says.
Counts(words, T) ==
    /\ Cardinality(T) = Len(words)
    /\ \A k \in 1 .. Len(words) : Cardinality({v \in T : v[1] < words[k].start}) = k - 1

LEMMA ListingCounts ==
  ASSUME NEW text \in Seq(Byte), NEW words \in Seq(Piece(text)), NEW T, Listing(words, text, T)
  PROVE  Counts(words, T)
<1> DEFINE n == Len(words)
           P(m) == {Place(words[j]) : j \in 1 .. m}
           S == {m \in Nat : m <= n => IsFiniteSet(P(m)) /\ Cardinality(P(m)) = m}
<1>1. n \in Nat
  OBVIOUS
<1>2. \A k \in 1 .. n : /\ Place(words[k]) \in T /\ Place(words[k])[1] = words[k].start
                        /\ words[k].start \in Nat
  <2> SUFFICES ASSUME NEW k \in 1 .. n
               PROVE  /\ Place(words[k]) \in T /\ Place(words[k])[1] = words[k].start
                      /\ words[k].start \in Nat
    OBVIOUS
  <2>1. words[k] \in Piece(text)
    BY ElementOfSeq
  <2>2. words[k].start \in 1 .. Len(text)
    BY <2>1 DEF Piece
  <2> QED BY <2>2 DEF Listing, Place
<1>3. \A j, k \in 1 .. n : j < k => words[j].start < words[k].start
  BY DEF Listing
<1>4. \A v \in T : \E k \in 1 .. n : v = Place(words[k])
  BY DEF Listing
<1> HIDE DEF n
<1>5. 0 \in S
  <2>1. P(0) = {}
    OBVIOUS
  <2> QED BY <2>1, FS_EmptySet
<1>6. ASSUME NEW m \in Nat, m \in S
      PROVE  m + 1 \in S
  <2> SUFFICES ASSUME m + 1 <= n
               PROVE  IsFiniteSet(P(m + 1)) /\ Cardinality(P(m + 1)) = m + 1
    OBVIOUS
  <2>1. m + 1 \in 1 .. n /\ m <= n /\ \A j \in 1 .. m : j \in 1 .. n /\ j < m + 1
    BY <1>1
  <2>2. PICK x : x = Place(words[m + 1])
    OBVIOUS
  <2>3. P(m + 1) = P(m) \cup {x}
    <3>1. \A j : j \in 1 .. m + 1 <=> j \in 1 .. m \/ j = m + 1
      OBVIOUS
    <3> QED BY <2>2, <3>1
  <2>4. x \notin P(m)
    <3> SUFFICES ASSUME NEW j \in 1 .. m, x = Place(words[j]) PROVE FALSE
      OBVIOUS
    <3>1. words[j].start < words[m + 1].start /\ words[j].start = words[m + 1].start
      BY <1>2, <1>3, <2>1, <2>2
    <3> QED BY <1>2, <2>1, <3>1
  <2>5. IsFiniteSet(P(m)) /\ Cardinality(P(m)) = m
    BY <1>6, <2>1
  <2> HIDE DEF P
  <2>6. PICK Q : Q = P(m)
    OBVIOUS
  <2>7. IsFiniteSet(Q) /\ Cardinality(Q) = m /\ x \notin Q
    BY <2>4, <2>5, <2>6
  <2>8. IsFiniteSet(Q \cup {x}) /\ Cardinality(Q \cup {x}) = m + 1
    BY <2>7, FS_AddElement
  <2> QED BY <2>3, <2>6, <2>8
<1> HIDE DEF S
<1>7. Nat \subseteq S
  BY <1>5, <1>6, SetInduction
<1>8. \A m \in 0 .. n : Cardinality(P(m)) = m
  <2> HIDE DEF P
  <2> QED BY <1>1, <1>7 DEF S
<1>9. T = P(n)
  <2>1. P(n) \subseteq T
    BY <1>2
  <2>2. T \subseteq P(n)
    BY <1>4
  <2> QED BY <2>1, <2>2
<1>10. ASSUME NEW k \in 1 .. n
       PROVE  {v \in T : v[1] < words[k].start} = P(k - 1)
  <2>1. k - 1 \in 0 .. n /\ k \in Nat /\ \A j \in 1 .. k - 1 : j \in 1 .. n /\ j < k
    BY <1>1
  <2>2. ASSUME NEW j \in 1 .. k - 1
        PROVE  Place(words[j]) \in {v \in T : v[1] < words[k].start}
    BY <1>2, <1>3, <2>1
  <2>3. ASSUME NEW v \in T, v[1] < words[k].start
        PROVE  v \in P(k - 1)
    <3>1. PICK j \in 1 .. n : v = Place(words[j])
      BY <1>4
    <3>2. words[j].start < words[k].start
      BY <1>2, <2>3, <3>1
    <3>3. ~(k < j) /\ j # k
      <4>1. words[j].start \in Nat /\ words[k].start \in Nat
        BY <1>2
      <4> QED BY <1>3, <3>2, <4>1
    <3>4. j \in 1 .. k - 1
      BY <2>1, <3>3
    <3> QED BY <3>1, <3>4
  <2> QED BY <2>2, <2>3
<1>11. \A k \in 1 .. n : Cardinality({v \in T : v[1] < words[k].start}) = k - 1
  <2> SUFFICES ASSUME NEW k \in 1 .. n
               PROVE  Cardinality({v \in T : v[1] < words[k].start}) = k - 1
    OBVIOUS
  <2>1. k - 1 \in 0 .. n
    BY <1>1
  <2> HIDE DEF P
  <2> QED BY <1>8, <1>10, <2>1
<1>12. Cardinality(T) = n
  <2>1. n \in 0 .. n
    BY <1>1
  <2> HIDE DEF P
  <2> QED BY <1>8, <1>9, <2>1
<1> QED BY <1>11, <1>12 DEF n, Counts

LEMMA AsManyWords ==
  ASSUME NEW text \in Seq(Byte), NEW words \in Seq(Piece(text)), NEW T, Listing(words, text, T)
  PROVE  Cardinality(T) = Len(words) /\ Len(words) \in Nat
<1>1. Cardinality(T) = Len(words)
  BY ListingCounts DEF Counts
<1>2. Len(words) \in Nat
  OBVIOUS
<1> QED BY <1>1, <1>2

-----------------------------------------------------------------------------
(* The parse buffer.                                                       *)

\* The high and the low byte of a word.
LEMMA WordBytes ==
  ASSUME NEW v \in 0 .. WordLimit - 1
  PROVE  <<v \div ByteLimit, v % ByteLimit>> \in Seq(Byte)
<1>1. PICK q, r : q = v \div ByteLimit /\ r = v % ByteLimit
  OBVIOUS
<1>2. v \in Int /\ v >= 0 /\ v < ByteLimit * ByteLimit /\ ByteLimit \in Nat \ {0}
  BY Bytes
<1>3. v = ByteLimit * q + r /\ r \in 0 .. ByteLimit - 1 /\ q \in Nat
  BY <1>1, <1>2, DivisionParts
<1>4. q < ByteLimit
  <2>1. SUFFICES ASSUME ~(q < ByteLimit) PROVE FALSE
    OBVIOUS
  <2>2. ByteLimit * ByteLimit <= ByteLimit * q
    <3>1. CASE q = ByteLimit
      BY <1>2, <3>1
    <3>2. CASE q # ByteLimit
      <4>1. ByteLimit < q
        BY <1>2, <1>3, <2>1, <3>2
      <4>2. ByteLimit * ByteLimit + ByteLimit <= ByteLimit * q
        BY <1>2, <1>3, <4>1, MultiplesApart
      <4>3. PICK x, y : x = ByteLimit * ByteLimit /\ y = ByteLimit * q
        OBVIOUS
      <4>4. x \in Int /\ y \in Int
        BY <1>2, <1>3, <4>3
      <4> QED BY <1>2, <4>2, <4>3, <4>4
    <3> QED BY <3>1, <3>2
  <2>3. PICK x, y : x = ByteLimit * ByteLimit /\ y = ByteLimit * q
    OBVIOUS
  <2>4. x \in Int /\ y \in Int /\ v = y + r /\ v < x /\ x <= y
    BY <1>2, <1>3, <2>2, <2>3
  <2> QED BY <1>3, <2>4
<1>5. q \in Byte /\ r \in Byte
  BY <1>2, <1>3, <1>4 DEF Byte
<1> QED BY <1>1, <1>5

\* The bytes of the first k blocks of the parse buffer at p.
BlockBytes(p, k) == p + ParseHeader .. p + ParseHeader + k * ParseEntry - 1

LEMMA BlockWritten ==
  ASSUME NEW n \in 0 .. ByteLimit - 1, NEW words \in Seq([start : 1 .. n, text : Seq(Byte)]),
         NEW k \in 1 .. Len(words), Len(words[k].text) <= n,
         NEW table, TableOK(table), NEW p \in Nat, NEW s \in Storage
  PROVE  After(s, WriteBlock(s, p, table, words, k), BlockBytes(p, k) \ BlockBytes(p, k - 1))
<1>1. PICK found : found = LookupDictionaryWord(View(s.mem), table, EncodeDictionaryWord(words[k].text))
  OBVIOUS
<1>2. PICK block : block = p + ParseHeader + (k - 1) * ParseEntry
  OBVIOUS
<1>3. PICK area : area = block .. block + 3
  OBVIOUS
<1>4. k \in Nat /\ p \in Nat /\ block \in Int
  BY <1>2 DEF ParseHeader, ParseEntry
<1>5. BlockBytes(p, k) \ BlockBytes(p, k - 1) = area
  <2>1. BlockBytes(p, k) = p + 2 .. block + 3
    BY <1>2, <1>4 DEF BlockBytes, ParseHeader, ParseEntry
  <2>2. BlockBytes(p, k - 1) = p + 2 .. block - 1
    BY <1>2, <1>4 DEF BlockBytes, ParseHeader, ParseEntry
  <2>3. p + 2 <= block
    BY <1>2, <1>4 DEF ParseHeader, ParseEntry
  <2> QED BY <1>3, <1>4, <2>1, <2>2, <2>3
<1>6. CASE ~(s.ok /\ ~found.fault)
  <2>1. PICK t : t = WriteBlock(s, p, table, words, k)
    OBVIOUS
  <2>2. t = [s EXCEPT !.ok = FALSE]
    BY <1>1, <1>6, <2>1 DEF WriteBlock
  <2>3. t = [mem |-> s.mem, ok |-> FALSE]
    BY <2>2 DEF Storage
  <2> QED BY <2>1, <2>3 DEF After, Storage
<1>7. CASE s.ok /\ ~found.fault
  <2>1. PICK e, l, b : /\ e = <<found.entry \div ByteLimit, found.entry % ByteLimit>>
                       /\ l = <<Len(words[k].text)>> /\ b = <<words[k].start>>
    OBVIOUS
  <2>2. found.entry \in 0 .. WordLimit - 1
    <3>1. PICK place : place = LookupPlace(View(s.mem), table, EncodeDictionaryWord(words[k].text))
      OBVIOUS
    <3>2. place \in -1 .. table.count - 1
      BY <3>1, PlaceFound DEF TableOK
    <3>3. PICK address : address = IF place = -1 THEN 0 ELSE EntryAddress(table, place)
      OBVIOUS
    <3>4. address \in Nat
      <4>1. CASE place = -1
        BY <3>3, <4>1
      <4>2. CASE place # -1
        <5>1. place \in Nat
          BY <3>2, <4>2 DEF TableOK
        <5>2. PICK size, far : size = table.entryLength /\ far = place * table.entryLength
          OBVIOUS
        <5>3. size \in Nat
          BY <5>2 DEF TableOK
        <5>4. far \in Nat
          BY <5>1, <5>2, <5>3
        <5>5. address = table.entries + far
          BY <3>3, <4>2, <5>2 DEF EntryAddress
        <5> QED BY <5>4, <5>5 DEF TableOK
      <4> QED BY <4>1, <4>2
    <3>5. found = [fault |-> address >= WordLimit, entry |-> address]
      BY <1>1, <3>1, <3>3 DEF LookupDictionaryWord
    <3>6. found.entry = address /\ found.fault = (address >= WordLimit)
      BY <3>5
    <3>7. ~(address >= WordLimit)
      BY <1>7, <3>6
    <3> QED BY <3>4, <3>6, <3>7, Bytes
  <2>3. e \in Seq(Byte) /\ Len(e) = 2
    <3>1. e \in Seq(Byte)
      BY <2>1, <2>2, WordBytes
    <3> QED BY <2>1, <3>1
  <2>4. words[k] \in [start : 1 .. n, text : Seq(Byte)]
    BY ElementOfSeq
  <2>5. Len(words[k].text) \in Byte /\ words[k].start \in Byte
    <3>1. words[k].text \in Seq(Byte) /\ words[k].start \in 1 .. n
      BY <2>4
    <3>2. Len(words[k].text) \in Nat
      BY <3>1
    <3> QED BY <3>1, <3>2, Bytes, SMTT(20) DEF Byte
  <2>6. l \in Seq(Byte) /\ Len(l) = 1 /\ b \in Seq(Byte) /\ Len(b) = 1
    BY <2>1, <2>5
  <2>7. PICK s1, s2, s3 : s1 = Store(s, block, e) /\ s2 = Store(s1, block + 2, l) /\ s3 = Store(s2, block + 3, b)
    OBVIOUS
  <2>8. After(s, s1, area)
    <3>1. After(s, s1, block .. block + 2 - 1)
      BY <1>4, <2>3, <2>7, StoreTyped
    <3>2. block .. block + 2 - 1 \subseteq area
      BY <1>3, <1>4
    <3> QED BY <3>1, <3>2, AfterLarger
  <2>9. After(s1, s2, area)
    <3>1. s1 \in Storage /\ block + 2 \in Int
      BY <1>4, <2>8 DEF After
    <3>2. PICK address : address = block + 2
      OBVIOUS
    <3>3. After(s1, Store(s1, address, l), address .. address + 1 - 1)
      BY <2>6, <3>1, <3>2, StoreTyped
    <3>4. address .. address + 1 - 1 \subseteq area
      BY <1>3, <1>4, <3>2
    <3> QED BY <2>7, <3>2, <3>3, <3>4, AfterLarger
  <2>10. After(s2, s3, area)
    <3>1. s2 \in Storage /\ block + 3 \in Int
      BY <1>4, <2>9 DEF After
    <3>2. PICK address : address = block + 3
      OBVIOUS
    <3>3. After(s2, Store(s2, address, b), address .. address + 1 - 1)
      BY <2>6, <3>1, <3>2, StoreTyped
    <3>4. address .. address + 1 - 1 \subseteq area
      BY <1>3, <1>4, <3>2
    <3> QED BY <2>7, <3>2, <3>3, <3>4, AfterLarger
  <2>11. WriteBlock(s, p, table, words, k) = s3
    BY <1>1, <1>2, <1>7, <2>1, <2>7 DEF WriteBlock
  <2>12. After(s, s3, area)
    BY <2>8, <2>9, <2>10 DEF After
  <2> QED BY <1>5, <2>11, <2>12
<1> QED BY <1>6, <1>7

\* The block of a word in the parse buffer at p.
Block(p, k) == p + ParseHeader + (k - 1) * ParseEntry

BlockFits(block) == block + ParseEntry <= story.staticBase

BlockHolds(m, block, entry, length, start) ==
    /\ WordAt(m, block) = entry
    /\ m[block + 2] = length
    /\ m[block + 3] = start

\* The three stores of a block.
BlockStores(s, block, v, x, y) ==
    Store(Store(Store(s, block, <<v \div ByteLimit, v % ByteLimit>>), block + 2, <<x>>), block + 3, <<y>>)

LEMMA BlockStored ==
  ASSUME StoryOK, NEW s \in Storage, NEW block \in Nat,
         NEW v \in 0 .. WordLimit - 1, NEW x \in Byte, NEW y \in Byte,
         NEW t, t = BlockStores(s, block, v, x, y)
  PROVE  /\ t.ok <=> s.ok /\ BlockFits(block)
         /\ t.ok => BlockHolds(t.mem, block, v, x, y)
<1>1. PICK q, r : q = v \div ByteLimit /\ r = v % ByteLimit
  OBVIOUS
<1>2. v \in Int /\ v >= 0 /\ ByteLimit \in Nat \ {0}
  BY Bytes
<1>3. v = ByteLimit * q + r /\ q \in Int /\ r \in Int
  BY <1>1, <1>2, DivisionParts
<1>4. <<q, r>> \in Seq(Byte)
  BY <1>1, WordBytes
<1>5. q * ByteLimit = ByteLimit * q
  BY <1>2, <1>3
<1>6. PICK e, l, b : e = <<q, r>> /\ l = <<x>> /\ b = <<y>>
  OBVIOUS
<1>7. PICK c, d, base : c = block + 2 /\ d = block + 3 /\ base = story.staticBase
  OBVIOUS
<1>8. PICK s1 : s1 = Store(s, block, e)
  OBVIOUS
<1>9. PICK s2 : s2 = Store(s1, c, l)
  OBVIOUS
<1>10. t = Store(s2, d, b)
  BY <1>1, <1>6, <1>7, <1>8, <1>9 DEF BlockStores
<1>11. /\ e \in Seq(Byte) /\ 2 = Len(e) /\ l \in Seq(Byte) /\ 1 = Len(l)
       /\ b \in Seq(Byte) /\ 1 = Len(b)
       /\ e[1] = q /\ e[2] = r /\ l[1] = x /\ b[1] = y
  BY <1>4, <1>6
<1>12. base \in Nat /\ c \in Nat /\ d \in Nat
  BY <1>7 DEF StoryOK
<1>13. StoredAs(s, s1, block, e) /\ s1 \in Storage
  BY <1>8, <1>11, StoreAt
<1>14. StoredAs(s1, s2, c, l) /\ s2 \in Storage
  BY <1>9, <1>11, <1>12, <1>13, StoreAt
<1>15. StoredAs(s2, t, d, b)
  BY <1>10, <1>11, <1>12, <1>14, StoreAt
<1>16. t.ok <=> s.ok /\ block + 4 <= base
  <2>1. Writable(block, 2) /\ Writable(c, 1) /\ Writable(d, 1) <=> block + 4 <= base
    BY <1>7, <1>12 DEF Writable, Lies
  <2>2. s1.ok <=> s.ok /\ Writable(block, 2)
    BY <1>11, <1>13 DEF StoredAs
  <2>3. s2.ok <=> s1.ok /\ Writable(c, 1)
    BY <1>11, <1>14 DEF StoredAs
  <2>4. t.ok <=> s2.ok /\ Writable(d, 1)
    BY <1>11, <1>15 DEF StoredAs
  <2> QED BY <2>1, <2>2, <2>3, <2>4
<1>17. ASSUME t.ok
       PROVE  WordAt(t.mem, block) = v /\ t.mem[c] = x /\ t.mem[d] = y
  <2>1. s1.ok /\ s2.ok /\ block + 4 <= base
    BY <1>14, <1>15, <1>16, <1>17 DEF StoredAs
  <2>2. /\ 1 \in 1 .. 2 /\ 2 \in 1 .. 2 /\ 1 \in 1 .. 1
        /\ block + 1 - 1 = block /\ block + 2 - 1 = block + 1 /\ c + 1 - 1 = c /\ d + 1 - 1 = d
    BY <1>12
  <2>3. s1.mem[block] = q /\ s1.mem[block + 1] = r
    <3>1. s1.mem[block + 1 - 1] = e[1] /\ s1.mem[block + 2 - 1] = e[2]
      BY <1>11, <1>13, <2>1, <2>2 DEF StoredAs
    <3> QED BY <1>11, <2>2, <3>1
  <2>4. s2.mem[c] = x /\ t.mem[d] = y
    <3>1. s2.mem[c + 1 - 1] = l[1] /\ t.mem[d + 1 - 1] = b[1]
      BY <1>11, <1>14, <1>15, <1>17, <2>1, <2>2 DEF StoredAs
    <3> QED BY <1>11, <2>2, <3>1
  <2>5. /\ {block, block + 1, c} \subseteq 0 .. base - 1
        /\ block < c /\ block + 1 < c /\ block < d /\ block + 1 < d /\ c < d
    BY <1>7, <1>12, <2>1
  <2>6. s2.mem[block] = q /\ s2.mem[block + 1] = r
    <3>1. block \notin c .. c + 1 - 1 /\ block + 1 \notin c .. c + 1 - 1
      BY <1>7, <1>12
    <3> QED BY <1>7, <1>11, <1>14, <2>3, <2>5, <3>1 DEF StoredAs
  <2>7. t.mem[block] = q /\ t.mem[block + 1] = r /\ t.mem[c] = x
    <3>1. block \notin d .. d + 1 - 1 /\ block + 1 \notin d .. d + 1 - 1 /\ c \notin d .. d + 1 - 1
      BY <1>7, <1>12
    <3> QED BY <1>7, <1>11, <1>15, <2>4, <2>5, <2>6, <3>1 DEF StoredAs
  <2> QED BY <1>3, <1>5, <2>4, <2>7 DEF WordAt
<1> QED BY <1>7, <1>16, <1>17 DEF BlockFits, BlockHolds, ParseEntry

LEMMA BlockExact ==
  ASSUME StoryOK, NEW n \in 0 .. ByteLimit - 1, NEW words \in Seq([start : 1 .. n, text : Seq(Byte)]),
         NEW k \in 1 .. Len(words), Len(words[k].text) <= n,
         NEW table, TableOK(table), NEW p \in Nat, NEW s \in Storage,
         NEW found, found = LookupDictionaryWord(View(s.mem), table, EncodeDictionaryWord(words[k].text)),
         NEW t, t = WriteBlock(s, p, table, words, k)
  PROVE  /\ t.ok <=> s.ok /\ ~found.fault /\ BlockFits(Block(p, k))
         /\ t.ok => BlockHolds(t.mem, Block(p, k), found.entry, Len(words[k].text), words[k].start)
<1>1. PICK block : block = Block(p, k)
  OBVIOUS
<1>2. block \in Nat
  <2>1. k \in Nat /\ k >= 1
    OBVIOUS
  <2> QED BY <1>1, <2>1 DEF Block, ParseHeader, ParseEntry
<1>3. CASE ~(s.ok /\ ~found.fault)
  <2>1. t = [s EXCEPT !.ok = FALSE]
    BY <1>3 DEF WriteBlock
  <2>2. ~t.ok
    BY <2>1 DEF Storage
  <2> QED BY <1>3, <2>2
<1>4. CASE s.ok /\ ~found.fault
  <2>1. PICK v, x, y : v = found.entry /\ x = Len(words[k].text) /\ y = words[k].start
    OBVIOUS
  <2>2. v \in 0 .. WordLimit - 1
    BY <1>4, <2>1, FoundAddress
  <2>3. words[k] \in [start : 1 .. n, text : Seq(Byte)]
    BY ElementOfSeq
  <2>4. x \in Byte /\ y \in Byte
    <3>1. words[k].text \in Seq(Byte) /\ words[k].start \in 1 .. n
      BY <2>3
    <3>2. x \in Nat /\ x <= n /\ y \in 1 .. n
      BY <2>1, <3>1
    <3> QED BY <3>2, Bytes DEF Byte
  <2>5. t = Store(Store(Store(s, block, <<v \div ByteLimit, v % ByteLimit>>), block + 2, <<x>>), block + 3, <<y>>)
    <3>1. block = p + ParseHeader + (k - 1) * ParseEntry
      BY <1>1 DEF Block
    <3> QED BY <1>4, <2>1, <3>1 DEF WriteBlock
  <2>6. t = BlockStores(s, block, v, x, y)
    BY <2>5 DEF BlockStores
  <2>7. /\ t.ok <=> s.ok /\ BlockFits(block)
        /\ t.ok => BlockHolds(t.mem, block, v, x, y)
    BY <1>2, <2>2, <2>4, <2>6, BlockStored
  <2> QED BY <1>1, <1>4, <2>1, <2>7
<1> QED BY <1>3, <1>4

LEMMA BlockKept ==
  ASSUME StoryOK, NEW s, NEW t, NEW area, After(s, t, area),
         NEW block \in Nat, BlockFits(block), (block .. block + 3) \cap area = {},
         NEW entry, NEW length, NEW start, BlockHolds(s.mem, block, entry, length, start)
  PROVE  BlockHolds(t.mem, block, entry, length, start)
<1>1. story.staticBase \in Nat /\ block + 4 <= story.staticBase
  BY DEF StoryOK, BlockFits, ParseEntry
<1>2. {block, block + 1, block + 2, block + 3} \subseteq (0 .. story.staticBase - 1) \cap (block .. block + 3)
  BY <1>1
<1>3. /\ t.mem[block] = s.mem[block] /\ t.mem[block + 1] = s.mem[block + 1]
      /\ t.mem[block + 2] = s.mem[block + 2] /\ t.mem[block + 3] = s.mem[block + 3]
  BY <1>2 DEF After
<1> QED BY <1>3 DEF BlockHolds, WordAt

\* Words that fit in a text of n characters.
Short(words, n) ==
    /\ words \in Seq([start : 1 .. n, text : Seq(Byte)])
    /\ \A k \in 1 .. Len(words) : Len(words[k].text) <= n

\* w is memory after each block.
WritesBlocks(w, s, p, table, words, count) ==
    /\ w[0] = s
    /\ \A k \in 1 .. count : w[k] = WriteBlock(w[k - 1], p, table, words, k)
    /\ \A k \in 0 .. count : After(s, w[k], BlockBytes(p, k))
    /\ Blocks(s, p, table, words, count) = w[count]

LEMMA BlocksRounds ==
  ASSUME NEW n \in 0 .. ByteLimit - 1, NEW words, Short(words, n), NEW count \in 0 .. Len(words),
         NEW table, TableOK(table), NEW p \in Nat, NEW s \in Storage
  PROVE  \E w : WritesBlocks(w, s, p, table, words, count)
<1> DEFINE A == Storage
           Next(x, k) == WriteBlock(x, p, table, words, k)
           New(k) == BlockBytes(p, k) \ BlockBytes(p, k - 1)
           step == [kx \in Nat \X A |-> IF kx[1] \in 1 .. count THEN Next(kx[2], kx[1]) ELSE kx[2]]
           Steps(f) == [i \in 0 .. count |-> IF i = 0 THEN s ELSE Next(f[i - 1], i)]
<1>1. count \in Nat /\ \A k \in 1 .. count : k \in 1 .. Len(words)
  <2>1. Len(words) \in Nat
    BY DEF Short
  <2> QED BY <2>1
<1>2. \A k \in 1 .. count : \A x \in A : After(x, Next(x, k), New(k))
  BY <1>1, BlockWritten DEF Short
<1>3. \A k \in 1 .. count : \A x \in A : Next(x, k) \in A
  <2> HIDE DEF Next, New
  <2> QED BY <1>2 DEF After
<1> HIDE DEF Next, New
<1>4. step \in [Nat \X A -> A] /\ \A k \in 1 .. count, x \in A : step[<<k, x>>] = Next(x, k)
  <2> HIDE DEF A
  <2>1. \A kx \in Nat \X A : kx[2] \in A /\ (kx[1] \in 1 .. count => Next(kx[2], kx[1]) \in A)
    BY <1>3
  <2>2. step \in [Nat \X A -> A]
    BY <2>1
  <2>3. \A k \in 1 .. count, x \in A : <<k, x>> \in Nat \X A /\ <<k, x>>[1] = k /\ <<k, x>>[2] = x
    BY <1>1
  <2>4. \A k \in 1 .. count, x \in A : step[<<k, x>>] = Next(x, k)
    BY <2>3
  <2> QED BY <2>2, <2>4
<1> HIDE DEF A, step
<1>5. PICK f : Unfolds(f, A, count, s, step)
  <2>1. s \in A
    BY DEF A
  <2> QED BY <1>1, <1>4, <2>1, RecursionExists
<1>6. /\ f[0] = s /\ f \in [0 .. count -> A]
      /\ \A k \in 1 .. count : f[k] = step[<<k, f[k - 1]>>]
  BY <1>5 DEF Unfolds
<1>7. \A k \in 1 .. count : f[k] = Next(f[k - 1], k)
  <2> SUFFICES ASSUME NEW k \in 1 .. count
               PROVE  f[k] = Next(f[k - 1], k)
    OBVIOUS
  <2>1. k - 1 \in 0 .. count
    BY <1>1
  <2> QED BY <1>4, <1>6, <2>1
<1>8. f = Steps(f)
  <2>1. \A i \in 0 .. count : Steps(f)[i] = f[i]
    <3> SUFFICES ASSUME NEW i \in 0 .. count
                 PROVE  Steps(f)[i] = f[i]
      OBVIOUS
    <3>1. i # 0 => i \in 1 .. count
      BY <1>1
    <3> QED BY <1>6, <1>7, <3>1
  <2>2. Steps(f) = [i \in 0 .. count |-> Steps(f)[i]] /\ f = [i \in 0 .. count |-> f[i]]
    BY <1>6
  <2> HIDE DEF Steps
  <2> QED BY <2>1, <2>2
<1>9. PICK w : w = CHOOSE written : written = Steps(written)
  OBVIOUS
<1>10. Blocks(s, p, table, words, count) = w[count]
  BY <1>9 DEF Blocks, Next
<1>11. w = Steps(w)
  <2> HIDE DEF Steps
  <2> QED BY <1>8, <1>9
<1>12. w[0] = s /\ \A i \in 1 .. count : w[i] = Next(w[i - 1], i)
  <2>1. 0 \in 0 .. count /\ \A i \in 1 .. count : i \in 0 .. count /\ i # 0
    BY <1>1
  <2> QED BY <1>11, <2>1
<1> DEFINE S == {k \in Nat : k <= count => After(s, w[k], BlockBytes(p, k))}
<1>13. 0 \in S
  BY <1>12 DEF After
<1>14. ASSUME NEW k \in Nat, k \in S
       PROVE  k + 1 \in S
  <2> SUFFICES ASSUME k + 1 <= count
               PROVE  After(s, w[k + 1], BlockBytes(p, k + 1))
    OBVIOUS
  <2>1. k + 1 \in 1 .. count /\ (k + 1) - 1 = k /\ k <= count
    BY <1>1
  <2>2. After(s, w[k], BlockBytes(p, k)) /\ w[k + 1] = Next(w[k], k + 1)
    BY <1>12, <1>14, <2>1
  <2>3. w[k] \in A
    BY <2>2 DEF After, A
  <2>4. After(w[k], w[k + 1], BlockBytes(p, k + 1) \ BlockBytes(p, k))
    BY <1>2, <2>1, <2>2, <2>3 DEF New
  <2>5. BlockBytes(p, k) \subseteq BlockBytes(p, k + 1)
    BY DEF BlockBytes, ParseHeader, ParseEntry
  <2>6. After(s, w[k + 1], BlockBytes(p, k) \cup (BlockBytes(p, k + 1) \ BlockBytes(p, k)))
    BY <2>2, <2>4, AfterAfter
  <2> QED BY <2>5, <2>6, AfterLarger
<1> HIDE DEF S
<1>15. Nat \subseteq S
  BY <1>13, <1>14, SetInduction
<1>16. \A k \in 0 .. count : After(s, w[k], BlockBytes(p, k))
  BY <1>1, <1>15 DEF S
<1> QED BY <1>10, <1>12, <1>16 DEF Next, WritesBlocks

LEMMA BlocksWritten ==
  ASSUME NEW n \in 0 .. ByteLimit - 1, NEW words, Short(words, n), NEW count \in 0 .. Len(words),
         NEW table, TableOK(table), NEW p \in Nat, NEW s \in Storage
  PROVE  After(s, Blocks(s, p, table, words, count), BlockBytes(p, count))
<1>0. PICK w : WritesBlocks(w, s, p, table, words, count)
  BY BlocksRounds
<1>1. /\ w[0] = s
      /\ \A k \in 1 .. count : w[k] = WriteBlock(w[k - 1], p, table, words, k)
      /\ \A k \in 0 .. count : After(s, w[k], BlockBytes(p, k))
      /\ Blocks(s, p, table, words, count) = w[count]
  BY <1>0 DEF WritesBlocks
<1>2. count \in 0 .. count
  BY DEF Short
<1> QED BY <1>1, <1>2

\* A look-up finds the same whatever the storing of blocks has made of memory.
Steady(table, words, found) ==
    \A s \in Storage : \A k \in 1 .. Len(words) :
       LookupDictionaryWord(View(s.mem), table, EncodeDictionaryWord(words[k].text)) = found[k]

\* The blocks of the words that the parse buffer at p has room for.
Fit(p, count, found) == \A k \in 1 .. count : ~found[k].fault /\ BlockFits(Block(p, k))

Held(m, p, count, words, found) ==
    \A k \in 1 .. count :
       /\ BlockFits(Block(p, k))
       /\ BlockHolds(m, Block(p, k), found[k].entry, Len(words[k].text), words[k].start)

LEMMA BlocksExact ==
  ASSUME StoryOK, NEW n \in 0 .. ByteLimit - 1, NEW words, Short(words, n), NEW count \in 0 .. Len(words),
         NEW table, TableOK(table), NEW p \in Nat, NEW s \in Storage,
         NEW found, Steady(table, words, found),
         NEW t, t = Blocks(s, p, table, words, count)
  PROVE  /\ s.ok /\ Fit(p, count, found) => t.ok
         /\ t.ok => Held(t.mem, p, count, words, found)
<1>0. PICK w : WritesBlocks(w, s, p, table, words, count)
  BY BlocksRounds
<1>1. /\ w[0] = s
      /\ \A k \in 1 .. count : w[k] = WriteBlock(w[k - 1], p, table, words, k)
      /\ \A k \in 0 .. count : After(s, w[k], BlockBytes(p, k))
      /\ Blocks(s, p, table, words, count) = w[count]
  BY <1>0 DEF WritesBlocks
<1>2. count \in Nat /\ \A k \in 1 .. count : k \in 1 .. Len(words)
  <2>1. Len(words) \in Nat
    BY DEF Short
  <2> QED BY <2>1
<1>3. \A k \in 0 .. count : w[k] \in Storage
  BY <1>1 DEF After
<1> DEFINE Holds(m, k) == BlockHolds(m, Block(p, k), found[k].entry, Len(words[k].text), words[k].start)
<1>4. ASSUME NEW k \in 1 .. count
      PROVE  /\ w[k].ok <=> w[k - 1].ok /\ ~found[k].fault /\ BlockFits(Block(p, k))
             /\ w[k].ok => Holds(w[k].mem, k)
  <2>1. PICK x, y : x = w[k - 1] /\ y = w[k]
    OBVIOUS
  <2>2. k - 1 \in 0 .. count /\ k \in 1 .. Len(words)
    BY <1>2
  <2>3. x \in Storage /\ y = WriteBlock(x, p, table, words, k)
    BY <1>1, <1>3, <2>1, <2>2
  <2>4. PICK f : f = found[k]
    OBVIOUS
  <2>5. f = LookupDictionaryWord(View(x.mem), table, EncodeDictionaryWord(words[k].text))
    BY <2>2, <2>3, <2>4 DEF Steady
  <2>6. words \in Seq([start : 1 .. n, text : Seq(Byte)]) /\ Len(words[k].text) <= n
    BY <2>2 DEF Short
  <2>7. /\ y.ok <=> x.ok /\ ~f.fault /\ BlockFits(Block(p, k))
        /\ y.ok => BlockHolds(y.mem, Block(p, k), f.entry, Len(words[k].text), words[k].start)
    BY <2>2, <2>3, <2>5, <2>6, BlockExact, SMTT(20)
  <2> QED BY <2>1, <2>4, <2>7
<1>5. ASSUME s.ok, \A k \in 1 .. count : ~found[k].fault /\ BlockFits(Block(p, k))
      PROVE  t.ok
  <2> HIDE DEF Holds
  <2> DEFINE S == {k \in Nat : k <= count => w[k].ok}
  <2>1. 0 \in S
    BY <1>1, <1>5
  <2>2. ASSUME NEW k \in Nat, k \in S
        PROVE  k + 1 \in S
    <3> SUFFICES ASSUME k + 1 <= count PROVE w[k + 1].ok
      OBVIOUS
    <3>1. PICK h : h = k + 1
      OBVIOUS
    <3>2. h \in 1 .. count /\ h - 1 = k /\ w[k].ok
      BY <1>2, <2>2, <3>1
    <3>3. w[h].ok
      BY <1>4, <1>5, <3>2
    <3> QED BY <3>1, <3>3
  <2> HIDE DEF S
  <2>3. Nat \subseteq S
    BY <2>1, <2>2, SetInduction
  <2> QED BY <1>1, <1>2, <2>3 DEF S
<1> DEFINE S == {k \in Nat : k <= count /\ w[k].ok =>
                   \A j \in 1 .. k : BlockFits(Block(p, j)) /\ Holds(w[k].mem, j)}
<1>6. 0 \in S
  OBVIOUS
<1>7. ASSUME NEW k \in Nat, k \in S
      PROVE  k + 1 \in S
  <2> HIDE DEF Holds
  <2> SUFFICES ASSUME k + 1 <= count, w[k + 1].ok, NEW j \in 1 .. k + 1
               PROVE  BlockFits(Block(p, j)) /\ Holds(w[k + 1].mem, j)
    OBVIOUS
  <2>1. PICK h : h = k + 1
    OBVIOUS
  <2>2. h \in 1 .. count /\ h - 1 = k /\ k \in 0 .. count /\ w[h].ok
    BY <1>2, <2>1
  <2>3. w[k].ok /\ BlockFits(Block(p, h)) /\ Holds(w[h].mem, h)
    BY <1>4, <2>2
  <2>4. CASE j = h
    BY <2>1, <2>3, <2>4
  <2>5. CASE j # h
    <3>1. j \in 1 .. k /\ j \in Nat /\ j >= 1 /\ j <= k
      BY <2>1, <2>5
    <3>2. BlockFits(Block(p, j)) /\ Holds(w[k].mem, j)
      BY <1>7, <2>2, <2>3, <3>1
    <3>3. PICK b, area : b = Block(p, j) /\ area = BlockBytes(p, h) \ BlockBytes(p, h - 1)
      OBVIOUS
    <3>4. b \in Nat /\ (b .. b + 3) \cap area = {}
      <4>1. b = p + 2 + (j - 1) * 4 /\ b \in Nat /\ b + 3 <= p + 2 + k * 4 - 1 /\ p + 2 <= b
        BY <3>1, <3>3 DEF Block, ParseHeader, ParseEntry
      <4>2. BlockBytes(p, h - 1) = p + 2 .. p + 2 + k * 4 - 1
        BY <2>2 DEF BlockBytes, ParseHeader, ParseEntry
      <4>3. b .. b + 3 \subseteq BlockBytes(p, h - 1)
        BY <4>1, <4>2
      <4> QED BY <3>3, <4>1, <4>3
    <3>5. After(w[k], w[h], area)
      <4>1. PICK x, y : x = w[k] /\ y = w[h]
        OBVIOUS
      <4>2. x \in Storage /\ y = WriteBlock(x, p, table, words, h) /\ h \in 1 .. Len(words)
        BY <1>1, <1>2, <1>3, <2>2, <4>1
      <4>3. words \in Seq([start : 1 .. n, text : Seq(Byte)]) /\ Len(words[h].text) <= n
        BY <4>2 DEF Short
      <4>4. After(x, WriteBlock(x, p, table, words, h), BlockBytes(p, h) \ BlockBytes(p, h - 1))
        BY <4>2, <4>3, BlockWritten
      <4> QED BY <3>3, <4>1, <4>2, <4>4
    <3>6. BlockHolds(w[h].mem, b, found[j].entry, Len(words[j].text), words[j].start)
      BY <3>2, <3>3, <3>4, <3>5, BlockKept DEF Holds
    <3> QED BY <2>1, <3>2, <3>3, <3>6 DEF Holds
  <2> QED BY <2>4, <2>5
<1> HIDE DEF S
<1>8. Nat \subseteq S
  BY <1>6, <1>7, SetInduction
<1>9. ASSUME t.ok
      PROVE  \A k \in 1 .. count : BlockFits(Block(p, k)) /\ Holds(t.mem, k)
  <2>1. t = w[count] /\ count <= count /\ count \in S
    BY <1>1, <1>2, <1>8
  <2> HIDE DEF Holds
  <2> QED BY <1>9, <2>1 DEF S
<1>10. ASSUME t.ok PROVE Held(t.mem, p, count, words, found)
  BY <1>9, <1>10 DEF Held
<1>11. ASSUME s.ok, Fit(p, count, found) PROVE t.ok
  BY <1>5, <1>11 DEF Fit
<1> QED BY <1>10, <1>11

\* The bytes of the parse buffer at p after its first.
ParseBytes(m, p) == {p + 1} \cup BlockBytes(p, m[p])

\* What has been read of the line in memory s, t being what tokeniseInput makes
\* of it: nothing is stored, or the buffer begins in dynamic memory; and the
\* number of words is the last thing that is stored.
LEMMA LineTokenised ==
  ASSUME StoryOK, NEW s \in Storage, NEW p \in Nat,
         NEW text \in Seq(Byte), Len(text) < ByteLimit
  PROVE  LET t == TokeniseInput(s, p, text)
         IN  /\ t \in Storage
             /\ \/ t.mem = s.mem
                \/ /\ p \in 0 .. story.staticBase - 1
                   /\ After(s, t, ParseBytes(s.mem, p))
                   /\ ~t.ok => t.mem[p + 1] = s.mem[p + 1]
<1>1. PICK t : t = TokeniseInput(s, p, text)
  OBVIOUS
<1>2. PICK u : u = View(s.mem)
  OBVIOUS
<1>3. PICK dictionary : dictionary = ReadDictionary(u, story.length, story.dictionary)
  OBVIOUS
<1>4. PICK words : words = SplitInputWords(text, dictionary.table.separators)
  OBVIOUS
<1>5. story.length \in Nat /\ story.staticBase \in Nat /\ story.dictionary \in Nat
  BY DEF StoryOK
<1>6. /\ s.mem \in [0 .. story.staticBase - 1 -> Byte]
      /\ u \in Memories(story.length)
      /\ \A a \in 0 .. story.staticBase - 1 : u[a] = s.mem[a]
  <2>1. s.mem \in [0 .. story.staticBase - 1 -> Byte]
    BY DEF Storage
  <2> QED BY <1>2, <2>1, ViewTyped
<1> SUFFICES /\ t \in Storage
             /\ \/ t.mem = s.mem
                \/ /\ p \in 0 .. story.staticBase - 1
                   /\ After(s, t, ParseBytes(s.mem, p))
                   /\ ~t.ok => t.mem[p + 1] = s.mem[p + 1]
  BY <1>1
<1>7. CASE ~(s.ok /\ ~dictionary.fault /\ ParseBufferFits(s.mem, p))
  <2>1. t = [s EXCEPT !.ok = FALSE]
    BY <1>1, <1>2, <1>3, <1>7 DEF TokeniseInput
  <2>2. t = [mem |-> s.mem, ok |-> FALSE]
    BY <2>1 DEF Storage
  <2> QED BY <1>6, <2>2 DEF Storage
<1>8. CASE s.ok /\ ~dictionary.fault /\ ParseBufferFits(s.mem, p)
  <2>1. PICK count : count = Min({Len(words), u[p]})
    OBVIOUS
  <2>2. PICK table : table = dictionary.table
    OBVIOUS
  <2>3. PICK b : b = Blocks(s, p, table, words, count)
    OBVIOUS
  <2>4. t = Store(b, p + 1, <<count>>)
    BY <1>1, <1>2, <1>3, <1>4, <1>8, <2>1, <2>2, <2>3 DEF TokeniseInput, WithWords
  <2>5. p + 2 <= story.staticBase
    BY <1>8 DEF ParseBufferFits, ParseHeader, Writable, Lies
  <2>6. p \in 0 .. story.staticBase - 1 /\ p + 1 \in 0 .. story.staticBase - 1
    BY <1>5, <2>5
  <2>7. TableOK(table)
    <3>1. DictionaryFits(u, story.length, story.dictionary)
      BY <1>3, <1>8 DEF ReadDictionary
    <3>2. table = DictionaryHeader(u, story.dictionary)
      BY <1>3, <2>2, <3>1 DEF ReadDictionary
    <3>3. \A a \in story.dictionary .. story.length - 1 : u[a] \in Byte
      BY <1>5, <1>6 DEF Memories
    <3>4. PICK d, e : d = story.dictionary /\ e = d + 1 + u[d] + 3
      OBVIOUS
    <3>5. /\ table.entryLength \in Nat /\ table.count \in Nat /\ table.entries = e
          /\ u[d] \in Nat
      BY <1>5, <3>1, <3>2, <3>3, <3>4, HeaderRead
    <3>6. e \in Nat
      BY <1>5, <3>4, <3>5
    <3> QED BY <3>5, <3>6 DEF TableOK
  <2>8. Len(text) \in 0 .. ByteLimit - 1
    <3>1. Len(text) \in Nat
      OBVIOUS
    <3> QED BY <3>1, Bytes
  <2>9. Short(words, Len(text)) /\ Len(words) \in Nat
    <3>1. words \in Seq(Piece(text))
      BY <1>4, SplitExact
    <3>2. \A k \in 1 .. Len(words) : words[k] \in Piece(text)
      BY <3>1, ElementOfSeq
    <3>3. Piece(text) \subseteq [start : 1 .. Len(text), text : Seq(Byte)]
      BY DEF Piece
    <3>4. words \in Seq([start : 1 .. Len(text), text : Seq(Byte)])
      BY <3>1, <3>3, SeqMonotonic
    <3>5. \A k \in 1 .. Len(words) : Len(words[k].text) <= Len(text)
      BY <3>2 DEF Piece
    <3>6. Len(words) \in Nat
      BY <3>1
    <3> QED BY <3>4, <3>5, <3>6 DEF Short
  <2>10. s.mem[p] \in Byte /\ u[p] = s.mem[p]
    BY <1>6, <2>6
  <2>11. /\ count \in 0 .. Len(words) /\ count \in Byte
         /\ count <= s.mem[p] /\ s.mem[p] \in Nat
    <3>1. PICK q, l : q = u[p] /\ l = Len(words)
      OBVIOUS
    <3>2. q \in Byte /\ q \in Nat /\ l \in Nat
      BY <2>9, <2>10, <3>1 DEF Byte
    <3>3. count = IF l <= q THEN l ELSE q
      BY <2>1, <3>1, <3>2, MinOfTwo
    <3>4. count \in 0 .. l /\ count <= q /\ count \in Byte
      BY <3>2, <3>3, Bytes DEF Byte
    <3> QED BY <2>10, <3>1, <3>2, <3>4
  <2>12. After(s, b, BlockBytes(p, count))
    BY <2>3, <2>7, <2>8, <2>9, <2>11, BlocksWritten
  <2>13. PICK one, address : one = <<count>> /\ address = p + 1
    OBVIOUS
  <2>14. one \in Seq(Byte) /\ Len(one) = 1 /\ address \in Int
    BY <2>11, <2>13
  <2>15. b \in Storage
    BY <2>12 DEF After
  <2>16. /\ After(b, t, address .. address + 1 - 1)
         /\ b.ok /\ Writable(address, 1) => t.ok
         /\ ~b.ok => t = [b EXCEPT !.ok = FALSE]
    BY <2>4, <2>13, <2>14, <2>15, StoreTyped
  <2>17. Writable(address, 1) /\ address .. address + 1 - 1 = {p + 1}
    BY <2>5, <2>13 DEF Writable, Lies
  <2>18. BlockBytes(p, count) \subseteq BlockBytes(p, s.mem[p]) /\ p + 1 \notin BlockBytes(p, count)
    <3>1. PICK q : q = s.mem[p]
      OBVIOUS
    <3>2. count \in Nat /\ q \in Nat /\ count <= q
      BY <2>9, <2>11, <3>1
    <3>3. BlockBytes(p, count) \subseteq BlockBytes(p, q) /\ p + 1 \notin BlockBytes(p, count)
      BY <3>2 DEF BlockBytes, ParseHeader, ParseEntry
    <3> QED BY <3>1, <3>3
  <2>19. After(s, t, ParseBytes(s.mem, p))
    <3>1. After(b, t, {p + 1})
      BY <2>16, <2>17
    <3>2. After(s, t, BlockBytes(p, count) \cup {p + 1})
      BY <2>12, <3>1, AfterAfter
    <3>3. BlockBytes(p, count) \cup {p + 1} \subseteq ParseBytes(s.mem, p)
      BY <2>18 DEF ParseBytes
    <3> QED BY <3>2, <3>3, AfterLarger
  <2>20. ~t.ok => t.mem[p + 1] = s.mem[p + 1]
    <3> SUFFICES ASSUME ~t.ok
                 PROVE  t.mem[p + 1] = s.mem[p + 1]
      OBVIOUS
    <3>1. ~b.ok
      BY <2>16, <2>17
    <3>2. t = [b EXCEPT !.ok = FALSE]
      BY <2>16, <3>1
    <3>3. t.mem = b.mem
      BY <2>15, <3>2 DEF Storage
    <3>4. b.mem[p + 1] = s.mem[p + 1]
      BY <2>6, <2>12, <2>18 DEF After
    <3> QED BY <3>3, <3>4
  <2>21. t \in Storage
    BY <2>19 DEF After
  <2> QED BY <2>6, <2>19, <2>20, <2>21
<1> QED BY <1>7, <1>8

\* What the look-ups of the words find.
Lookups(table, words) ==
    [k \in 1 .. Len(words) |->
        LookupDictionaryWord(story.image, table, EncodeDictionaryWord(words[k].text))]

LEMMA LookupsSteady ==
  ASSUME StoryOK, story.dictionary >= story.staticBase,
         NEW table, table = DictionaryHeader(story.image, story.dictionary), NEW words,
         NEW found, found = Lookups(table, words)
  PROVE  Steady(table, words, found) /\ TableOK(table)
<1>1. TableOK(table)
  <2>1. PICK size, d, u : size = story.length /\ d = story.dictionary /\ u = story.image
    OBVIOUS
  <2>2. /\ size \in Nat /\ d \in Nat
        /\ u \in Memories(size) /\ DictionaryFits(u, size, d) /\ table = DictionaryHeader(u, d)
    BY <2>1 DEF StoryOK
  <2> QED BY <2>2, EntryBytes
<1>2. ASSUME NEW s \in Storage, NEW k \in 1 .. Len(words)
      PROVE  LookupDictionaryWord(View(s.mem), table, EncodeDictionaryWord(words[k].text)) = found[k]
  <2>1. PICK u, v, z : u = View(s.mem) /\ v = story.image /\ z = EncodeDictionaryWord(words[k].text)
    OBVIOUS
  <2>2. s.mem \in [0 .. story.staticBase - 1 -> Byte]
    BY DEF Storage
  <2>3. \A j \in 0 .. table.count - 1 : EntryZChars(u, table, j) = EntryZChars(v, table, j)
    BY <2>1, <2>2, StaticDictionary
  <2>4. table.count \in Nat
    BY <1>1 DEF TableOK
  <2>5. LookupDictionaryWord(u, table, z) = LookupDictionaryWord(v, table, z)
    BY <2>3, <2>4, SameLookup
  <2>6. found[k] = LookupDictionaryWord(v, table, z)
    BY <2>1 DEF Lookups
  <2> QED BY <2>1, <2>5, <2>6
<1> QED BY <1>1, <1>2 DEF Steady

\* t is s after the words have been described in the parse buffer at p, unless
\* there is no room for them.
Tokenised(s, t, p, words, found, count) ==
    /\ t \in Storage
    /\ s.ok /\ ParseBufferFits(s.mem, p) /\ Fit(p, count, found) => t.ok
    /\ t.ok => /\ s.ok /\ ParseBufferFits(s.mem, p)
               /\ After(s, t, ParseBytes(s.mem, p))
               /\ t.mem[p + 1] = count
               /\ Held(t.mem, p, count, words, found)

\* What tokeniseInput makes of a text where the dictionary lies in static memory.
LEMMA TokenisedExact ==
  ASSUME StoryOK, story.dictionary >= story.staticBase,
         NEW table, table = DictionaryHeader(story.image, story.dictionary),
         NEW s \in Storage, NEW p \in Nat, NEW text \in Seq(Byte), Len(text) < ByteLimit,
         NEW words, words = SplitInputWords(text, table.separators),
         NEW found, found = Lookups(table, words),
         NEW count, count = Min({Len(words), View(s.mem)[p]}),
         NEW t, t = TokeniseInput(s, p, text)
  PROVE  Tokenised(s, t, p, words, found, count)
<1>1. PICK u : u = View(s.mem)
  OBVIOUS
<1>2. story.length \in Nat /\ story.staticBase \in Nat /\ story.staticBase <= story.length
  BY DEF StoryOK
<1>3. /\ s.mem \in [0 .. story.staticBase - 1 -> Byte]
      /\ \A a \in 0 .. story.staticBase - 1 : u[a] = s.mem[a]
  <2>1. s.mem \in [0 .. story.staticBase - 1 -> Byte]
    BY DEF Storage
  <2> QED BY <1>1, <2>1, ViewTyped
<1>4. DictionaryFits(u, story.length, story.dictionary) /\ DictionaryHeader(u, story.dictionary) = table
  BY <1>1, <1>3, StaticDictionary
<1>5. t \in Storage
  BY LineTokenised
<1>6. CASE ~(s.ok /\ ParseBufferFits(s.mem, p))
  <2>1. t = [s EXCEPT !.ok = FALSE]
    BY <1>6 DEF TokeniseInput
  <2>2. ~t.ok
    BY <2>1 DEF Storage
  <2> QED BY <1>5, <1>6, <2>2 DEF Tokenised
<1>7. CASE s.ok /\ ParseBufferFits(s.mem, p)
  <2>1. t = WithWords(s, p, table, words, count)
    <3>1. PICK dictionary : dictionary = ReadDictionary(u, story.length, story.dictionary)
      OBVIOUS
    <3>2. ~dictionary.fault /\ dictionary.table = table
      BY <1>4, <3>1 DEF ReadDictionary
    <3> QED BY <1>1, <1>7, <3>1, <3>2 DEF TokeniseInput
  <2>2. p + 2 <= story.staticBase
    BY <1>7 DEF ParseBufferFits, ParseHeader, Writable, Lies
  <2>3. PICK c : c = p + 1
    OBVIOUS
  <2>4. p \in 0 .. story.staticBase - 1 /\ c \in 0 .. story.staticBase - 1 /\ c \in Nat /\ Writable(c, 1)
    BY <1>2, <2>2, <2>3 DEF Writable, Lies
  <2>5. Len(text) \in 0 .. ByteLimit - 1
    <3>1. Len(text) \in Nat
      OBVIOUS
    <3> QED BY <3>1, Bytes
  <2>6. Short(words, Len(text)) /\ Len(words) \in Nat
    <3>1. words \in Seq(Piece(text))
      BY SplitExact
    <3>2. \A k \in 1 .. Len(words) : words[k] \in Piece(text)
      BY <3>1, ElementOfSeq
    <3>3. Piece(text) \subseteq [start : 1 .. Len(text), text : Seq(Byte)]
      BY DEF Piece
    <3>4. words \in Seq([start : 1 .. Len(text), text : Seq(Byte)])
      BY <3>1, <3>3, SeqMonotonic
    <3>5. \A k \in 1 .. Len(words) : Len(words[k].text) <= Len(text)
      BY <3>2 DEF Piece
    <3>6. Len(words) \in Nat
      BY <3>1
    <3> QED BY <3>4, <3>5, <3>6 DEF Short
  <2>7. count \in 0 .. Len(words) /\ count \in Byte /\ count \in Nat
    <3>1. PICK q, l : q = u[p] /\ l = Len(words)
      OBVIOUS
    <3>2. q \in Byte /\ q \in Nat /\ l \in Nat
      <4>1. q = s.mem[p] /\ s.mem[p] \in Byte
        BY <1>3, <2>4, <3>1
      <4> QED BY <2>6, <3>1, <4>1 DEF Byte
    <3>3. count = IF l <= q THEN l ELSE q
      BY <1>1, <3>1, <3>2, MinOfTwo
    <3>4. count \in 0 .. l /\ count \in Byte
      BY <3>2, <3>3, Bytes DEF Byte
    <3> QED BY <3>1, <3>2, <3>4
  <2>8. PICK b : b = Blocks(s, p, table, words, count)
    OBVIOUS
  <2>9. Steady(table, words, found) /\ TableOK(table)
    BY LookupsSteady
  <2>10. /\ s.ok /\ Fit(p, count, found) => b.ok
         /\ b.ok => Held(b.mem, p, count, words, found)
    <3>1. PICK n : n = Len(text)
      OBVIOUS
    <3>2. n \in 0 .. ByteLimit - 1 /\ Short(words, n)
      BY <2>5, <2>6, <3>1
    <3> QED BY <2>7, <2>8, <2>9, <3>2, BlocksExact
  <2>11. After(s, b, BlockBytes(p, count))
    BY <2>5, <2>6, <2>7, <2>8, <2>9, BlocksWritten
  <2>12. PICK one : one = <<count>>
    OBVIOUS
  <2>13. one \in Seq(Byte) /\ Len(one) = 1 /\ one[1] = count /\ 1 = Len(one)
    BY <2>7, <2>12
  <2>14. b \in Storage /\ t = Store(b, c, one)
    BY <2>1, <2>3, <2>8, <2>11, <2>12 DEF After, WithWords
  <2>15. StoredAs(b, t, c, one)
    BY <2>4, <2>13, <2>14, StoreAt
  <2>16. t.ok <=> b.ok
    BY <2>4, <2>13, <2>15 DEF StoredAs
  <2>17. t.ok => t.mem[c] = count
    <3>1. c + 1 - 1 = c /\ 1 \in 1 .. Len(one)
      BY <2>4, <2>13
    <3> QED BY <2>13, <2>15, <3>1 DEF StoredAs
  <2>18. After(b, t, {c})
    <3>1. c .. c + Len(one) - 1 = {c}
      BY <2>4, <2>13
    <3> QED BY <2>15, <3>1 DEF StoredAs, After
  <2>19. t.ok => Held(t.mem, p, count, words, found)
    <3> SUFFICES ASSUME t.ok, NEW k \in 1 .. count
                 PROVE  /\ BlockFits(Block(p, k))
                        /\ BlockHolds(t.mem, Block(p, k), found[k].entry, Len(words[k].text), words[k].start)
      BY DEF Held
    <3>1. /\ BlockFits(Block(p, k))
          /\ BlockHolds(b.mem, Block(p, k), found[k].entry, Len(words[k].text), words[k].start)
      BY <2>10, <2>16 DEF Held
    <3>2. PICK block : block = Block(p, k)
      OBVIOUS
    <3>3. block \in Nat /\ (block .. block + 3) \cap {c} = {}
      <4>1. k \in Nat /\ k >= 1
        BY <2>7
      <4>2. block \in Nat /\ p + 1 < block
        BY <3>2, <4>1 DEF Block, ParseHeader, ParseEntry
      <4> QED BY <2>3, <2>4, <4>2
    <3>4. BlockFits(block)
      BY <3>1, <3>2
    <3>5. BlockHolds(t.mem, block, found[k].entry, Len(words[k].text), words[k].start)
      BY <2>18, <3>1, <3>2, <3>3, <3>4, BlockKept
    <3> QED BY <3>1, <3>2, <3>5
  <2>20. After(s, t, ParseBytes(s.mem, p))
    <3>1. After(s, t, BlockBytes(p, count) \cup {c})
      BY <2>11, <2>18, AfterAfter
    <3>2. BlockBytes(p, count) \cup {c} \subseteq ParseBytes(s.mem, p)
      <4>1. PICK q : q = s.mem[p]
        OBVIOUS
      <4>2. q \in Nat /\ count <= q
        <5>1. q \in Byte /\ q = u[p]
          BY <1>3, <2>4, <4>1
        <5>2. q \in Nat
          BY <5>1 DEF Byte
        <5>3. PICK l : l = Len(words)
          OBVIOUS
        <5>4. count = IF l <= q THEN l ELSE q
          BY <1>1, <2>6, <5>1, <5>2, <5>3, MinOfTwo
        <5> QED BY <2>6, <5>2, <5>3, <5>4
      <4>3. BlockBytes(p, count) \subseteq BlockBytes(p, q)
        BY <2>7, <4>2 DEF BlockBytes, ParseHeader, ParseEntry
      <4> QED BY <2>3, <4>1, <4>3 DEF ParseBytes
    <3> QED BY <3>1, <3>2, AfterLarger
  <2>21. t.ok => t.mem[p + 1] = count
    BY <2>3, <2>17
  <2> QED BY <1>5, <1>7, <2>10, <2>16, <2>19, <2>20, <2>21 DEF Tokenised
<1> QED BY <1>6, <1>7

-----------------------------------------------------------------------------
(* The instruction as a whole, and the invariant.                          *)

\* sread stores the line in the bytes of the text buffer, and what is made of it
\* in those of the parse buffer.
LEMMA LineRead ==
  ASSUME StoryOK, mem \in [0 .. story.staticBase - 1 -> Byte],
         NEW line \in Lines, NEW t \in Nat, NEW p \in Nat,
         NEW s, s = StoreInputLine(t, line),
         NEW letters, letters = IF s.ok THEN Letters(line, View(mem)[t]) ELSE <<>>,
         NEW done, done = TokeniseInput(s, p, letters)
  PROVE  /\ done \in Storage
         /\ \A a \in (0 .. story.staticBase - 1) \ TextBytes(mem, t) : s.mem[a] = mem[a]
         /\ \/ done.mem = s.mem
            \/ /\ p \in 0 .. story.staticBase - 1
               /\ After(s, done, ParseBytes(s.mem, p))
               /\ ~done.ok => done.mem[p + 1] = s.mem[p + 1]
<1>1. /\ After([mem |-> mem, ok |-> TRUE], s, TextBytes(mem, t))
      /\ s.ok => /\ Letters(line, View(mem)[t]) \in Seq(Byte)
                 /\ Len(Letters(line, View(mem)[t])) < ByteLimit - 1
  BY LineStored
<1>2. s \in Storage /\ \A a \in (0 .. story.staticBase - 1) \ TextBytes(mem, t) : s.mem[a] = mem[a]
  BY <1>1 DEF After
<1>3. letters \in Seq(Byte) /\ Len(letters) < ByteLimit
  <2>1. CASE s.ok
    <3>1. letters \in Seq(Byte) /\ Len(letters) < ByteLimit - 1
      BY <1>1, <2>1
    <3>2. Len(letters) \in Nat
      BY <3>1
    <3> QED BY <3>1, <3>2, Bytes
  <2>2. CASE ~s.ok
    <3>1. letters = <<>>
      BY <2>2
    <3>2. <<>> \in Seq(Byte) /\ Len(<<>>) = 0
      BY EmptySeq
    <3>3. 0 < ByteLimit
      BY Bytes
    <3>4. letters \in Seq(Byte) /\ Len(letters) = 0
      BY <3>1, <3>2
    <3> QED BY <3>3, <3>4
  <2> QED BY <2>1, <2>2
<1>4. /\ done \in Storage
      /\ \/ done.mem = s.mem
         \/ /\ p \in 0 .. story.staticBase - 1
            /\ After(s, done, ParseBytes(s.mem, p))
            /\ ~done.ok => done.mem[p + 1] = s.mem[p + 1]
  BY <1>2, <1>3, LineTokenised
<1> QED BY <1>2, <1>4

\* The line and the buffers of an sread are among those that are supplied.
LEMMA ReadOperands ==
  ASSUME LineTypeOK, SRead
  PROVE  \E t, p, s, letters, done :
            /\ t \in Nat /\ p \in Nat
            /\ input \in Lines
            /\ s = StoreInputLine(t, input)
            /\ letters = IF s.ok THEN Letters(input, View(mem)[t]) ELSE <<>>
            /\ done = TokeniseInput(s, p, letters)
            /\ mem' = done.mem
            /\ read' = [status |-> IF done.ok THEN "done" ELSE "refused",
                        text |-> t, parse |-> p, line |-> input]
<1>1. PICK t \in TextBuffers, p \in ParseBuffers :
         LET s == StoreInputLine(t, input)
             letters == IF s.ok THEN Letters(input, View(mem)[t]) ELSE <<>>
             done == TokeniseInput(s, p, letters)
         IN  /\ mem' = done.mem
             /\ read' = [status |-> IF done.ok THEN "done" ELSE "refused",
                         text |-> t, parse |-> p, line |-> input]
  BY DEF SRead
<1>2. t \in Nat /\ p \in Nat
  BY LineAssumption, Bytes DEF Words
<1>3. input \in Lines
  BY DEF SRead, LineTypeOK
<1> QED BY <1>1, <1>2, <1>3

LineInv == StoryOK /\ LineTypeOK

LEMMA LineInitially == LineInit => LineInv
<1> SUFFICES ASSUME LineInit PROVE LineInv
  OBVIOUS
<1>1. PICK file \in {f \in Files : Acceptable(f)} :
         /\ story = Loaded(file)
         /\ mem = [a \in 0 .. file.staticBase - 1 |-> file.bytes[a]]
         /\ input = NoLine /\ read = NothingRead /\ steps = 0
  BY DEF LineInit
<1>2. StoryOK /\ mem \in [0 .. story.staticBase - 1 -> Byte]
  BY <1>1, LoadedFile
<1>3. input \in Lines \cup {NoLine} /\ read.status \in {"none", "done", "refused"} /\ steps \in 0 .. MaxSteps
  BY <1>1, LineAssumption DEF NothingRead
<1> QED BY <1>2, <1>3 DEF LineInv, LineTypeOK

LEMMA LineStep == LineInv /\ [LineNext]_lineVars => LineInv'
<1> SUFFICES ASSUME LineInv, [LineNext]_lineVars PROVE LineInv'
  OBVIOUS
<1>1. StoryOK /\ LineTypeOK
  BY DEF LineInv
<1>2. story' = story
  BY DEF LineNext, Supply, StoryStores, SRead, SReadMisused, lineVars
<1>3. StoryOK'
  BY <1>1, <1>2 DEF StoryOK
<1>4. /\ mem \in [0 .. story.staticBase - 1 -> Byte] /\ input \in Lines \cup {NoLine}
      /\ read.status \in {"none", "done", "refused"} /\ steps \in 0 .. MaxSteps
  BY <1>1 DEF LineTypeOK
<1>5. Counted => steps' \in 0 .. MaxSteps
  BY <1>4, LineAssumption DEF Counted
<1>6. CASE Supply
  BY <1>2, <1>3, <1>4, <1>6 DEF Supply, LineTypeOK, LineInv
<1>7. CASE StoryStores
  <2>1. mem' \in [0 .. story.staticBase - 1 -> Byte]
    <3>1. PICK store \in Stores : mem' = [mem EXCEPT ![store[1]] = store[2]]
      BY <1>7 DEF StoryStores
    <3>2. PICK a, v : a = store[1] /\ v = store[2]
      OBVIOUS
    <3>3. v \in Byte /\ mem' = [mem EXCEPT ![a] = v]
      BY <3>1, <3>2, LineAssumption
    <3> QED BY <1>4, <3>3
  <2>2. read'.status = "none" /\ input' = input /\ steps' \in 0 .. MaxSteps
    BY <1>5, <1>7 DEF StoryStores, NothingRead
  <2> QED BY <1>2, <1>3, <1>4, <2>1, <2>2 DEF LineInv, LineTypeOK
<1>8. CASE SRead
  <2>1. PICK t, p, s, letters, done :
            /\ t \in Nat /\ p \in Nat
            /\ input \in Lines
            /\ s = StoreInputLine(t, input)
            /\ letters = IF s.ok THEN Letters(input, View(mem)[t]) ELSE <<>>
            /\ done = TokeniseInput(s, p, letters)
            /\ mem' = done.mem
            /\ read' = [status |-> IF done.ok THEN "done" ELSE "refused",
                        text |-> t, parse |-> p, line |-> input]
    BY <1>1, <1>8, ReadOperands
  <2>2. done \in Storage
    BY <1>1, <1>4, <2>1, LineRead
  <2>3. mem' \in [0 .. story.staticBase - 1 -> Byte]
    BY <2>1, <2>2 DEF Storage
  <2>4. read'.status \in {"done", "refused"}
    BY <2>1
  <2>5. input' = NoLine /\ steps' \in 0 .. MaxSteps
    BY <1>5, <1>8 DEF SRead
  <2> QED BY <1>2, <1>3, <2>3, <2>4, <2>5 DEF LineInv, LineTypeOK
<1>9. CASE SReadMisused
  <2>1. mem' = mem /\ input' = input /\ steps' = steps /\ read'.status = "none"
    BY <1>9 DEF SReadMisused, NothingRead
  <2> QED BY <1>2, <1>3, <1>4, <2>1 DEF LineInv, LineTypeOK
<1>10. CASE UNCHANGED lineVars
  BY <1>2, <1>3, <1>4, <1>10 DEF lineVars, LineInv, LineTypeOK
<1> QED BY <1>6, <1>7, <1>8, <1>9, <1>10 DEF LineNext

LEMMA LineInvariant == LineSpec => []LineInv
<1>1. LineInit => LineInv
  BY LineInitially
<1>2. LineInv /\ [LineNext]_lineVars => LineInv'
  BY LineStep
<1> QED BY <1>1, <1>2, PTL DEF LineSpec

\* Whatever a story stores in its memory and whatever buffers it gives to sread,
\* with a dictionary that says what it likes of its entries: memory stays bytes.
THEOREM LineTypeCorrect == LineSpec => []LineTypeOK
<1>1. LineInv => LineTypeOK
  BY DEF LineInv
<1> QED BY <1>1, LineInvariant, PTL

-----------------------------------------------------------------------------
(* The tables of the header and the dictionary.                            *)

\* What LoadStory has checked once of the tables of the header stays true of
\* memory, for every file that it accepts: the tables stay where instructions
\* read and write them, and a dictionary in static memory stays readable.
THEOREM TablesStayMapped == LineSpec => []TablesMapped
<1>1. ASSUME LineInv
      PROVE  TablesMapped
  <2>1. StoryOK /\ mem \in [0 .. story.staticBase - 1 -> Byte]
    BY <1>1 DEF LineInv, LineTypeOK
  <2>2. PICK base, size, g, o, a, d :
           /\ base = story.staticBase /\ size = story.length /\ g = story.globals
           /\ o = story.objectTable /\ a = story.abbreviations /\ d = story.dictionary
    OBVIOUS
  <2>3. /\ base \in Nat /\ size \in Nat /\ base <= size /\ {g, o, a, d} \subseteq Nat
        /\ HeaderSize <= o /\ o + DefaultsSize <= base
        /\ HeaderSize <= g /\ g + GlobalsSize <= base
        /\ a # 0 => a + AbbreviationsSize <= size
        /\ DictionaryFits(story.image, size, d)
    BY <2>1, <2>2 DEF StoryOK
  <2>4. {HeaderSize, DefaultsSize, GlobalsSize, AbbreviationsSize} \subseteq Nat \ {0}
    BY StoryAssumption
  <2>5. DOMAIN mem = 0 .. base - 1 /\ DOMAIN View(mem) = 0 .. size - 1
    BY <2>1, <2>2, ViewTyped DEF Memories
  <2>6. /\ {g, o} \subseteq HeaderSize .. base - 1
        /\ g + GlobalsSize - 1 \in 0 .. base - 1 /\ o + DefaultsSize - 1 \in 0 .. base - 1
        /\ a # 0 => a + AbbreviationsSize - 1 \in 0 .. size - 1
    BY <2>3, <2>4
  <2>7. d >= base => ~ReadDictionary(View(mem), size, d).fault
    <3> SUFFICES ASSUME d >= base
                 PROVE  DictionaryFits(View(mem), size, d)
      BY DEF ReadDictionary
    <3>1. \A b \in base .. size - 1 : View(mem)[b] = story.image[b]
      BY <2>1, <2>2, ViewTyped
    <3>2. \A b \in 0 .. size - 1 : story.image[b] \in Byte
      BY <2>1, <2>2 DEF StoryOK, Memories
    <3>3. \A b \in d .. size - 1 : b \in base .. size - 1 /\ b \in 0 .. size - 1
      BY <2>3
    <3>4. \A b \in d .. size - 1 : story.image[b] \in Byte /\ View(mem)[b] = story.image[b]
      BY <3>1, <3>2, <3>3
    <3> QED BY <2>3, <3>4, SameDictionary
  <2> QED BY <2>2, <2>5, <2>6, <2>7 DEF TablesMapped
<1> QED BY <1>1, LineInvariant, PTL

\* The binary chop on a table that the story may have rewritten since it was
\* loaded: the entry that it finds is the word that was asked for, whatever the
\* order of the entries, and in a table in order it finds every entry.
THEOREM LookupAlwaysExact == LineSpec => []LookupExact
<1>1. ASSUME LineInv
      PROVE  LookupExact
  <2>1. StoryOK /\ mem \in [0 .. story.staticBase - 1 -> Byte]
    BY <1>1 DEF LineInv, LineTypeOK
  <2>2. PICK u, size, d : u = View(mem) /\ size = story.length /\ d = story.dictionary
    OBVIOUS
  <2>3. size \in Nat /\ d \in Nat /\ u \in Memories(size)
    BY <2>1, <2>2, ViewTyped DEF StoryOK
  <2>4. ASSUME ~ReadDictionary(u, size, d).fault
        PROVE  ChopIsExact(u, ReadDictionary(u, size, d).table, [1 .. DictionaryZChars -> ZChar])
    <3>1. DictionaryFits(u, size, d)
      BY <2>4 DEF ReadDictionary
    <3>2. ReadDictionary(u, size, d).table = DictionaryHeader(u, d)
      BY <3>1 DEF ReadDictionary
    <3> QED BY <2>3, <3>1, <3>2, ChopExact
  <2> QED BY <2>2, <2>4 DEF LookupExact
<1> QED BY <1>1, LineInvariant, PTL

-----------------------------------------------------------------------------
(* What sread writes.                                                      *)

\* sread changes no byte outside the two buffers that it is given, whatever they
\* overlap and at whichever store it is refused, and a line that is refused is
\* not counted in the parse buffer.
THEOREM SreadKeepsToBuffers == LineSpec => OnlyBuffersWritten
<1> DEFINE P == Reads =>
         LET changed == {a \in DOMAIN mem : mem'[a] # mem[a]}
             texts == TextArea(read'.text) \ {read'.text}
             blocks == ParseArea(read'.parse, mem'[read'.parse]) \ {read'.parse}
         IN  IF read'.parse \in DOMAIN mem
             THEN /\ changed \subseteq texts \cup blocks
                  /\ read'.status = "refused" => read'.parse + 1 \notin changed \ texts
             ELSE changed \subseteq texts
<1>1. ASSUME LineInv, [LineNext]_lineVars
      PROVE  [P]_lineVars
  <2> SUFFICES ASSUME Reads PROVE P
    OBVIOUS
  <2>1. /\ StoryOK /\ LineTypeOK /\ mem \in [0 .. story.staticBase - 1 -> Byte]
        /\ story.staticBase \in Nat /\ story.length \in Nat
    BY <1>1 DEF LineInv, LineTypeOK, StoryOK
  <2>2. SRead
    BY <1>1 DEF Reads, LineNext, Supply, StoryStores, SReadMisused, lineVars
  <2>3. PICK t, p, s, letters, done :
            /\ t \in Nat /\ p \in Nat
            /\ input \in Lines
            /\ s = StoreInputLine(t, input)
            /\ letters = IF s.ok THEN Letters(input, View(mem)[t]) ELSE <<>>
            /\ done = TokeniseInput(s, p, letters)
            /\ mem' = done.mem
            /\ read' = [status |-> IF done.ok THEN "done" ELSE "refused",
                        text |-> t, parse |-> p, line |-> input]
    BY <2>1, <2>2, ReadOperands
  <2> DEFINE D == 0 .. story.staticBase - 1
             changed == {a \in DOMAIN mem : mem'[a] # mem[a]}
             texts == TextArea(t) \ {t}
             blocks == ParseArea(p, mem'[p]) \ {p}
  <2>4. /\ done \in Storage
        /\ \A a \in D \ TextBytes(mem, t) : s.mem[a] = mem[a]
        /\ \/ done.mem = s.mem
           \/ /\ p \in D
              /\ After(s, done, ParseBytes(s.mem, p))
              /\ ~done.ok => done.mem[p + 1] = s.mem[p + 1]
    BY <2>1, <2>3, LineRead
  <2>5. DOMAIN mem = D /\ DOMAIN View(mem) = 0 .. story.length - 1 /\ t \in Nat /\ p \in Nat
    BY <2>1, <2>3, ViewTyped DEF Memories
  <2>6. TextBytes(mem, t) \subseteq texts
    <3>1. CASE t < story.length
      <4>1. t \in DOMAIN View(mem)
        BY <2>1, <2>5, <3>1
      <4>2. PICK n : n = View(mem)[t]
        OBVIOUS
      <4>3. n \in Int
        <5>1. n \in Byte
          BY <2>1, <2>5, <4>1, <4>2, ViewTyped DEF Memories
        <5> QED BY <5>1 DEF Byte
      <4>4. TextBytes(mem, t) = t + 1 .. t + n /\ texts = (t .. t + n) \ {t}
        BY <3>1, <4>1, <4>2 DEF TextBytes, TextArea
      <4>5. t + 1 .. t + n \subseteq (t .. t + n) \ {t}
        BY <2>5, <4>3
      <4> QED BY <4>4, <4>5
    <3>2. CASE ~(t < story.length)
      BY <3>2 DEF TextBytes
    <3> QED BY <3>1, <3>2
  <2>7. \A a \in changed : a \in texts \/ (a \in D /\ done.mem[a] # s.mem[a])
    BY <2>3, <2>4, <2>5, <2>6
  <2>8. CASE done.mem = s.mem
    <3>1. changed \subseteq texts
      BY <2>7, <2>8
    <3> HIDE DEF changed, texts, blocks
    <3>2. read'.text = t /\ read'.parse = p
      BY <2>3
    <3> QED BY <3>1, <3>2 DEF changed, texts, blocks
  <2>9. CASE /\ p \in D
             /\ After(s, done, ParseBytes(s.mem, p))
             /\ ~done.ok => done.mem[p + 1] = s.mem[p + 1]
    <3>1. PICK q : q = s.mem[p]
      OBVIOUS
    <3>2. p \notin ParseBytes(s.mem, p)
      BY <2>5 DEF ParseBytes, BlockBytes, ParseHeader
    <3>3. mem'[p] = q /\ q \in Nat
      <4>1. done.mem[p] = s.mem[p]
        BY <2>9, <3>2 DEF After
      <4>2. done.mem[p] \in Byte
        BY <2>4, <2>9 DEF Storage
      <4> QED BY <2>3, <3>1, <4>1, <4>2 DEF Byte
    <3>4. ParseBytes(s.mem, p) \subseteq blocks
      <4>1. ParseBytes(s.mem, p) = {p + 1} \cup (p + 2 .. p + 2 + q * 4 - 1)
        BY <3>1 DEF ParseBytes, BlockBytes, ParseHeader, ParseEntry
      <4>2. blocks = (p .. p + 2 + 4 * q - 1) \ {p}
        BY <3>3 DEF ParseArea, ParseHeader, ParseEntry
      <4>3. {p + 1} \cup (p + 2 .. p + 2 + q * 4 - 1) \subseteq (p .. p + 2 + 4 * q - 1) \ {p}
        BY <2>5, <3>3
      <4> QED BY <4>1, <4>2, <4>3
    <3>5. changed \subseteq texts \cup blocks
      BY <2>7, <2>9, <3>4 DEF After
    <3>6. read'.text = t /\ read'.parse = p /\ (read'.status = "refused" => ~done.ok)
      BY <2>3
    <3>7. ~done.ok => p + 1 \notin changed \ texts
      BY <2>7, <2>9
    <3> HIDE DEF changed, texts, blocks
    <3>8. p \in DOMAIN mem
      BY <2>5, <2>9
    <3> QED BY <3>5, <3>6, <3>7, <3>8 DEF changed, texts, blocks
  <2> QED BY <2>4, <2>8, <2>9
<1>2. LineInv /\ [LineNext]_lineVars => [P]_lineVars
  BY <1>1
<1> QED BY <1>2, LineInvariant, PTL DEF LineSpec, OnlyBuffersWritten

-----------------------------------------------------------------------------
(* What a story finds after sread.                                         *)

\* ParseDescribesText of a memory m, v being the view of it.
AreaIn(v, t) == IF t \in DOMAIN v THEN t .. t + v[t] ELSE {}

EntrySays(v, table, entry, zchars) ==
    IF entry = 0
    THEN Sorted(v, table) =>
           \A j \in 0 .. table.count - 1 : EntryZChars(v, table, j) # zchars
    ELSE \E j \in 0 .. table.count - 1 :
           /\ EntryAddress(table, j) = entry
           /\ EntryZChars(v, table, j) = zchars

BlockDescribes(m, v, table, text, b, w) ==
    /\ m[b + 2] = w[2] - w[1] + 1
    /\ m[b + 3] = w[1]
    /\ EntrySays(v, table, WordAt(m, b), EncodeDictionaryWord(SubSeq(text, w[1], w[2])))

WordsDescribed(m, v, table, text, p, words, count) ==
    /\ count = Min({Cardinality(words), m[p]})
    /\ \A k \in 1 .. count :
          \E w \in words :
             /\ Cardinality({x \in words : x[1] < w[1]}) = k - 1
             /\ BlockDescribes(m, v, table, text, p + ParseHeader + (k - 1) * ParseEntry, w)

Described(m, v, d, t, p) ==
    LET text == TextRead(m, t, v[t])
        table == DictionaryHeader(v, d)
    IN  WordsDescribed(m, v, table, text, p, WordsOf(text, table.separators), m[p + 1])

\* The look-up says it in any memory, of a dictionary in static memory.
LEMMA EntryTold ==
  ASSUME StoryOK, story.dictionary >= story.staticBase,
         NEW table, table = DictionaryHeader(story.image, story.dictionary),
         NEW m \in [0 .. story.staticBase - 1 -> Byte],
         NEW z \in Entry, NEW found, found = LookupDictionaryWord(story.image, table, z)
  PROVE  EntrySays(View(m), table, found.entry, z)
<1>1. PICK u, v : u = story.image /\ v = View(m)
  OBVIOUS
<1>2. \A j \in 0 .. table.count - 1 : EntryZChars(v, table, j) = EntryZChars(u, table, j)
  BY <1>1, StaticDictionary
<1>3. /\ found.entry = 0 /\ Sorted(u, table) =>
            \A j \in 0 .. table.count - 1 : EntryZChars(u, table, j) # z
      /\ found.entry # 0 =>
            \E j \in 0 .. table.count - 1 :
               EntryAddress(table, j) = found.entry /\ EntryZChars(u, table, j) = z
  BY <1>1, LookupSays
<1>4. Sorted(v, table) => Sorted(u, table)
  BY <1>2 DEF Sorted
<1>5. CASE found.entry = 0
  BY <1>1, <1>2, <1>3, <1>4, <1>5 DEF EntrySays
<1>6. CASE found.entry # 0
  BY <1>1, <1>2, <1>3, <1>6 DEF EntrySays
<1> QED BY <1>5, <1>6

LEMMA ReadDescribes ==
  ASSUME StoryOK, story.dictionary >= story.staticBase,
         mem \in [0 .. story.staticBase - 1 -> Byte],
         NEW line \in Lines, NEW t \in Nat, NEW p \in Nat,
         NEW s, s = StoreInputLine(t, line),
         NEW letters, letters = IF s.ok THEN Letters(line, View(mem)[t]) ELSE <<>>,
         NEW done, done = TokeniseInput(s, p, letters), done.ok,
         NEW m, m = done.mem, NEW v, v = View(m),
         AreaIn(v, t) \cap ParseArea(p, m[p]) = {}
  PROVE  Described(m, v, story.dictionary, t, p)
<1>1. PICK base, d, size, q, table :
         /\ base = story.staticBase /\ d = story.dictionary /\ size = View(mem)[t] /\ q = s.mem[p]
         /\ table = DictionaryHeader(story.image, story.dictionary)
  OBVIOUS
<1>2. base \in Nat /\ story.length \in Nat /\ base <= story.length
  BY <1>1 DEF StoryOK
<1>3. s \in Storage /\ \A a \in (0 .. base - 1) \ TextBytes(mem, t) : s.mem[a] = mem[a]
  BY <1>1, LineStored DEF After
<1>4. s.ok
  <2> SUFFICES ASSUME ~s.ok PROVE FALSE
    OBVIOUS
  <2>1. done = [s EXCEPT !.ok = FALSE]
    BY DEF TokeniseInput
  <2>2. ~done.ok
    BY <1>3, <2>1 DEF Storage
  <2> QED BY <2>2
<1>5. /\ size \in Byte /\ size >= 2 /\ t + size < base
      /\ letters \in Seq(Typed) /\ Len(letters) < size
      /\ TextBytes(mem, t) = t + 1 .. t + size
      /\ LettersAt(s.mem, t, letters)
  <2>1. letters = Letters(line, size)
    BY <1>1, <1>4
  <2> QED BY <1>1, <1>4, <2>1, LineContents
<1>6. size \in Nat /\ size < ByteLimit /\ t \in 0 .. base - 1 /\ t + 1 .. t + size \subseteq 0 .. base - 1
  <2>1. size \in Nat /\ size < ByteLimit
    BY <1>5, Bytes DEF Byte
  <2> QED BY <1>2, <1>5, <2>1
<1>7. letters \in Seq(Byte) /\ Len(letters) < ByteLimit
  <2>1. letters \in Seq(Byte) /\ Len(letters) \in Nat
    BY <1>5, TypedBytes
  <2> QED BY <1>5, <1>6, <2>1, Bytes
<1>8. PICK words, found, count : /\ words = SplitInputWords(letters, table.separators)
                                 /\ found = Lookups(table, words)
                                 /\ count = Min({Len(words), View(s.mem)[p]})
  OBVIOUS
<1>9. /\ done \in Storage /\ ParseBufferFits(s.mem, p)
      /\ After(s, done, ParseBytes(s.mem, p))
      /\ m[p + 1] = count
      /\ Held(m, p, count, words, found)
  <2>1. table = DictionaryHeader(story.image, story.dictionary)
    BY <1>1
  <2>2. Tokenised(s, done, p, words, found, count)
    BY <1>3, <1>7, <1>8, <2>1, TokenisedExact
  <2> QED BY <2>2 DEF Tokenised
<1>10. /\ m \in [0 .. base - 1 -> Byte] /\ s.mem \in [0 .. base - 1 -> Byte] /\ mem \in [0 .. base - 1 -> Byte]
  BY <1>1, <1>3, <1>9 DEF Storage
<1>11. p \in 0 .. base - 1 /\ p \notin ParseBytes(s.mem, p)
  <2>1. p + 2 <= base
    BY <1>1, <1>9 DEF ParseBufferFits, ParseHeader, Writable, Lies
  <2> QED BY <1>2, <2>1 DEF ParseBytes, BlockBytes, ParseHeader
<1>12. m[p] = q /\ q \in Nat /\ View(s.mem)[p] = q
  <2>1. m[p] = q
    BY <1>1, <1>9, <1>11 DEF After
  <2>2. q \in Nat
    <3>1. q \in Byte
      BY <1>1, <1>10, <1>11
    <3> QED BY <3>1 DEF Byte
  <2>3. View(s.mem)[p] = s.mem[p]
    BY <1>1, <1>10, <1>11, ViewTyped
  <2> QED BY <1>1, <2>1, <2>2, <2>3
<1>13. ParseBytes(s.mem, p) \subseteq ParseArea(p, q)
  <2>1. ParseBytes(s.mem, p) = {p + 1} \cup (p + 2 .. p + 2 + q * 4 - 1)
    BY <1>1 DEF ParseBytes, BlockBytes, ParseHeader, ParseEntry
  <2>2. ParseArea(p, q) = p .. p + 2 + 4 * q - 1
    BY DEF ParseArea, ParseHeader, ParseEntry
  <2>3. {p + 1} \cup (p + 2 .. p + 2 + q * 4 - 1) \subseteq p .. p + 2 + 4 * q - 1
    BY <1>12
  <2> QED BY <2>1, <2>2, <2>3
<1>14. /\ \A a \in 0 .. base - 1 : v[a] = m[a] /\ a \in DOMAIN v
       /\ t \in DOMAIN v /\ v[t] = m[t]
  <2>1. v \in Memories(story.length) /\ \A a \in 0 .. base - 1 : v[a] = m[a] /\ a \in 0 .. story.length - 1
    BY <1>1, <1>10, ViewTyped
  <2> QED BY <1>6, <2>1 DEF Memories
<1>15. AreaIn(v, t) \cap ParseBytes(s.mem, p) = {} /\ AreaIn(v, t) = t .. t + v[t]
  BY <1>12, <1>13, <1>14 DEF AreaIn
<1>16. m[t] = size
  <2>1. m[t] \in Nat
    <3>1. m[t] \in Byte
      BY <1>6, <1>10
    <3> QED BY <3>1 DEF Byte
  <2>2. t \in AreaIn(v, t)
    BY <1>14, <1>15, <2>1
  <2>3. m[t] = s.mem[t]
    BY <1>1, <1>6, <1>9, <1>15, <2>2 DEF After
  <2>4. s.mem[t] = mem[t]
    <3>1. t \notin t + 1 .. t + size
      OBVIOUS
    <3> QED BY <1>3, <1>5, <1>6, <3>1
  <2>5. size = mem[t]
    BY <1>1, <1>6, <1>10, ViewTyped
  <2> QED BY <2>3, <2>4, <2>5
<1>17. \A a \in t + 1 .. t + size : m[a] = s.mem[a]
  <2> SUFFICES ASSUME NEW a \in t + 1 .. t + size PROVE m[a] = s.mem[a]
    OBVIOUS
  <2>1. a \in 0 .. base - 1
    BY <1>6
  <2>2. a \in t .. t + v[t]
    BY <1>6, <1>14, <1>16
  <2>3. a \notin ParseBytes(s.mem, p)
    BY <1>15, <2>2
  <2> QED BY <1>1, <1>9, <2>1, <2>3 DEF After
<1>18. LettersAt(m, t, letters)
  <2>1. PICK n : n = Len(letters)
    OBVIOUS
  <2>2. n \in Nat /\ n < size
    BY <1>5, <2>1, TypedBytes
  <2>3. \A i \in 1 .. n : t + i \in t + 1 .. t + size
    BY <1>6, <2>2
  <2>4. t + n + 1 \in t + 1 .. t + size
    BY <1>6, <2>2
  <2>5. (\A i \in 1 .. n : s.mem[t + i] = letters[i]) /\ s.mem[t + n + 1] = 0
    BY <1>5, <2>1 DEF LettersAt
  <2>6. (\A i \in 1 .. n : m[t + i] = letters[i]) /\ m[t + n + 1] = 0
    BY <1>17, <2>3, <2>4, <2>5
  <2> QED BY <2>1, <2>6 DEF LettersAt
<1>19. TextRead(m, t, v[t]) = letters
  <2>1. letters \in Seq(Typed) /\ Len(letters) < size /\ size \in Nat /\ v[t] = size
    BY <1>5, <1>6, <1>14, <1>16
  <2>2. TextRead(m, t, size) = letters
    BY <1>18, <2>1, LineReadBack
  <2> QED BY <2>1, <2>2
<1>20. DictionaryHeader(v, d) = table
  BY <1>1, <1>10, StaticDictionary
<1>21. PICK T : T = WordsOf(letters, table.separators)
  OBVIOUS
<1>22. words \in Seq(Piece(letters)) /\ Listing(words, letters, T)
  BY <1>7, <1>8, <1>21, SplitExact
<1>23. /\ Cardinality(T) = Len(words)
       /\ \A k \in 1 .. Len(words) : Cardinality({x \in T : x[1] < words[k].start}) = k - 1
  <2>1. Counts(words, T)
    BY <1>7, <1>22, ListingCounts
  <2> QED BY <2>1 DEF Counts
<1>24. count = Min({Cardinality(T), m[p]})
  BY <1>8, <1>12, <1>23
<1>25. Len(words) \in Nat /\ count \in Nat /\ count <= Len(words)
  <2>1. PICK l : l = Len(words)
    OBVIOUS
  <2>2. l \in Nat
    BY <1>22, <2>1
  <2>3. count = IF l <= q THEN l ELSE q
    BY <1>8, <1>12, <2>1, <2>2, MinOfTwo
  <2> QED BY <1>12, <2>1, <2>2, <2>3
<1>26. ASSUME NEW k \in 1 .. count
       PROVE  \E w \in T :
                /\ Cardinality({x \in T : x[1] < w[1]}) = k - 1
                /\ BlockDescribes(m, v, table, letters, p + ParseHeader + (k - 1) * ParseEntry, w)
  <2>1. k \in 1 .. Len(words)
    BY <1>25
  <2>2. PICK w, x, b : w = Place(words[k]) /\ x = words[k] /\ b = Block(p, k)
    OBVIOUS
  <2>3. w \in T /\ x.text = SubSeq(letters, w[1], w[2])
    BY <1>22, <2>1, <2>2 DEF Listing
  <2>4. x \in Piece(letters)
    BY <1>22, <2>1, <2>2, ElementOfSeq
  <2>5. x.text \in Seq(Byte) /\ x.start \in Nat /\ Len(x.text) \in Nat
    <3>1. x.text \in Seq(Byte) /\ x.start \in 1 .. Len(letters)
      BY <2>4 DEF Piece
    <3> QED BY <3>1
  <2>6. w[1] = x.start /\ w[2] - w[1] + 1 = Len(x.text)
    <3>1. PICK f, l : f = x.start /\ l = x.start + Len(x.text) - 1
      OBVIOUS
    <3>2. w = <<f, l>>
      BY <2>2, <3>1 DEF Place
    <3>3. w[1] = f /\ w[2] = l
      BY <3>2
    <3> QED BY <2>5, <3>1, <3>3
  <2>7. Cardinality({y \in T : y[1] < w[1]}) = k - 1
    BY <1>23, <2>1, <2>2, <2>6
  <2>8. /\ WordAt(m, b) = found[k].entry /\ m[b + 2] = Len(x.text) /\ m[b + 3] = x.start
    BY <1>9, <2>2 DEF Held, BlockHolds
  <2>9. PICK f, z : f = found[k] /\ z = EncodeDictionaryWord(x.text)
    OBVIOUS
  <2>10. f = LookupDictionaryWord(story.image, table, z)
    BY <1>8, <2>1, <2>2, <2>9 DEF Lookups
  <2>11. z \in Entry
    BY <2>5, <2>9, WordEncoded
  <2>12. EntrySays(v, table, f.entry, z)
    BY <1>1, <1>10, <2>10, <2>11, EntryTold
  <2>13. BlockDescribes(m, v, table, letters, b, w)
    BY <2>3, <2>6, <2>8, <2>9, <2>12 DEF BlockDescribes
  <2>14. b = p + ParseHeader + (k - 1) * ParseEntry
    BY <2>2 DEF Block
  <2> QED BY <2>3, <2>7, <2>13, <2>14
<1>27. WordsDescribed(m, v, table, letters, p, T, count)
  BY <1>24, <1>26 DEF WordsDescribed
<1>28. Described(m, v, d, t, p) <=> WordsDescribed(m, v, table, letters, p, T, count)
  BY <1>9, <1>19, <1>20, <1>21, Zenon DEF Described
<1> QED BY <1>1, <1>27, <1>28

\* ParseDescribesText of the last sread r, in the memory m and the view v of it.
Describing(m, v, base, d, r) ==
    (r.status = "done" /\ d >= base /\ AreaIn(v, r.text) \cap ParseArea(r.parse, m[r.parse]) = {})
       => Described(m, v, d, r.text, r.parse)

LEMMA DescribingIs ==
  ParseDescribesText <=> Describing(mem, View(mem), story.staticBase, story.dictionary, read)
BY DEF ParseDescribesText, Describing, Described, WordsDescribed, BlockDescribes, EntrySays,
       AreaIn, TextArea, TextRead, TextIn

LEMMA DescribingWillBe ==
  ParseDescribesText' <=> Describing(mem', View(mem)', story.staticBase', story.dictionary', read')
BY DEF ParseDescribesText, Describing, Described, WordsDescribed, BlockDescribes, EntrySays,
       AreaIn, TextArea, TextRead, TextIn

LEMMA SameView ==
  ASSUME story' = story, NEW m, m = mem'
  PROVE  View(mem)' = View(m)
BY DEF View

\* Whatever line is read into whatever buffers, of any story that LoadStory
\* accepts with its dictionary in static memory: what the story finds in the
\* parse buffer describes what it finds in the text buffer, and keeps doing so
\* until it stores something.
THEOREM ParseAlwaysDescribes == LineSpec => []ParseDescribesText
<1>1. LineInit => ParseDescribesText
  BY DEF LineInit, NothingRead, ParseDescribesText
<1>2. ASSUME LineInv, ParseDescribesText, [LineNext]_lineVars
      PROVE  ParseDescribesText'
  <2>1. StoryOK /\ LineTypeOK /\ mem \in [0 .. story.staticBase - 1 -> Byte]
    BY <1>2 DEF LineInv, LineTypeOK
  <2>2. story' = story
    BY <1>2 DEF LineNext, Supply, StoryStores, SRead, SReadMisused, lineVars
  <2>3. CASE mem' = mem /\ read' = read
    <3>1. View(mem)' = View(mem)
      BY <2>2, <2>3 DEF View
    <3>2. Describing(mem, View(mem), story.staticBase, story.dictionary, read)
      BY <1>2, DescribingIs
    <3>3. Describing(mem', View(mem)', story.staticBase', story.dictionary', read')
      BY <2>2, <2>3, <3>1, <3>2
    <3> QED BY <3>3, DescribingWillBe
  <2>4. CASE read'.status # "done"
    <3>1. Describing(mem', View(mem)', story.staticBase', story.dictionary', read')
      BY <2>4 DEF Describing
    <3> QED BY <3>1, DescribingWillBe
  <2>5. CASE SRead /\ read'.status = "done"
    <3>1. PICK t, p, s, letters, done :
            /\ t \in Nat /\ p \in Nat
            /\ input \in Lines
            /\ s = StoreInputLine(t, input)
            /\ letters = IF s.ok THEN Letters(input, View(mem)[t]) ELSE <<>>
            /\ done = TokeniseInput(s, p, letters)
            /\ mem' = done.mem
            /\ read' = [status |-> IF done.ok THEN "done" ELSE "refused",
                        text |-> t, parse |-> p, line |-> input]
      BY <2>1, <2>5, ReadOperands
    <3>2. done.ok /\ read'.text = t /\ read'.parse = p
      BY <2>5, <3>1
    <3>3. PICK m, v, r, d, base, line :
            /\ m = done.mem /\ v = View(m) /\ r = read' /\ d = story.dictionary
            /\ base = story.staticBase /\ line = input
      OBVIOUS
    <3>4. mem' = m /\ View(mem)' = v
      BY <2>2, <3>1, <3>3, SameView
    <3>5. ASSUME d >= base, AreaIn(v, t) \cap ParseArea(p, m[p]) = {}
          PROVE  Described(m, v, d, t, p)
      <4>1. story.dictionary >= story.staticBase
        BY <3>3, <3>5
      <4>2. /\ line \in Lines /\ s = StoreInputLine(t, line)
            /\ letters = IF s.ok THEN Letters(line, View(mem)[t]) ELSE <<>>
        BY <3>1, <3>3
      <4>3. Described(m, v, story.dictionary, t, p)
        BY <2>1, <3>1, <3>2, <3>3, <3>5, <4>1, <4>2, ReadDescribes
      <4> QED BY <3>3, <4>3
    <3>6. r.text = t /\ r.parse = p
      BY <3>2, <3>3
    <3>7. Describing(m, v, base, d, r)
      BY <3>5, <3>6 DEF Describing
    <3>8. Describing(mem', View(mem)', story.staticBase', story.dictionary', read')
      BY <2>2, <3>3, <3>4, <3>7
    <3> QED BY <3>8, DescribingWillBe
  <2>6. CASE Supply
    BY <2>3, <2>6 DEF Supply
  <2>7. CASE StoryStores
    BY <2>4, <2>7 DEF StoryStores, NothingRead
  <2>8. CASE SReadMisused
    BY <2>4, <2>8 DEF SReadMisused, NothingRead
  <2>9. CASE UNCHANGED lineVars
    BY <2>3, <2>9 DEF lineVars
  <2>10. CASE SRead
    BY <2>4, <2>5, <2>10
  <2> QED BY <1>2, <2>6, <2>7, <2>8, <2>9, <2>10 DEF LineNext
<1>3. LineInv /\ ParseDescribesText /\ [LineNext]_lineVars => ParseDescribesText'
  BY <1>2
<1> QED BY <1>1, <1>3, LineInvariant, PTL DEF LineSpec

-----------------------------------------------------------------------------
(* What sread needs.                                                       *)

\* The buffers at t and p, and the dictionary, are all that a line needs.
Room(v, base, d, line, t, p) ==
    LET table == DictionaryHeader(v, d)
        words == WordsOf(Letters(line, v[t]), table.separators)
        count == Min({Cardinality(words), v[p]})
    IN  /\ {t, p} \subseteq 0 .. base - 1
        /\ d >= base
        /\ EntryAddress(table, table.count) <= WordLimit
        /\ AreaIn(v, t) \subseteq 0 .. base - 1
        /\ v[t] >= 2
        /\ ParseArea(p, count) \subseteq 0 .. base - 1
        /\ v[p] >= 1
        /\ AreaIn(v, t) \cap ParseArea(p, count) = {}

LEMMA RoomSuffices ==
  ASSUME StoryOK, mem \in [0 .. story.staticBase - 1 -> Byte],
         NEW line \in Lines, NEW t \in Nat, NEW p \in Nat,
         NEW s, s = StoreInputLine(t, line),
         NEW letters, letters = IF s.ok THEN Letters(line, View(mem)[t]) ELSE <<>>,
         NEW done, done = TokeniseInput(s, p, letters),
         NEW v, v = View(mem), Room(v, story.staticBase, story.dictionary, line, t, p)
  PROVE  done.ok
<1>1. PICK base, d, size, q, table :
         /\ base = story.staticBase /\ d = story.dictionary /\ size = v[t] /\ q = v[p]
         /\ table = DictionaryHeader(v, d)
  OBVIOUS
<1>2. PICK typed : typed = Letters(line, size)
  OBVIOUS
<1>3. PICK T : T = WordsOf(typed, table.separators)
  OBVIOUS
<1>4. PICK count : count = Min({Cardinality(T), q})
  OBVIOUS
<1>5. /\ t \in 0 .. base - 1 /\ p \in 0 .. base - 1 /\ d >= base
      /\ EntryAddress(table, table.count) <= WordLimit
      /\ AreaIn(v, t) \subseteq 0 .. base - 1 /\ size >= 2
      /\ ParseArea(p, count) \subseteq 0 .. base - 1 /\ q >= 1
      /\ AreaIn(v, t) \cap ParseArea(p, count) = {}
  BY <1>1, <1>2, <1>3, <1>4 DEF Room
<1>6. base \in Nat /\ story.length \in Nat /\ base <= story.length
  BY <1>1 DEF StoryOK
<1>7. /\ v \in Memories(story.length)
      /\ \A a \in 0 .. base - 1 : v[a] = mem[a] /\ a \in 0 .. story.length - 1
  BY <1>1, ViewTyped
<1>8. size = mem[t] /\ q = mem[p] /\ size \in Byte /\ q \in Byte
  BY <1>1, <1>5, <1>7
<1>9. size \in Nat /\ q \in Nat
  BY <1>8 DEF Byte
<1>10. AreaIn(v, t) = t .. t + size
  BY <1>1, <1>5, <1>7 DEF AreaIn, Memories
<1>11. t + size < base
  <2>1. t + size \in t .. t + size
    BY <1>9
  <2>2. t + size \in 0 .. base - 1
    BY <1>5, <1>10, <2>1
  <2> QED BY <1>6, <2>2
<1>12. s.ok
  <2>1. TextBufferFits(mem, t)
    <3>1. View(mem)[t] = size /\ t < story.length /\ size + 1 >= 3
      BY <1>1, <1>5, <1>6, <1>9
    <3>2. Writable(t, size + 1)
      BY <1>1, <1>6, <1>9, <1>11 DEF Writable, Lies
    <3> QED BY <3>1, <3>2 DEF TextBufferFits, TextBufferMin
  <2>2. PICK l : l = Letters(line, View(mem)[t])
    OBVIOUS
  <2>3. s.ok <=> TextBufferFits(mem, t)
    <3>1. PICK z : z = View(mem)[t]
      OBVIOUS
    <3>2. l = Letters(line, z)
      BY <2>2, <3>1
    <3> QED BY <3>1, <3>2, LineContents
  <2> QED BY <2>1, <2>3
<1>13. letters = typed
  BY <1>1, <1>2, <1>12
<1>14. s \in Storage /\ \A a \in (0 .. base - 1) \ TextBytes(mem, t) : s.mem[a] = mem[a]
  BY <1>1, LineStored DEF After
<1>15. letters \in Seq(Byte) /\ Len(letters) < ByteLimit
  <2>1. letters \in Seq(Typed) /\ Len(letters) <= size - 1
    BY <1>2, <1>5, <1>9, <1>13, LettersTyped
  <2>2. letters \in Seq(Byte) /\ Len(letters) \in Nat
    BY <2>1, TypedBytes
  <2>3. size < ByteLimit
    BY <1>8, Bytes DEF Byte
  <2> QED BY <1>9, <2>1, <2>2, <2>3, Bytes
<1>16. table = DictionaryHeader(story.image, story.dictionary)
  BY <1>1, <1>5, StaticDictionary
<1>17. PICK words, found : words = SplitInputWords(letters, table.separators) /\ found = Lookups(table, words)
  OBVIOUS
<1>18. words \in Seq(Piece(letters)) /\ Listing(words, letters, T)
  BY <1>3, <1>13, <1>15, <1>17, SplitExact
<1>19. Cardinality(T) = Len(words) /\ Len(words) \in Nat
  <2>1. letters \in Seq(Byte)
    BY <1>15
  <2> QED BY <1>18, <2>1, AsManyWords
<1>20. count \in Nat /\ count <= Len(words) /\ count = Min({Len(words), q})
  <2>1. PICK l : l = Len(words)
    OBVIOUS
  <2>2. count = IF l <= q THEN l ELSE q
    BY <1>4, <1>9, <1>19, <2>1, MinOfTwo
  <2> QED BY <1>4, <1>9, <1>19, <2>1, <2>2
<1>21. p + 2 + 4 * count <= base
  <2>1. ParseArea(p, count) = p .. p + 2 + 4 * count - 1
    BY DEF ParseArea, ParseHeader, ParseEntry
  <2>2. p + 2 + 4 * count - 1 \in p .. p + 2 + 4 * count - 1
    BY <1>20
  <2>3. p + 2 + 4 * count - 1 \in 0 .. base - 1
    BY <1>5, <2>1, <2>2
  <2> QED BY <1>6, <1>20, <2>3
<1>22. s.mem[p] = q
  <2>1. p \in ParseArea(p, count)
    BY <1>20 DEF ParseArea, ParseHeader, ParseEntry
  <2>2. p \notin t .. t + size
    BY <1>5, <1>10, <2>1
  <2>3. TextBytes(mem, t) \subseteq t .. t + size
    <3>1. TextBytes(mem, t) = t + 1 .. t + size \/ TextBytes(mem, t) = {}
      BY <1>1 DEF TextBytes
    <3> QED BY <1>9, <3>1
  <2> QED BY <1>5, <1>8, <1>14, <2>2, <2>3
<1>23. View(s.mem)[p] = q
  <2>1. s.mem \in [0 .. story.staticBase - 1 -> Byte]
    BY <1>14 DEF Storage
  <2>2. p \in 0 .. story.staticBase - 1
    BY <1>1, <1>5
  <2> QED BY <1>22, <2>1, <2>2, ViewTyped
<1>24. ParseBufferFits(s.mem, p)
  <2>1. p < story.length /\ 2 + 4 * q >= 6
    BY <1>5, <1>6, <1>9
  <2>2. Writable(p, 2)
    BY <1>1, <1>6, <1>20, <1>21 DEF Writable, Lies
  <2> QED BY <1>23, <2>1, <2>2 DEF ParseBufferFits, ParseHeader, ParseEntry, ParseBufferMin
<1>25. Fit(p, count, found)
  <2> SUFFICES ASSUME NEW k \in 1 .. count
               PROVE  ~found[k].fault /\ BlockFits(Block(p, k))
    BY DEF Fit
  <2>1. k \in 1 .. Len(words) /\ k \in Nat /\ k <= count
    BY <1>19, <1>20
  <2>2. BlockFits(Block(p, k))
    <3>1. p + 2 + (k - 1) * 4 + 4 <= story.staticBase
      BY <1>1, <1>6, <1>20, <1>21, <2>1
    <3> QED BY <3>1 DEF BlockFits, Block, ParseHeader, ParseEntry
  <2>3. PICK x, f, z : x = words[k] /\ f = found[k] /\ z = EncodeDictionaryWord(x.text)
    OBVIOUS
  <2>4. x.text \in Seq(Byte)
    <3>1. x \in Piece(letters)
      BY <1>18, <2>1, <2>3, ElementOfSeq
    <3> QED BY <3>1 DEF Piece
  <2>5. z \in Entry
    BY <2>3, <2>4, WordEncoded
  <2>6. f = LookupDictionaryWord(story.image, table, z)
    BY <1>17, <2>1, <2>3 DEF Lookups
  <2>7. ~f.fault
    BY <1>5, <1>16, <2>5, <2>6, LookupSays
  <2> QED BY <2>2, <2>3, <2>7
<1>26. Tokenised(s, done, p, words, found, count)
  <2>1. count = Min({Len(words), View(s.mem)[p]})
    BY <1>20, <1>23
  <2>2. story.dictionary >= story.staticBase
    BY <1>1, <1>5
  <2> QED BY <1>14, <1>15, <1>16, <1>17, <2>1, <2>2, TokenisedExact
<1> QED BY <1>12, <1>24, <1>25, <1>26 DEF Tokenised

\* Whatever the line, the text in memory and the number that the parse buffer
\* asks for: a line is refused only for a buffer that is too small, lies outside
\* dynamic memory or in the other, or for a dictionary beyond what a word reaches.
THEOREM SreadNotRefusedInVain == LineSpec => NotRefusedInVain
<1> DEFINE P == Reads /\ read'.status = "refused" =>
         LET t == read'.text
             p == read'.parse
             table == DictionaryHeader(View(mem), story.dictionary)
             words == WordsOf(Letters(input, View(mem)[t]), table.separators)
             count == Min({Cardinality(words), View(mem)[p]})
         IN  ~ ( /\ {t, p} \subseteq DOMAIN mem
                 /\ story.dictionary >= story.staticBase
                 /\ EntryAddress(table, table.count) <= WordLimit
                 /\ TextArea(t) \subseteq DOMAIN mem
                 /\ View(mem)[t] >= 2
                 /\ ParseArea(p, count) \subseteq DOMAIN mem
                 /\ View(mem)[p] >= 1
                 /\ TextArea(t) \cap ParseArea(p, count) = {} )
<1>1. ASSUME LineInv, [LineNext]_lineVars
      PROVE  [P]_lineVars
  <2> SUFFICES ASSUME Reads, read'.status = "refused" PROVE P
    OBVIOUS
  <2>1. StoryOK /\ LineTypeOK /\ mem \in [0 .. story.staticBase - 1 -> Byte]
    BY <1>1 DEF LineInv, LineTypeOK
  <2>2. SRead
    BY <1>1 DEF Reads, LineNext, Supply, StoryStores, SReadMisused, lineVars
  <2>3. PICK t, p, s, letters, done :
            /\ t \in Nat /\ p \in Nat
            /\ input \in Lines
            /\ s = StoreInputLine(t, input)
            /\ letters = IF s.ok THEN Letters(input, View(mem)[t]) ELSE <<>>
            /\ done = TokeniseInput(s, p, letters)
            /\ mem' = done.mem
            /\ read' = [status |-> IF done.ok THEN "done" ELSE "refused",
                        text |-> t, parse |-> p, line |-> input]
    BY <2>1, <2>2, ReadOperands
  <2>4. ~done.ok /\ read'.text = t /\ read'.parse = p
    BY <2>3
  <2>5. PICK v, line : v = View(mem) /\ line = input
    OBVIOUS
  <2>6. ~Room(v, story.staticBase, story.dictionary, line, t, p)
    <3>1. /\ line \in Lines /\ s = StoreInputLine(t, line)
          /\ letters = IF s.ok THEN Letters(line, View(mem)[t]) ELSE <<>>
      BY <2>3, <2>5
    <3> QED BY <2>1, <2>3, <2>4, <2>5, <3>1, RoomSuffices
  <2>7. DOMAIN mem = 0 .. story.staticBase - 1
    BY <2>1
  <2>8. TextArea(t) = AreaIn(v, t)
    BY <2>5 DEF TextArea, AreaIn
  <2> QED BY <2>4, <2>5, <2>6, <2>7, <2>8, Zenon DEF Room
<1>2. LineInv /\ [LineNext]_lineVars => [P]_lineVars
  BY <1>1
<1> QED BY <1>2, LineInvariant, PTL DEF LineSpec, NotRefusedInVain
=============================================================================
