-------------------------- MODULE ObjectTreeProofs --------------------------
(***************************************************************************)
(* Proofs about ObjectTree, for every number of objects and every limit on *)
(* a walk that admits the list of all of them.  The links of a tree that   *)
(* only insert_obj and remove_obj have touched chain up lists: the proofs  *)
(* carry the lists along, as a function L from objects to sequences that   *)
(* the invariant says exists.                                              *)
(***************************************************************************)
EXTENDS ObjectTree, SequenceTheorems, FiniteSetTheorems, NumberFacts

-----------------------------------------------------------------------------
\* Lists.

\* The k-th of a list, or the mark of its end.
Nth(s, k) == IF k \in 1 .. Len(s) THEN s[k] ELSE Nothing

\* The list without its i-th, and with one more in front.
TakenOut(s, i) == SubSeq(s, 1, i - 1) \o SubSeq(s, i + 1, Len(s))

InFront(o, s) == <<o>> \o s

LEMMA TakenOutProperties ==
  ASSUME NEW S, NEW s \in Seq(S), NEW i \in 1 .. Len(s)
  PROVE  /\ TakenOut(s, i) \in Seq(S) /\ Len(TakenOut(s, i)) = Len(s) - 1
         /\ \A k \in 1 .. Len(s) - 1 :
               TakenOut(s, i)[k] = IF k < i THEN s[k] ELSE s[k + 1]
<1> DEFINE n == Len(s)
           low == SubSeq(s, 1, i - 1)
           high == SubSeq(s, i + 1, n)
<1>1. n \in Nat /\ i \in Nat /\ 1 <= i /\ i <= n
  BY LenProperties
<1>2. \A k \in 1 .. n : s[k] \in S
  BY ElementOfSeq
<1> HIDE DEF n
<1>3. /\ low \in Seq(S) /\ Len(low) = i - 1
      /\ \A k \in 1 .. i - 1 : low[k] = s[k]
  <2>1. \A k \in 1 .. i - 1 : s[k] \in S
    BY <1>1, <1>2
  <2>2. 1 \in Int /\ i - 1 \in Int
    BY <1>1
  <2>3. /\ low \in Seq(S) /\ Len(low) = IF 1 <= i - 1 THEN i - 1 - 1 + 1 ELSE 0
        /\ \A k \in 1 .. i - 1 - 1 + 1 : low[k] = s[1 + k - 1]
    BY <2>1, <2>2, SubSeqProperties
  <2> QED BY <1>1, <2>3
<1>4. /\ high \in Seq(S) /\ Len(high) = n - i
      /\ \A k \in 1 .. n - i : high[k] = s[i + k]
  <2>1. \A k \in i + 1 .. n : s[k] \in S
    BY <1>1, <1>2
  <2>2. i + 1 \in Int /\ n \in Int
    BY <1>1
  <2>3. /\ high \in Seq(S) /\ Len(high) = IF i + 1 <= n THEN n - (i + 1) + 1 ELSE 0
        /\ \A k \in 1 .. n - (i + 1) + 1 : high[k] = s[i + 1 + k - 1]
    BY <2>1, <2>2, SubSeqProperties
  <2> QED BY <1>1, <2>3
<1> HIDE DEF low, high
<1>5. /\ low \o high \in Seq(S) /\ Len(low \o high) = (i - 1) + (n - i)
      /\ \A k \in 1 .. (i - 1) + (n - i) :
            (low \o high)[k] = IF k <= i - 1 THEN low[k] ELSE high[k - (i - 1)]
  <2>1. /\ low \o high \in Seq(S) /\ Len(low \o high) = Len(low) + Len(high)
        /\ \A k \in 1 .. Len(low) + Len(high) :
              (low \o high)[k] = IF k <= Len(low) THEN low[k] ELSE high[k - Len(low)]
    BY <1>3, <1>4, ConcatProperties
  <2>2. Len(low) = i - 1 /\ Len(high) = n - i
    BY <1>3, <1>4
  <2> QED BY <2>1, <2>2
<1>6. (i - 1) + (n - i) = n - 1
  BY <1>1
<1>7. ASSUME NEW k \in 1 .. n - 1
      PROVE  (low \o high)[k] = IF k < i THEN s[k] ELSE s[k + 1]
  <2>1. CASE k < i
    BY <1>1, <1>3, <1>5, <1>6, <2>1
  <2>2. CASE ~(k < i)
    <3>1. ~(k <= i - 1) /\ k - (i - 1) \in 1 .. n - i /\ i + (k - (i - 1)) = k + 1
      BY <1>1, <2>2
    <3>2. (low \o high)[k] = high[k - (i - 1)]
      BY <1>5, <1>6, <3>1
    <3> QED BY <1>4, <2>2, <3>1, <3>2
  <2> QED BY <2>1, <2>2
<1> QED BY <1>5, <1>6, <1>7 DEF TakenOut, low, high, n

LEMMA InFrontProperties ==
  ASSUME NEW S, NEW s \in Seq(S), NEW o \in S
  PROVE  /\ InFront(o, s) \in Seq(S) /\ Len(InFront(o, s)) = Len(s) + 1
         /\ InFront(o, s)[1] = o
         /\ \A k \in 1 .. Len(s) : InFront(o, s)[k + 1] = s[k]
<1>1. /\ <<o>> \in Seq(S) /\ Len(<<o>>) = 1 /\ <<o>>[1] = o /\ Len(s) \in Nat
  BY LenProperties
<1>2. /\ InFront(o, s) \in Seq(S) /\ Len(InFront(o, s)) = 1 + Len(s)
      /\ \A k \in 1 .. 1 + Len(s) :
            InFront(o, s)[k] = IF k <= 1 THEN <<o>>[k] ELSE s[k - 1]
  BY <1>1, ConcatProperties DEF InFront
<1>3. ASSUME NEW k \in 1 .. Len(s)
      PROVE  InFront(o, s)[k + 1] = s[k]
  <2>1. k + 1 \in 1 .. 1 + Len(s) /\ ~(k + 1 <= 1) /\ k + 1 - 1 = k
    BY <1>1
  <2> QED BY <1>2, <2>1
<1> QED BY <1>1, <1>2, <1>3

\* A list of objects in which none comes twice is no longer than there are
\* objects.
LEMMA ListsAreShort ==
  ASSUME NEW s \in Seq(Object),
         \A i, j \in 1 .. Len(s) : s[i] = s[j] => i = j
  PROVE  Len(s) \in Nat /\ Len(s) <= Held
<1> DEFINE n == Len(s)
<1>1. n \in Nat /\ s \in [1 .. n -> Object]
  BY LenProperties
<1>2. Held \in Nat
  BY ObjectTreeAssumption
<1>3. IsFiniteSet(1 .. n) /\ Cardinality(1 .. n) = n
  <2> HIDE DEF n
  <2> QED BY <1>1, FS_Interval
<1>4. IsFiniteSet(Object) /\ Cardinality(Object) = Held
  BY <1>2, FS_Interval, ObjectTreeAssumption DEF Object
<1>5. ~(Held < n)
  <2> SUFFICES ASSUME Held < n
               PROVE  FALSE
    OBVIOUS
  <2>1. \E i, j \in 1 .. n : i # j /\ s[i] = s[j]
    BY <1>1, <1>3, <1>4, FS_PigeonHole
  <2> QED BY <2>1
<1> QED BY <1>1, <1>2, <1>5

-----------------------------------------------------------------------------
\* Walking along the links.

\* The walk is the function that its recursive definition describes.
LEMMA WalkSteps ==
  ASSUME NEW t \in Tree, NEW first \in Number
  PROVE  /\ Walk(t, first) \in [0 .. ChainLimit -> Number]
         /\ Walk(t, first)[0] = first
         /\ \A k \in 1 .. ChainLimit :
               Walk(t, first)[k] = IF Walk(t, first)[k - 1] \in Object
                                   THEN t.sibling[Walk(t, first)[k - 1]]
                                   ELSE Nothing
<1> DEFINE After(x) == IF x \in Object THEN t.sibling[x] ELSE Nothing
           step == [kx \in Nat \X Number |-> After(kx[2])]
           Steps(at) == [k \in 0 .. ChainLimit |->
                            IF k = 0 THEN first
                            ELSE IF at[k - 1] \in Object THEN t.sibling[at[k - 1]] ELSE Nothing]
<1>1. ChainLimit \in Nat /\ MaxObject \in Nat
  BY ObjectTreeAssumption
<1>2. \A x \in Number : After(x) \in Number
  <2>1. Nothing \in Number /\ t.sibling \in [Object -> Number]
    BY <1>1 DEF Nothing, Number, Tree
  <2> QED BY <2>1
<1> HIDE DEF After
<1>3. step \in [Nat \X Number -> Number]
  BY <1>2
<1>4. \A k \in Nat, x \in Number : step[<<k, x>>] = After(x)
  OBVIOUS
<1> HIDE DEF step
<1>5. PICK f \in [0 .. ChainLimit -> Number] :
         f[0] = first /\ \A k \in 1 .. ChainLimit : f[k] = step[<<k, f[k - 1]>>]
  <2>1. PICK f : Unfolds(f, Number, ChainLimit, first, step)
    BY <1>1, <1>3, RecursionExists
  <2> QED BY <2>1 DEF Unfolds
<1>6. ASSUME NEW k \in 1 .. ChainLimit
      PROVE  f[k] = After(f[k - 1])
  <2>1. k \in Nat /\ k - 1 \in 0 .. ChainLimit
    BY <1>1
  <2>2. f[k - 1] \in Number
    BY <2>1
  <2> QED BY <1>4, <1>5, <2>1, <2>2
<1>7. f = Steps(f)
  BY <1>1, <1>5, <1>6 DEF After
<1>8. Walk(t, first) = CHOOSE at : at = Steps(at)
  BY DEF Walk
<1> DEFINE w == Walk(t, first)
<1>9. w = Steps(w)
  <2> HIDE DEF Steps
  <2> QED BY <1>7, <1>8
<1> HIDE DEF w
<1>10. /\ w[0] = first
       /\ \A k \in 1 .. ChainLimit : w[k] = After(w[k - 1])
       /\ w = [k \in 0 .. ChainLimit |-> w[k]]
  <2>1. 0 \in 0 .. ChainLimit
    BY <1>1
  <2>2. \A k \in 1 .. ChainLimit : k \in 0 .. ChainLimit /\ k # 0
    BY <1>1
  <2> QED BY <1>9, <2>1, <2>2 DEF After
<1> DEFINE S == {k \in Nat : k <= ChainLimit => w[k] \in Number}
<1>11. 0 \in S
  BY <1>10
<1>12. ASSUME NEW k \in Nat, k \in S
       PROVE  k + 1 \in S
  <2> SUFFICES ASSUME k + 1 <= ChainLimit
               PROVE  w[k + 1] \in Number
    OBVIOUS
  <2>1. k + 1 \in 1 .. ChainLimit /\ k <= ChainLimit /\ (k + 1) - 1 = k
    BY <1>1
  <2>2. w[k + 1] = After(w[k]) /\ w[k] \in Number
    BY <1>10, <1>12, <2>1
  <2> QED BY <1>2, <2>2
<1> HIDE DEF S
<1>13. Nat \subseteq S
  BY <1>11, <1>12, SetInduction
<1>14. \A k \in 0 .. ChainLimit : w[k] \in Number
  BY <1>1, <1>13 DEF S
<1>15. w \in [0 .. ChainLimit -> Number]
  BY <1>10, <1>14
<1> QED BY <1>10, <1>15 DEF w, After

-----------------------------------------------------------------------------
\* The lists that the links of a tree chain up.

Listing == [Object -> Seq(Object)]

\* The list of p: its child is the first, the siblings lead on, and none comes
\* twice.
Chained(t, p, s) ==
    /\ t.child[p] = Nth(s, 1)
    /\ \A i \in 1 .. Len(s) : t.parent[s[i]] = p /\ t.sibling[s[i]] = Nth(s, i + 1)
    /\ \A i, j \in 1 .. Len(s) : s[i] = s[j] => i = j

\* An object that is in no list has neither parent nor sibling.
Placed(t, o, L) ==
    \/ t.parent[o] = Nothing /\ t.sibling[o] = Nothing
    \/ t.parent[o] \in Object /\ \E i \in 1 .. Len(L[t.parent[o]]) : L[t.parent[o]][i] = o

Shape(t, L) == (\A p \in Object : Chained(t, p, L[p])) /\ (\A o \in Object : Placed(t, o, L))

LEMMA ObjectFacts ==
  /\ Held \in Nat /\ Held >= 1 /\ ChainLimit \in Nat /\ Held <= ChainLimit
  /\ MaxObject \in Nat /\ Held <= MaxObject
  /\ Nothing \in Number /\ Nothing \notin Object /\ Object \subseteq Number
BY ObjectTreeAssumption DEF Nothing, Number, Object

LEMMA ListOf ==
  ASSUME NEW t \in Tree, NEW L \in Listing, Shape(t, L), NEW p \in Object
  PROVE  /\ L[p] \in Seq(Object) /\ Len(L[p]) \in Nat /\ Len(L[p]) <= Held
         /\ \A i \in 1 .. Len(L[p]) : L[p][i] \in Object
         /\ Chained(t, p, L[p])
<1>1. L[p] \in Seq(Object) /\ Chained(t, p, L[p])
  BY DEF Shape, Listing
<1>2. Len(L[p]) \in Nat /\ Len(L[p]) <= Held
  BY <1>1, ListsAreShort DEF Chained
<1>3. \A i \in 1 .. Len(L[p]) : L[p][i] \in Object
  BY <1>1, ElementOfSeq
<1> QED BY <1>1, <1>2, <1>3

\* The walk from the child of p meets the list of p one by one, and then nothing.
LEMMA WalkMeetsList ==
  ASSUME NEW t \in Tree, NEW L \in Listing, Shape(t, L), NEW p \in Object
  PROVE  \A k \in 0 .. ChainLimit : Walk(t, t.child[p])[k] = Nth(L[p], k + 1)
<1> DEFINE w == Walk(t, t.child[p])
           s == L[p]
           S == {k \in Nat : k <= ChainLimit => w[k] = Nth(s, k + 1)}
<1>1. /\ t.child[p] \in Number
      /\ w[0] = t.child[p]
      /\ \A k \in 1 .. ChainLimit :
            w[k] = IF w[k - 1] \in Object THEN t.sibling[w[k - 1]] ELSE Nothing
  <2>1. t.child[p] \in Number
    BY DEF Tree
  <2> QED BY <2>1, WalkSteps
<1>2. /\ Len(s) \in Nat /\ \A i \in 1 .. Len(s) : s[i] \in Object
      /\ t.child[p] = Nth(s, 1)
      /\ \A i \in 1 .. Len(s) : t.sibling[s[i]] = Nth(s, i + 1)
  <2>1. /\ Len(s) \in Nat /\ (\A i \in 1 .. Len(s) : s[i] \in Object)
        /\ Chained(t, p, s)
    BY ListOf
  <2> QED BY <2>1 DEF Chained
<1> HIDE DEF w, s
<1>3. 0 \in S
  BY <1>1, <1>2
<1>4. ASSUME NEW k \in Nat, k \in S
      PROVE  k + 1 \in S
  <2> SUFFICES ASSUME k + 1 <= ChainLimit
               PROVE  w[k + 1] = Nth(s, k + 1 + 1)
    OBVIOUS
  <2>1. k + 1 \in 1 .. ChainLimit /\ k <= ChainLimit /\ (k + 1) - 1 = k
    BY ObjectFacts
  <2>2. /\ w[k] = Nth(s, k + 1)
        /\ w[k + 1] = IF w[k] \in Object THEN t.sibling[w[k]] ELSE Nothing
    BY <1>1, <1>4, <2>1
  <2>3. CASE k + 1 \in 1 .. Len(s)
    <3>1. w[k] = s[k + 1] /\ w[k] \in Object
      BY <1>2, <2>2, <2>3 DEF Nth
    <3> QED BY <1>2, <2>2, <2>3, <3>1
  <2>4. CASE k + 1 \notin 1 .. Len(s)
    <3>1. w[k] = Nothing /\ w[k] \notin Object
      BY <2>2, <2>4, ObjectFacts DEF Nth
    <3>2. k + 1 + 1 \notin 1 .. Len(s)
      BY <1>2, <2>4
    <3> QED BY <2>2, <3>1, <3>2 DEF Nth
  <2> QED BY <2>3, <2>4
<1>5. Nat \subseteq S
  <2> HIDE DEF S
  <2> QED BY <1>3, <1>4, SetInduction
<1>6. \A k \in 0 .. ChainLimit : w[k] = Nth(s, k + 1)
  BY <1>5, ObjectFacts
<1> QED BY <1>6 DEF w, s

\* The search for the predecessor of the i-th of a list ends at the one before.
LEMMA SearchFinds ==
  ASSUME NEW t \in Tree, NEW L \in Listing, Shape(t, L), NEW p \in Object,
         NEW i \in 2 .. Len(L[p])
  PROVE  /\ SearchEnd(t, t.child[p], L[p][i]) = i - 2
         /\ Walk(t, t.child[p])[i - 2] = L[p][i - 1]
         /\ ~OutOfSteps(i - 2)
<1> DEFINE w == Walk(t, t.child[p])
           s == L[p]
           Ends(k) == \/ w[k] \notin Object \/ OutOfSteps(k)
                      \/ t.sibling[w[k]] = s[i]
<1>1. /\ Len(s) \in Nat /\ Len(s) <= Held /\ \A j \in 1 .. Len(s) : s[j] \in Object
      /\ \A j \in 1 .. Len(s) : t.sibling[s[j]] = Nth(s, j + 1)
      /\ \A j, k \in 1 .. Len(s) : s[j] = s[k] => j = k
  BY ListOf DEF Chained
<1>2. \A k \in 0 .. ChainLimit : w[k] = Nth(s, k + 1)
  BY WalkMeetsList
<1>3. SearchEnd(t, t.child[p], s[i]) =
         CHOOSE k \in 0 .. ChainLimit : Ends(k) /\ \A j \in 0 .. k - 1 : ~Ends(j)
  BY DEF SearchEnd
<1> HIDE DEF w, s
<1>4. i \in 2 .. Len(s)
  BY DEF s
<1>5. ASSUME NEW k \in 0 .. i - 2
      PROVE  /\ k \in 0 .. ChainLimit /\ w[k] = s[k + 1] /\ w[k] \in Object
             /\ ~OutOfSteps(k) /\ t.sibling[w[k]] = s[k + 2]
             /\ k + 2 \in 1 .. Len(s)
  <2>1. k \in 0 .. ChainLimit /\ k + 1 \in 1 .. Len(s) /\ k + 2 \in 1 .. Len(s) /\ k < ChainLimit
    BY <1>1, <1>4, ObjectFacts
  <2>2. w[k] = s[k + 1]
    BY <1>2, <2>1 DEF Nth
  <2>3. t.sibling[s[k + 1]] = s[k + 2]
    <3>1. t.sibling[s[k + 1]] = Nth(s, (k + 1) + 1)
      BY <1>1, <2>1
    <3>2. (k + 1) + 1 = k + 2
      OBVIOUS
    <3> QED BY <2>1, <3>1, <3>2 DEF Nth
  <2>4. ~OutOfSteps(k)
    BY <2>1, ObjectFacts DEF OutOfSteps
  <2> QED BY <1>1, <2>1, <2>2, <2>3, <2>4
<1>6. i - 2 \in 0 .. i - 2 /\ (i - 2) + 1 = i - 1 /\ (i - 2) + 2 = i
  BY <1>1, <1>4
<1>7. Ends(i - 2) /\ i - 2 \in 0 .. ChainLimit
  BY <1>5, <1>6
<1>8. ASSUME NEW j \in 0 .. (i - 2) - 1
      PROVE  ~Ends(j)
  <2>1. j \in 0 .. i - 2 /\ j + 2 # i /\ i \in 1 .. Len(s)
    BY <1>1, <1>4
  <2>2. /\ w[j] \in Object /\ ~OutOfSteps(j) /\ t.sibling[w[j]] = s[j + 2]
        /\ j + 2 \in 1 .. Len(s)
    BY <1>5, <2>1
  <2>3. s[j + 2] # s[i]
    BY <1>1, <2>1, <2>2
  <2> QED BY <2>2, <2>3
<1> HIDE DEF Ends
<1>9. \A k \in 0 .. ChainLimit :
         (Ends(k) /\ \A j \in 0 .. k - 1 : ~Ends(j)) => k = i - 2
  <2> SUFFICES ASSUME NEW k \in 0 .. ChainLimit, Ends(k), \A j \in 0 .. k - 1 : ~Ends(j)
               PROVE  k = i - 2
    OBVIOUS
  <2>1. ~(k < i - 2)
    BY <1>4, <1>8
  <2>2. ~(i - 2 < k)
    BY <1>4, <1>7
  <2> QED BY <1>4, <2>1, <2>2
<1>10. SearchEnd(t, t.child[p], s[i]) = i - 2
  BY <1>3, <1>7, <1>8, <1>9
<1>11. w[i - 2] = s[i - 1] /\ ~OutOfSteps(i - 2)
  BY <1>5, <1>6
<1> QED BY <1>10, <1>11 DEF w, s

-----------------------------------------------------------------------------
\* Taking an object out of the list it is in.

\* The links of u are those of t, with number unlinked from the i-th place of
\* the list s of p.
Unhooked(t, u, p, s, i, number) ==
    /\ u \in Tree
    /\ \A o \in Object :
          /\ u.parent[o] = IF o = number THEN Nothing ELSE t.parent[o]
          /\ u.sibling[o] = IF o = number THEN Nothing
                            ELSE IF i > 1 /\ o = s[i - 1] THEN t.sibling[number]
                            ELSE t.sibling[o]
          /\ u.child[o] = IF i = 1 /\ o = p THEN t.sibling[number] ELSE t.child[o]

\* The tree with one link changed.
WithParent(t, o, value) == [t EXCEPT !.parent[o] = value]

WithSibling(t, o, value) == [t EXCEPT !.sibling[o] = value]

WithChild(t, o, value) == [t EXCEPT !.child[o] = value]

OnlyParent(t, u, o, value) ==
    /\ u \in Tree
    /\ u.sibling = t.sibling
    /\ u.child = t.child
    /\ \A x \in Object : u.parent[x] = IF x = o THEN value ELSE t.parent[x]

LEMMA ParentChange ==
  ASSUME NEW t \in Tree, NEW o \in Object, NEW value \in Number
  PROVE  OnlyParent(t, WithParent(t, o, value), o, value)
<1>1. ASSUME NEW u, u = [t EXCEPT !.parent[o] = value]
      PROVE  OnlyParent(t, u, o, value)
  BY <1>1 DEF Tree, OnlyParent
<1> QED BY <1>1 DEF WithParent

OnlySibling(t, u, o, value) ==
    /\ u \in Tree
    /\ u.parent = t.parent
    /\ u.child = t.child
    /\ \A x \in Object : u.sibling[x] = IF x = o THEN value ELSE t.sibling[x]

LEMMA SiblingChange ==
  ASSUME NEW t \in Tree, NEW o \in Object, NEW value \in Number
  PROVE  OnlySibling(t, WithSibling(t, o, value), o, value)
<1>1. ASSUME NEW u, u = [t EXCEPT !.sibling[o] = value]
      PROVE  OnlySibling(t, u, o, value)
  BY <1>1 DEF Tree, OnlySibling
<1> QED BY <1>1 DEF WithSibling

OnlyChild(t, u, o, value) ==
    /\ u \in Tree
    /\ u.parent = t.parent
    /\ u.sibling = t.sibling
    /\ \A x \in Object : u.child[x] = IF x = o THEN value ELSE t.child[x]

LEMMA ChildChange ==
  ASSUME NEW t \in Tree, NEW o \in Object, NEW value \in Number
  PROVE  OnlyChild(t, WithChild(t, o, value), o, value)
<1>1. ASSUME NEW u, u = [t EXCEPT !.child[o] = value]
      PROVE  OnlyChild(t, u, o, value)
  BY <1>1 DEF Tree, OnlyChild
<1> QED BY <1>1 DEF WithChild

\* u is the tree t without the parent and the sibling of number.
Cleared(t, u, number) ==
    /\ u \in Tree /\ u.child = t.child
    /\ \A x \in Object :
          /\ u.parent[x] = IF x = number THEN Nothing ELSE t.parent[x]
          /\ u.sibling[x] = IF x = number THEN Nothing ELSE t.sibling[x]

LEMMA DetachedLinks ==
  ASSUME NEW t \in Tree, NEW number \in Object
  PROVE  Cleared(t, Detached(t, number), number)
<1>1. Detached(t, number) = WithSibling(WithParent(t, number, Nothing), number, Nothing)
  BY DEF Detached, WithSibling, WithParent
<1> DEFINE v == WithParent(t, number, Nothing)
<1>2. /\ v \in Tree /\ v.sibling = t.sibling /\ v.child = t.child
      /\ \A x \in Object : v.parent[x] = IF x = number THEN Nothing ELSE t.parent[x]
  BY ParentChange, ObjectFacts DEF OnlyParent
<1> HIDE DEF v
<1>3. /\ WithSibling(v, number, Nothing) \in Tree
      /\ WithSibling(v, number, Nothing).parent = v.parent
      /\ WithSibling(v, number, Nothing).child = v.child
      /\ \A x \in Object : WithSibling(v, number, Nothing).sibling[x] =
                            IF x = number THEN Nothing ELSE v.sibling[x]
  BY <1>2, SiblingChange, ObjectFacts, ZenonT(40) DEF OnlySibling
<1>4. Detached(t, number) = WithSibling(v, number, Nothing)
  BY <1>1 DEF v
<1> QED BY <1>2, <1>3, <1>4 DEF Cleared

\* remove_obj on an object in a list never fails and unhooks it there.
LEMMA RemovedFromList ==
  ASSUME NEW t \in Tree, NEW L \in Listing, Shape(t, L), NEW p \in Object,
         NEW i \in 1 .. Len(L[p]), NEW number, number = L[p][i]
  PROVE  /\ Removed(t, number).ending = "done"
         /\ Unhooked(t, Removed(t, number).tree, p, L[p], i, number)
<1> DEFINE s == L[p]
<1>1. /\ Len(s) \in Nat /\ (\A j \in 1 .. Len(s) : s[j] \in Object)
      /\ t.child[p] = Nth(s, 1)
      /\ \A j \in 1 .. Len(s) : t.parent[s[j]] = p
      /\ \A j, k \in 1 .. Len(s) : s[j] = s[k] => j = k
  <2>1. /\ Len(s) \in Nat /\ (\A j \in 1 .. Len(s) : s[j] \in Object)
        /\ Chained(t, p, s)
    BY ListOf
  <2> QED BY <2>1 DEF Chained
<1>2. number = s[i] /\ i \in 1 .. Len(s)
  OBVIOUS
<1>3. i # 1 => /\ SearchEnd(t, t.child[p], number) = i - 2
               /\ Walk(t, t.child[p])[i - 2] = s[i - 1]
               /\ ~OutOfSteps(i - 2)
  <2>1. i # 1 => i \in 2 .. Len(L[p])
    BY <1>1
  <2> QED BY <2>1, SearchFinds
<1> HIDE DEF s
<1>4. number \in Object /\ t.parent[number] = p /\ p # Nothing
  BY <1>1, <1>2, ObjectFacts
<1>5. t.sibling[number] \in Number
  BY <1>4 DEF Tree
<1> DEFINE step == Unlinked(t, p, number, t.sibling[number])
<1>6. /\ step.ending = "done" /\ step.tree \in Tree /\ step.tree.parent = t.parent
      /\ \A o \in Object :
            /\ step.tree.sibling[o] = IF i > 1 /\ o = s[i - 1] THEN t.sibling[number]
                                      ELSE t.sibling[o]
            /\ step.tree.child[o] = IF i = 1 /\ o = p THEN t.sibling[number] ELSE t.child[o]
  <2>1. CASE i = 1
    <3>1. t.child[p] = number
      BY <1>1, <1>2, <2>1 DEF Nth
    <3>2. PICK u : u = WithChild(t, p, t.sibling[number])
      OBVIOUS
    <3>3. step = Done(u)
      BY <3>1, <3>2 DEF Unlinked, WithChild
    <3>4. step.ending = "done" /\ step.tree = u
      BY <3>3 DEF Done
    <3>5. /\ u \in Tree /\ u.parent = t.parent /\ u.sibling = t.sibling
          /\ \A x \in Object : u.child[x] = IF x = p THEN t.sibling[number] ELSE t.child[x]
      BY <1>5, <3>2, ChildChange DEF OnlyChild
    <3> QED BY <2>1, <3>4, <3>5
  <2>2. CASE i # 1
    <3>1. i > 1 /\ i - 1 \in 1 .. Len(s) /\ 1 \in 1 .. Len(s)
      BY <1>1, <1>2, <2>2
    <3>2. t.child[p] # number
      BY <1>1, <1>2, <2>2, <3>1 DEF Nth
    <3>3. s[i - 1] \in Object /\ s[i - 1] # Nothing
      BY <1>1, <3>1, ObjectFacts
    <3>4. PICK u : u = WithSibling(t, s[i - 1], t.sibling[number])
      OBVIOUS
    <3>5. step = Done(u)
      BY <1>3, <2>2, <3>2, <3>3, <3>4 DEF Unlinked, WithSibling
    <3>6. step.ending = "done" /\ step.tree = u
      BY <3>5 DEF Done
    <3>7. /\ u \in Tree /\ u.parent = t.parent /\ u.child = t.child
          /\ \A x \in Object :
                u.sibling[x] = IF x = s[i - 1] THEN t.sibling[number] ELSE t.sibling[x]
      BY <1>5, <3>3, <3>4, SiblingChange DEF OnlySibling
    <3> QED BY <2>2, <3>1, <3>6, <3>7
  <2> QED BY <2>1, <2>2
<1> HIDE DEF step
<1>7. PICK u : u = Detached(step.tree, number)
  OBVIOUS
<1>8. Removed(t, number) = Done(u)
  <2>1. Removed(t, number) =
           IF step.ending = "done" THEN Done(Detached(step.tree, number)) ELSE step
    BY <1>4 DEF Removed, step
  <2> QED BY <1>6, <1>7, <2>1
<1>9. Removed(t, number).ending = "done" /\ Removed(t, number).tree = u
  BY <1>8 DEF Done
<1>10. /\ u \in Tree /\ u.child = step.tree.child
       /\ \A x \in Object :
             /\ u.parent[x] = IF x = number THEN Nothing ELSE step.tree.parent[x]
             /\ u.sibling[x] = IF x = number THEN Nothing ELSE step.tree.sibling[x]
  <2>1. PICK v : v = step.tree
    OBVIOUS
  <2>2. v \in Tree /\ u = Detached(v, number)
    BY <1>6, <1>7, <2>1
  <2>3. /\ u \in Tree /\ u.child = v.child
        /\ \A x \in Object :
              /\ u.parent[x] = IF x = number THEN Nothing ELSE v.parent[x]
              /\ u.sibling[x] = IF x = number THEN Nothing ELSE v.sibling[x]
    <3>1. Cleared(v, u, number)
      BY <1>4, <2>2, DetachedLinks
    <3> QED BY <3>1 DEF Cleared
  <2> QED BY <2>1, <2>3
<1>11. Unhooked(t, u, p, s, i, number)
  BY <1>6, <1>10 DEF Unhooked
<1> QED BY <1>9, <1>11 DEF s

LEMMA NthOfTakenOut ==
  ASSUME NEW S, NEW s \in Seq(S), NEW i \in 1 .. Len(s), NEW k \in Nat \ {0}
  PROVE  Nth(TakenOut(s, i), k) = IF k < i THEN Nth(s, k) ELSE Nth(s, k + 1)
<1> DEFINE n == Len(s)
           r == TakenOut(s, i)
<1>1. n \in Nat /\ i \in 1 .. n /\ Len(r) = n - 1
      /\ \A j \in 1 .. n - 1 : r[j] = IF j < i THEN s[j] ELSE s[j + 1]
  BY LenProperties, TakenOutProperties
<1> SUFFICES Nth(r, k) = IF k < i THEN Nth(s, k) ELSE Nth(s, k + 1)
  OBVIOUS
<1> HIDE DEF r
<1>2. Nth(s, k) = IF k \in 1 .. n THEN s[k] ELSE Nothing
  BY DEF Nth
<1>3. Nth(s, k + 1) = IF k + 1 \in 1 .. n THEN s[k + 1] ELSE Nothing
  BY DEF Nth
<1>4. Nth(r, k) = IF k \in 1 .. n - 1 THEN r[k] ELSE Nothing
  BY <1>1 DEF Nth
<1> HIDE DEF n
<1>5. CASE k < i
  <2>1. k \in 1 .. n /\ k \in 1 .. n - 1
    BY <1>1, <1>5
  <2> QED BY <1>1, <1>2, <1>4, <1>5, <2>1
<1>6. CASE ~(k < i)
  <2>1. k + 1 \in 1 .. n <=> k \in 1 .. n - 1
    BY <1>1, <1>6
  <2> QED BY <1>1, <1>3, <1>4, <1>6, <2>1
<1> QED BY <1>5, <1>6

\* Once unhooked, the list of p is closed over the gap and the others are as
\* they were.
LEMMA UnhookedShape ==
  ASSUME NEW t \in Tree, NEW L \in Listing, Shape(t, L), NEW p \in Object,
         NEW i \in 1 .. Len(L[p]), NEW number, number = L[p][i],
         NEW u, Unhooked(t, u, p, L[p], i, number),
         NEW M, M = [L EXCEPT ![p] = TakenOut(L[p], i)]
  PROVE  M \in Listing /\ Shape(u, M) /\ u.parent[number] = Nothing
<1> DEFINE s == L[p]
           r == TakenOut(s, i)
           n == Len(s)
<1>1. /\ s \in Seq(Object) /\ n \in Nat /\ (\A j \in 1 .. n : s[j] \in Object)
      /\ t.child[p] = Nth(s, 1)
      /\ \A j \in 1 .. n : t.parent[s[j]] = p /\ t.sibling[s[j]] = Nth(s, j + 1)
      /\ \A j, k \in 1 .. n : s[j] = s[k] => j = k
  <2>1. /\ s \in Seq(Object) /\ n \in Nat /\ (\A j \in 1 .. n : s[j] \in Object)
        /\ Chained(t, p, s)
    BY ListOf
  <2> QED BY <2>1 DEF Chained
<1>2. number = s[i] /\ i \in 1 .. n
  OBVIOUS
<1>3. /\ r \in Seq(Object) /\ Len(r) = n - 1
      /\ \A k \in 1 .. n - 1 : r[k] = IF k < i THEN s[k] ELSE s[k + 1]
  <2> HIDE DEF s
  <2> QED BY <1>1, <1>2, TakenOutProperties
<1>4. \A k \in Nat \ {0} : Nth(r, k) = IF k < i THEN Nth(s, k) ELSE Nth(s, k + 1)
  BY <1>1, NthOfTakenOut
<1>5. /\ M \in Listing /\ M[p] = r /\ \A q \in Object \ {p} : M[q] = L[q]
  BY <1>3 DEF Listing
<1>6. /\ u \in Tree
      /\ \A o \in Object :
            /\ u.parent[o] = IF o = number THEN Nothing ELSE t.parent[o]
            /\ u.sibling[o] = IF o = number THEN Nothing
                              ELSE IF i > 1 /\ o = s[i - 1] THEN t.sibling[number]
                              ELSE t.sibling[o]
            /\ u.child[o] = IF i = 1 /\ o = p THEN t.sibling[number] ELSE t.child[o]
  BY DEF Unhooked
<1> HIDE DEF s, r, n
<1>7. /\ number \in Object /\ t.parent[number] = p /\ t.sibling[number] = Nth(s, i + 1)
      /\ p # Nothing
  BY <1>1, <1>2, ObjectFacts
<1>8. i > 1 => i - 1 \in 1 .. n /\ s[i - 1] \in Object /\ t.parent[s[i - 1]] = p
  BY <1>1, <1>2
<1>9. ASSUME NEW q \in Object, q # p
      PROVE  Chained(u, q, M[q])
  <2>1. /\ (\A j \in 1 .. Len(L[q]) : L[q][j] \in Object)
        /\ Chained(t, q, L[q])
    BY ListOf
  <2>2. M[q] = L[q] /\ u.child[q] = t.child[q]
    BY <1>5, <1>6, <1>9
  <2> DEFINE l == L[q]
  <2>3. /\ t.child[q] = Nth(l, 1)
        /\ \A j \in 1 .. Len(l) : t.parent[l[j]] = q /\ t.sibling[l[j]] = Nth(l, j + 1)
        /\ \A j, k \in 1 .. Len(l) : l[j] = l[k] => j = k
        /\ \A j \in 1 .. Len(l) : l[j] \in Object
    BY <2>1 DEF Chained
  <2> HIDE DEF l
  <2>4. ASSUME NEW j \in 1 .. Len(l)
        PROVE  u.parent[l[j]] = q /\ u.sibling[l[j]] = Nth(l, j + 1)
    <3>1. l[j] \in Object /\ t.parent[l[j]] = q /\ t.sibling[l[j]] = Nth(l, j + 1)
      BY <2>3
    <3>2. l[j] # number /\ (i > 1 => l[j] # s[i - 1])
      BY <1>7, <1>8, <1>9, <3>1
    <3> QED BY <1>6, <3>1, <3>2
  <2>5. Chained(u, q, l)
    BY <2>2, <2>3, <2>4 DEF Chained
  <2> QED BY <2>2, <2>5 DEF l
<1>10. Chained(u, p, r)
  <2>1. u.child[p] = Nth(r, 1)
    <3>1. CASE i = 1
      <4>1. u.child[p] = Nth(s, 1 + 1) /\ ~(1 < i)
        BY <1>6, <1>7, <3>1
      <4> QED BY <1>4, <4>1
    <3>2. CASE i # 1
      <4>1. u.child[p] = Nth(s, 1) /\ 1 < i
        BY <1>1, <1>2, <1>6, <3>2
      <4> QED BY <1>4, <4>1
    <3> QED BY <3>1, <3>2
  <2>2. ASSUME NEW j \in 1 .. Len(r)
        PROVE  u.parent[r[j]] = p /\ u.sibling[r[j]] = Nth(r, j + 1)
    <3>1. j \in 1 .. n - 1 /\ j \in Nat \ {0} /\ j + 1 \in Nat \ {0}
      BY <1>1, <1>3
    <3>2. CASE j < i
      <4>1. r[j] = s[j] /\ j \in 1 .. n /\ j # i
        BY <1>1, <1>3, <3>1, <3>2
      <4>2. s[j] # number /\ s[j] \in Object
        BY <1>1, <1>2, <4>1
      <4>3. u.parent[s[j]] = p
        BY <1>1, <1>6, <4>1, <4>2
      <4>4. CASE j = i - 1
        <5>1. i > 1 /\ s[j] = s[i - 1] /\ ~(j + 1 < i) /\ j + 1 = i
          BY <1>2, <1>1, <3>1, <3>2, <4>4
        <5>2. u.sibling[s[j]] = Nth(s, i + 1)
          BY <1>6, <1>7, <4>2, <5>1
        <5>3. Nth(r, j + 1) = Nth(s, i + 1)
          BY <1>4, <3>1, <5>1
        <5> QED BY <4>1, <4>3, <5>2, <5>3
      <4>5. CASE j # i - 1
        <5>1. j + 1 < i /\ (i > 1 => s[j] # s[i - 1])
          BY <1>1, <1>2, <1>8, <3>1, <3>2, <4>1, <4>5
        <5>2. u.sibling[s[j]] = Nth(s, j + 1)
          BY <1>1, <1>6, <4>1, <4>2, <5>1
        <5>3. Nth(r, j + 1) = Nth(s, j + 1)
          BY <1>4, <3>1, <5>1
        <5> QED BY <4>1, <4>3, <5>2, <5>3
      <4> QED BY <4>4, <4>5
    <3>3. CASE ~(j < i)
      <4>1. r[j] = s[j + 1] /\ j + 1 \in 1 .. n /\ j + 1 # i /\ j + 1 # i - 1
            /\ ~(j + 1 < i)
        BY <1>1, <1>2, <1>3, <3>1, <3>3
      <4>2. s[j + 1] # number /\ s[j + 1] \in Object /\ (i > 1 => s[j + 1] # s[i - 1])
        BY <1>1, <1>2, <1>8, <4>1
      <4>3. u.parent[s[j + 1]] = p /\ u.sibling[s[j + 1]] = Nth(s, j + 1 + 1)
        BY <1>1, <1>6, <4>1, <4>2
      <4>4. Nth(r, j + 1) = Nth(s, j + 1 + 1)
        BY <1>4, <3>1, <4>1
      <4> QED BY <4>1, <4>3, <4>4
    <3> QED BY <3>2, <3>3
  <2>3. ASSUME NEW j \in 1 .. Len(r), NEW k \in 1 .. Len(r), r[j] = r[k]
        PROVE  j = k
    <3> DEFINE From(x) == IF x < i THEN x ELSE x + 1
    <3>1. \A x \in 1 .. n - 1 : r[x] = s[From(x)] /\ From(x) \in 1 .. n
      BY <1>1, <1>2, <1>3
    <3>2. From(j) = From(k)
      <4> HIDE DEF From
      <4>1. j \in 1 .. n - 1 /\ k \in 1 .. n - 1
        BY <1>3
      <4>2. s[From(j)] = s[From(k)] /\ From(j) \in 1 .. n /\ From(k) \in 1 .. n
        BY <2>3, <3>1, <4>1
      <4>3. \A x, y \in 1 .. n : s[x] = s[y] => x = y
        BY <1>1
      <4> QED BY <4>2, <4>3
    <3>3. j \in Int /\ k \in Int /\ i \in Int
      BY <1>1, <1>2, <1>3
    <3> QED BY <3>2, <3>3
  <2> QED BY <2>1, <2>2, <2>3 DEF Chained
<1>11. ASSUME NEW o \in Object
       PROVE  Placed(u, o, M)
  <2>1. CASE o = number
    BY <1>6, <2>1 DEF Placed
  <2>2. CASE o # number
    <3>1. Placed(t, o, L) /\ u.parent[o] = t.parent[o]
      BY <1>6, <2>2 DEF Shape
    <3>2. CASE t.parent[o] = Nothing /\ t.sibling[o] = Nothing
      <4>1. i > 1 => o # s[i - 1]
        BY <1>7, <1>8, <3>2
      <4> QED BY <1>6, <2>2, <3>1, <3>2, <4>1 DEF Placed
    <3>3. CASE t.parent[o] \in Object /\ \E k \in 1 .. Len(L[t.parent[o]]) : L[t.parent[o]][k] = o
      <4>1. PICK q \in Object : q = t.parent[o]
        BY <3>3
      <4>2. PICK k \in 1 .. Len(L[q]) : L[q][k] = o
        BY <3>3, <4>1
      <4>3. CASE q # p
        BY <1>5, <3>1, <4>1, <4>2, <4>3 DEF Placed
      <4>4. CASE q = p
        <5>1. k \in 1 .. n /\ s[k] = o /\ k # i
          BY <1>2, <2>2, <4>2, <4>4 DEF s, n
        <5>2. PICK j : j = IF k < i THEN k ELSE k - 1
          OBVIOUS
        <5>3. j \in 1 .. n - 1 /\ r[j] = s[k]
          <6>1. CASE k < i
            BY <1>1, <1>2, <1>3, <5>1, <5>2, <6>1
          <6>2. CASE ~(k < i)
            <7>1. j = k - 1 /\ j \in 1 .. n - 1 /\ ~(j < i) /\ j + 1 = k
              BY <1>1, <1>2, <5>1, <5>2, <6>2
            <7> QED BY <1>3, <7>1
          <6> QED BY <6>1, <6>2
        <5>4. j \in 1 .. Len(M[q]) /\ M[q][j] = o
          BY <1>3, <1>5, <4>4, <5>1, <5>3
        <5> QED BY <3>1, <4>1, <5>4 DEF Placed
      <4> QED BY <4>3, <4>4
    <3> QED BY <3>1, <3>2, <3>3 DEF Placed
  <2> QED BY <2>1, <2>2
<1>12. Shape(u, M)
  <2>1. \A q \in Object : Chained(u, q, M[q])
    BY <1>5, <1>9, <1>10
  <2> QED BY <1>11, <2>1 DEF Shape
<1> QED BY <1>5, <1>6, <1>7, <1>12

-----------------------------------------------------------------------------
\* Putting an object that is in no list in front of one.

\* The links of u are those of t, with number hooked in as the first of q.
Hooked(t, u, number, q) ==
    /\ u \in Tree
    /\ \A x \in Object :
          /\ u.parent[x] = IF x = number THEN q ELSE t.parent[x]
          /\ u.sibling[x] = IF x = number THEN t.child[q] ELSE t.sibling[x]
          /\ u.child[x] = IF x = q THEN number ELSE t.child[x]

LEMMA AttachedLinks ==
  ASSUME NEW t \in Tree, NEW number \in Object, NEW q \in Object
  PROVE  Hooked(t, Attached(t, number, q), number, q)
<1>1. t.child[q] \in Number /\ q \in Number /\ number \in Number
  BY ObjectFacts DEF Tree
<1>2. PICK c \in Number : c = t.child[q]
  BY <1>1
<1>3. PICK v : v = WithSibling(t, number, c)
  OBVIOUS
<1>4. /\ v \in Tree /\ v.parent = t.parent /\ v.child = t.child
      /\ \A x \in Object : v.sibling[x] = IF x = number THEN c ELSE t.sibling[x]
  BY <1>3, SiblingChange DEF OnlySibling
<1>5. PICK w : w = WithChild(v, q, number)
  OBVIOUS
<1>6. /\ w \in Tree /\ w.parent = v.parent /\ w.sibling = v.sibling
      /\ \A x \in Object : w.child[x] = IF x = q THEN number ELSE v.child[x]
  <2>1. OnlyChild(v, w, q, number)
    BY <1>1, <1>4, <1>5, ChildChange
  <2> QED BY <2>1 DEF OnlyChild
<1>7. PICK u : u = WithParent(w, number, q)
  OBVIOUS
<1>8. /\ u \in Tree /\ u.sibling = w.sibling /\ u.child = w.child
      /\ \A x \in Object : u.parent[x] = IF x = number THEN q ELSE w.parent[x]
  <2>1. OnlyParent(w, u, number, q)
    BY <1>1, <1>6, <1>7, ParentChange
  <2> QED BY <2>1 DEF OnlyParent
<1>9. Attached(t, number, q) = u
  BY <1>2, <1>3, <1>5, <1>7 DEF Attached, WithSibling, WithChild, WithParent
<1> QED BY <1>2, <1>4, <1>6, <1>8, <1>9 DEF Hooked

\* The list of q with number in front.
InFrontAt(L, number, q) == [L EXCEPT ![q] = InFront(number, L[q])]

LEMMA AttachedShape ==
  ASSUME NEW t \in Tree, NEW L \in Listing, Shape(t, L), NEW number \in Object,
         t.parent[number] = Nothing, NEW q \in Object,
         NEW u, u = Attached(t, number, q),
         NEW M, M = InFrontAt(L, number, q)
  PROVE  u \in Tree /\ M \in Listing /\ Shape(u, M)
<1> DEFINE s == L[q]
           r == InFront(number, s)
           n == Len(s)
<1>1. /\ u \in Tree
      /\ \A x \in Object :
            /\ u.parent[x] = IF x = number THEN q ELSE t.parent[x]
            /\ u.sibling[x] = IF x = number THEN t.child[q] ELSE t.sibling[x]
            /\ u.child[x] = IF x = q THEN number ELSE t.child[x]
  <2>1. Hooked(t, u, number, q)
    BY AttachedLinks
  <2> QED BY <2>1 DEF Hooked
<1>2. /\ s \in Seq(Object) /\ n \in Nat /\ r \in Seq(Object) /\ Len(r) = n + 1
      /\ r[1] = number /\ \A k \in 1 .. n : r[k + 1] = s[k]
  <2>1. s \in Seq(Object) /\ n \in Nat
    BY ListOf
  <2> HIDE DEF s
  <2> QED BY <2>1, InFrontProperties
<1>3. /\ M \in Listing /\ M[q] = r /\ \A p \in Object \ {q} : M[p] = L[p]
  BY <1>2 DEF Listing, InFrontAt
<1>4. ASSUME NEW p \in Object
      PROVE  /\ t.child[p] = Nth(L[p], 1)
             /\ \A j \in 1 .. Len(L[p]) :
                   /\ L[p][j] \in Object /\ L[p][j] # number
                   /\ t.parent[L[p][j]] = p /\ t.sibling[L[p][j]] = Nth(L[p], j + 1)
             /\ \A j, k \in 1 .. Len(L[p]) : L[p][j] = L[p][k] => j = k
  <2>1. (\A j \in 1 .. Len(L[p]) : L[p][j] \in Object) /\ Chained(t, p, L[p]) /\ p # Nothing
    BY ListOf, ObjectFacts
  <2> QED BY <2>1 DEF Chained
<1>5. ASSUME NEW p \in Object, p # q
      PROVE  Chained(u, p, M[p])
  <2> DEFINE l == L[p]
  <2>1. /\ t.child[p] = Nth(l, 1)
        /\ \A j \in 1 .. Len(l) : /\ l[j] \in Object /\ l[j] # number
                                  /\ t.parent[l[j]] = p /\ t.sibling[l[j]] = Nth(l, j + 1)
        /\ \A j, k \in 1 .. Len(l) : l[j] = l[k] => j = k
    BY <1>4
  <2>2. M[p] = l
    BY <1>3, <1>5
  <2> HIDE DEF l
  <2>3. Chained(u, p, l)
    BY <1>1, <1>5, <2>1 DEF Chained
  <2> QED BY <2>2, <2>3
<1>6. Chained(u, q, r)
  <2>1. /\ t.child[q] = Nth(s, 1)
        /\ \A j \in 1 .. n : /\ s[j] \in Object /\ s[j] # number
                             /\ t.parent[s[j]] = q /\ t.sibling[s[j]] = Nth(s, j + 1)
        /\ \A j, k \in 1 .. n : s[j] = s[k] => j = k
    BY <1>4
  <2> HIDE DEF s, r, n
  <2>2. \A k \in Nat \ {0} : Nth(r, k + 1) = Nth(s, k)
    <3> SUFFICES ASSUME NEW k \in Nat \ {0}
                 PROVE  Nth(r, k + 1) = Nth(s, k)
      OBVIOUS
    <3>1. k + 1 \in 1 .. Len(r) <=> k \in 1 .. n
      BY <1>2
    <3> QED BY <1>2, <3>1 DEF Nth, n
  <2>3. u.child[q] = Nth(r, 1)
    BY <1>1, <1>2 DEF Nth
  <2>4. ASSUME NEW j \in 1 .. Len(r)
        PROVE  u.parent[r[j]] = q /\ u.sibling[r[j]] = Nth(r, j + 1)
    <3>1. CASE j = 1
      <4>1. u.parent[r[j]] = q /\ u.sibling[r[j]] = Nth(s, 1)
        BY <1>1, <1>2, <2>1, <3>1
      <4>2. Nth(r, j + 1) = Nth(s, 1)
        BY <2>2, <3>1
      <4> QED BY <4>1, <4>2
    <3>2. CASE j # 1
      <4>1. PICK k \in 1 .. n : j = k + 1
        <5>1. j - 1 \in 1 .. n /\ j = (j - 1) + 1
          BY <1>2, <3>2
        <5> QED BY <5>1
      <4>2. r[j] = s[k] /\ k + 1 \in Nat \ {0}
        BY <1>2, <4>1
      <4>3. u.parent[s[k]] = q /\ u.sibling[s[k]] = Nth(s, k + 1)
        BY <1>1, <2>1
      <4>4. Nth(r, j + 1) = Nth(s, k + 1)
        BY <2>2, <4>1, <4>2
      <4> QED BY <4>2, <4>3, <4>4
    <3> QED BY <3>1, <3>2
  <2>5. ASSUME NEW j \in 1 .. Len(r), NEW k \in 1 .. Len(r), r[j] = r[k]
        PROVE  j = k
    <3>1. ASSUME NEW x \in 1 .. Len(r), x # 1
          PROVE  x - 1 \in 1 .. n /\ r[x] = s[x - 1] /\ r[x] # number
      <4>1. x - 1 \in 1 .. n /\ (x - 1) + 1 = x
        BY <1>2, <3>1
      <4> QED BY <1>2, <2>1, <4>1
    <3>2. CASE j = 1 \/ k = 1
      BY <1>2, <2>5, <3>1, <3>2
    <3>3. CASE j # 1 /\ k # 1
      <4>1. j - 1 = k - 1
        BY <2>1, <2>5, <3>1, <3>3
      <4>2. j \in Int /\ k \in Int
        BY <1>2
      <4> QED BY <4>1, <4>2
    <3> QED BY <3>2, <3>3
  <2> QED BY <2>3, <2>4, <2>5 DEF Chained
<1>7. ASSUME NEW o \in Object
      PROVE  Placed(u, o, M)
  <2>1. CASE o = number
    <3>1. u.parent[o] = q /\ 1 \in 1 .. Len(M[q]) /\ M[q][1] = o
      BY <1>1, <1>2, <1>3, <2>1
    <3> QED BY <3>1 DEF Placed
  <2>2. CASE o # number
    <3>1. Placed(t, o, L) /\ u.parent[o] = t.parent[o] /\ u.sibling[o] = t.sibling[o]
      BY <1>1, <2>2 DEF Shape
    <3>2. CASE t.parent[o] = Nothing /\ t.sibling[o] = Nothing
      BY <3>1, <3>2 DEF Placed
    <3>3. CASE t.parent[o] \in Object /\ \E k \in 1 .. Len(L[t.parent[o]]) : L[t.parent[o]][k] = o
      <4>1. PICK p \in Object : p = t.parent[o]
        BY <3>3
      <4>2. PICK k \in 1 .. Len(L[p]) : L[p][k] = o
        BY <3>3, <4>1
      <4>3. CASE p # q
        BY <1>3, <3>1, <4>1, <4>2, <4>3 DEF Placed
      <4>4. CASE p = q
        <5>1. k \in 1 .. n /\ s[k] = o
          BY <4>2, <4>4
        <5>2. k + 1 \in 1 .. Len(M[p]) /\ M[p][k + 1] = o
          BY <1>2, <1>3, <4>4, <5>1
        <5> QED BY <3>1, <4>1, <5>2 DEF Placed
      <4> QED BY <4>3, <4>4
    <3> QED BY <3>1, <3>2, <3>3 DEF Placed
  <2> QED BY <2>1, <2>2
<1>8. Shape(u, M)
  <2>1. \A p \in Object : Chained(u, p, M[p])
    BY <1>3, <1>5, <1>6
  <2> QED BY <1>7, <2>1 DEF Shape
<1> QED BY <1>1, <1>3, <1>8

\* An object without a parent is in no list, and taking it out changes nothing.
LEMMA RemovedFromNone ==
  ASSUME NEW t \in Tree, NEW L \in Listing, Shape(t, L), NEW number \in Object,
         t.parent[number] = Nothing
  PROVE  /\ Removed(t, number).ending = "done"
         /\ Removed(t, number).tree \in Tree /\ Shape(Removed(t, number).tree, L)
         /\ Removed(t, number).tree.parent = t.parent
<1>1. t.sibling[number] = Nothing
  BY ObjectFacts DEF Shape, Placed
<1>2. PICK u : u = Detached(t, number)
  OBVIOUS
<1>3. Removed(t, number).ending = "done" /\ Removed(t, number).tree = u
  BY <1>2 DEF Removed, Done
<1>4. /\ u \in Tree /\ u.child = t.child
      /\ \A x \in Object : u.parent[x] = t.parent[x] /\ u.sibling[x] = t.sibling[x]
  BY <1>1, <1>2, DetachedLinks DEF Cleared
<1>5. u.parent = t.parent /\ u.sibling = t.sibling
  BY <1>4 DEF Tree
<1>6. Shape(u, L)
  BY <1>4, <1>5 DEF Shape, Chained, Placed
<1> QED BY <1>3, <1>4, <1>5, <1>6

-----------------------------------------------------------------------------
\* An instruction on any tree, damaged or not.

\* What a step leaves: a tree, the old one if the step was refused.
SoundStep(t, step) ==
    /\ step.tree \in Tree /\ step.ending \in Ending
    /\ step.ending # "done" => step.tree = t

LEMMA FailedLeaves ==
  ASSUME NEW how, NEW t
  PROVE  Failed(how, t).ending = how /\ Failed(how, t).tree = t
BY DEF Failed

LEMMA FailedSound ==
  ASSUME NEW t \in Tree, NEW how \in Ending, how # "done"
  PROVE  SoundStep(t, Failed(how, t))
BY DEF SoundStep, Failed

LEMMA DoneSound ==
  ASSUME NEW t, NEW u \in Tree
  PROVE  SoundStep(t, Done(u))
BY DEF SoundStep, Done, Ending

LEMMA UnlinkedSound ==
  ASSUME NEW t \in Tree, NEW p, NEW number \in Object
  PROVE  SoundStep(t, Unlinked(t, p, number, t.sibling[number]))
<1> DEFINE k == SearchEnd(t, t.child[p], number)
           current == Walk(t, t.child[p])[k]
           successor == t.sibling[number]
<1>1. successor \in Number
  BY DEF Tree
<1> HIDE DEF k, current, successor
<1>2. Unlinked(t, p, number, successor) =
         CASE p \notin Object -> Failed("no such object", t)
           [] p \in Object /\ t.child[p] = number -> Done(WithChild(t, p, successor))
           [] OTHER ->
                CASE current = Nothing -> Failed("not in chain", t)
                  [] current # Nothing /\ OutOfSteps(k) -> Failed("chain too long", t)
                  [] current # Nothing /\ ~OutOfSteps(k) /\ current \notin Object ->
                       Failed("no such object", t)
                  [] OTHER -> Done(WithSibling(t, current, successor))
  BY DEF Unlinked, WithChild, WithSibling, k, current
<1>3. \/ \E how \in {"no such object", "not in chain", "chain too long"} :
            Unlinked(t, p, number, successor) = Failed(how, t)
      \/ p \in Object /\ Unlinked(t, p, number, successor) = Done(WithChild(t, p, successor))
      \/ /\ current \in Object
         /\ Unlinked(t, p, number, successor) = Done(WithSibling(t, current, successor))
  BY <1>2
<1>4. \A how \in {"no such object", "not in chain", "chain too long"} :
         SoundStep(t, Failed(how, t))
  BY FailedSound DEF Ending
<1>5. p \in Object => SoundStep(t, Done(WithChild(t, p, successor)))
  <2> SUFFICES ASSUME p \in Object
               PROVE  SoundStep(t, Done(WithChild(t, p, successor)))
    OBVIOUS
  <2>1. WithChild(t, p, successor) \in Tree
    BY <1>1, ChildChange DEF OnlyChild
  <2> QED BY <2>1, DoneSound
<1>6. current \in Object => SoundStep(t, Done(WithSibling(t, current, successor)))
  <2> SUFFICES ASSUME current \in Object
               PROVE  SoundStep(t, Done(WithSibling(t, current, successor)))
    OBVIOUS
  <2>1. WithSibling(t, current, successor) \in Tree
    BY <1>1, SiblingChange DEF OnlySibling
  <2> QED BY <2>1, DoneSound
<1>7. SoundStep(t, Unlinked(t, p, number, successor))
  BY <1>3, <1>4, <1>5, <1>6
<1> QED BY <1>7 DEF successor

LEMMA RemovedSound ==
  ASSUME NEW t \in Tree, NEW number
  PROVE  SoundStep(t, Removed(t, number))
<1>1. CASE number \notin Object
  <2>1. Removed(t, number) = Failed("no such object", t)
    BY <1>1 DEF Removed
  <2> QED BY <2>1, FailedSound DEF Ending
<1>2. CASE number \in Object
  <2> DEFINE step == IF t.parent[number] = Nothing
                     THEN Done(t)
                     ELSE Unlinked(t, t.parent[number], number, t.sibling[number])
  <2>1. Removed(t, number) =
           IF step.ending = "done" THEN Done(Detached(step.tree, number)) ELSE step
    BY <1>2 DEF Removed
  <2>2. SoundStep(t, step)
    BY <1>2, DoneSound, UnlinkedSound
  <2> HIDE DEF step
  <2>3. CASE step.ending = "done"
    <3>1. PICK v \in Tree : v = step.tree
      BY <2>2 DEF SoundStep
    <3>2. Detached(v, number) \in Tree
      BY <1>2, DetachedLinks DEF Cleared
    <3>3. SoundStep(t, Done(Detached(v, number)))
      BY <3>2, DoneSound
    <3> QED BY <2>1, <2>3, <3>1, <3>3
  <2>4. CASE step.ending # "done"
    BY <2>1, <2>2, <2>4
  <2> QED BY <2>3, <2>4
<1> QED BY <1>1, <1>2

LEMMA InsertedSound ==
  ASSUME NEW t \in Tree, NEW number, NEW p
  PROVE  SoundStep(t, Inserted(t, number, p))
<1>1. CASE number \notin Object \/ p \notin Object
  <2>1. Inserted(t, number, p) = Failed("no such object", t)
    BY <1>1 DEF Inserted
  <2> QED BY <2>1, FailedSound DEF Ending
<1>2. CASE number \in Object /\ p \in Object /\ number = p
  <2>1. Inserted(t, number, p) = Failed("into itself", t)
    BY <1>2 DEF Inserted
  <2> QED BY <2>1, FailedSound DEF Ending
<1>3. CASE number \in Object /\ p \in Object /\ number # p
  <2> DEFINE step == Removed(t, number)
  <2>1. Inserted(t, number, p) =
           IF step.ending = "done" THEN Done(Attached(step.tree, number, p)) ELSE step
    BY <1>3 DEF Inserted
  <2>2. SoundStep(t, step)
    BY RemovedSound
  <2> HIDE DEF step
  <2>3. CASE step.ending = "done"
    <3>1. PICK v \in Tree : v = step.tree
      BY <2>2 DEF SoundStep
    <3>2. Attached(v, number, p) \in Tree
      BY <1>3, AttachedLinks DEF Hooked
    <3>3. SoundStep(t, Done(Attached(v, number, p)))
      BY <3>2, DoneSound
    <3> QED BY <2>1, <2>3, <3>1, <3>3
  <2>4. CASE step.ending # "done"
    BY <2>1, <2>2, <2>4
  <2> QED BY <2>3, <2>4
<1> QED BY <1>1, <1>2, <1>3

-----------------------------------------------------------------------------
\* The same on a tree whose links chain up the lists of L.

\* Every list of L closed over the gap that number leaves.
ClosedOverAll(L, number) == [p \in Object |-> Forest!ClosedOver(L[p], number)]

LEMMA ClosedWhereItIs ==
  ASSUME NEW t \in Tree, NEW L \in Listing, Shape(t, L), NEW p \in Object,
         NEW i \in 1 .. Len(L[p]), NEW number, number = L[p][i]
  PROVE  ClosedOverAll(L, number) = [L EXCEPT ![p] = TakenOut(L[p], i)]
<1>1. \A q \in Object : \A j \in 1 .. Len(L[q]) : t.parent[L[q][j]] = q
  BY ListOf DEF Chained
<1>2. \A j \in 1 .. Len(L[p]) : L[p][j] = number => j = i
  BY ListOf DEF Chained
<1>3. \A q \in Object \ {p} : Forest!ClosedOver(L[q], number) = L[q]
  <2> SUFFICES ASSUME NEW q \in Object \ {p}
               PROVE  Forest!ClosedOver(L[q], number) = L[q]
    OBVIOUS
  <2>1. ~ \E j \in 1 .. Len(L[q]) : L[q][j] = number
    BY <1>1
  <2> QED BY <2>1 DEF Forest!ClosedOver
<1>4. Forest!ClosedOver(L[p], number) = TakenOut(L[p], i)
  <2>1. (CHOOSE j \in 1 .. Len(L[p]) : L[p][j] = number) = i
    BY <1>2
  <2> QED BY <2>1 DEF Forest!ClosedOver, TakenOut
<1> QED BY <1>3, <1>4 DEF ClosedOverAll, Listing

LEMMA ClosedWhereItIsNot ==
  ASSUME NEW t \in Tree, NEW L \in Listing, Shape(t, L), NEW number \in Object,
         t.parent[number] = Nothing
  PROVE  ClosedOverAll(L, number) = L
<1>1. \A q \in Object : \A j \in 1 .. Len(L[q]) : t.parent[L[q][j]] = q
  BY ListOf DEF Chained
<1>2. ASSUME NEW q \in Object
      PROVE  Forest!ClosedOver(L[q], number) = L[q]
  <2>1. ~ \E j \in 1 .. Len(L[q]) : L[q][j] = number
    BY <1>1, ObjectFacts
  <2> QED BY <2>1 DEF Forest!ClosedOver
<1> QED BY <1>2 DEF ClosedOverAll, Listing

\* remove_obj never fails here, and closes the list of the parent.
LEMMA RemovedShape ==
  ASSUME NEW t \in Tree, NEW L \in Listing, Shape(t, L), NEW number \in Object,
         NEW u, u = Removed(t, number).tree
  PROVE  /\ Removed(t, number).ending = "done"
         /\ u \in Tree /\ ClosedOverAll(L, number) \in Listing
         /\ Shape(u, ClosedOverAll(L, number))
         /\ \A x \in Object : u.parent[x] = IF x = number THEN Nothing ELSE t.parent[x]
<1>1. CASE t.parent[number] = Nothing
  <2>1. /\ Removed(t, number).ending = "done" /\ u \in Tree /\ Shape(u, L)
        /\ u.parent = t.parent
    BY <1>1, RemovedFromNone
  <2>2. ClosedOverAll(L, number) = L
    BY <1>1, ClosedWhereItIsNot
  <2> QED BY <1>1, <2>1, <2>2
<1>2. CASE t.parent[number] # Nothing
  <2>1. PICK p \in Object : p = t.parent[number]
    BY <1>2 DEF Shape, Placed
  <2>2. PICK i \in 1 .. Len(L[p]) : L[p][i] = number
    BY <1>2, <2>1 DEF Shape, Placed
  <2>3. /\ Removed(t, number).ending = "done"
        /\ Unhooked(t, u, p, L[p], i, number)
    BY <2>2, RemovedFromList
  <2>4. PICK M : M = [L EXCEPT ![p] = TakenOut(L[p], i)]
    OBVIOUS
  <2>5. M \in Listing /\ Shape(u, M)
    BY <2>2, <2>3, <2>4, UnhookedShape
  <2>6. ClosedOverAll(L, number) = M
    BY <2>2, <2>4, ClosedWhereItIs
  <2>7. /\ u \in Tree
        /\ \A x \in Object : u.parent[x] = IF x = number THEN Nothing ELSE t.parent[x]
    BY <2>3 DEF Unhooked
  <2> QED BY <2>3, <2>5, <2>6, <2>7
<1> QED BY <1>1, <1>2

\* insert_obj on two objects never fails here, and puts one in front of the list
\* of the other.
LEMMA InsertedShape ==
  ASSUME NEW t \in Tree, NEW L \in Listing, Shape(t, L), NEW number \in Object,
         NEW p \in Object, number # p, NEW u, u = Inserted(t, number, p).tree,
         NEW M, M = InFrontAt(ClosedOverAll(L, number), number, p)
  PROVE  /\ Inserted(t, number, p).ending = "done"
         /\ u \in Tree /\ M \in Listing /\ Shape(u, M)
         /\ \A x \in Object : u.parent[x] = IF x = number THEN p ELSE t.parent[x]
<1> DEFINE step == Removed(t, number)
<1> DEFINE D == ClosedOverAll(L, number)
<1>1. PICK v, C : v = step.tree /\ C = D
  OBVIOUS
<1>2. /\ step.ending = "done" /\ v \in Tree /\ C \in Listing /\ Shape(v, C)
      /\ \A x \in Object : v.parent[x] = IF x = number THEN Nothing ELSE t.parent[x]
  <2>1. /\ step.ending = "done" /\ v \in Tree /\ D \in Listing /\ Shape(v, D)
        /\ \A x \in Object : v.parent[x] = IF x = number THEN Nothing ELSE t.parent[x]
    BY <1>1, RemovedShape
  <2> HIDE DEF D, step
  <2> QED BY <1>1, <2>1
<1>3. Inserted(t, number, p) = Done(Attached(v, number, p))
  <2>1. Inserted(t, number, p) =
           IF step.ending = "done" THEN Done(Attached(step.tree, number, p)) ELSE step
    BY ObjectFacts DEF Inserted
  <2> HIDE DEF step
  <2> QED BY <1>1, <1>2, <2>1
<1>4. Inserted(t, number, p).ending = "done" /\ u = Attached(v, number, p)
  BY <1>3 DEF Done
<1>5. M = InFrontAt(C, number, p)
  BY <1>1
<1> HIDE DEF D, step
<1>6. v.parent[number] = Nothing
  BY <1>2
<1>7. u \in Tree /\ M \in Listing /\ Shape(u, M)
  BY <1>2, <1>4, <1>5, <1>6, AttachedShape
<1>8. \A x \in Object : u.parent[x] = IF x = number THEN p ELSE v.parent[x]
  <2>1. Hooked(v, u, number, p)
    BY <1>2, <1>4, AttachedLinks
  <2> QED BY <2>1 DEF Hooked
<1> QED BY <1>2, <1>4, <1>7, <1>8

-----------------------------------------------------------------------------
\* Who holds whom.

\* The sets whose last is the ancestors of number.
Climbs(t, number, up) ==
    /\ up \in [0 .. Held -> SUBSET Number]
    /\ up[0] = {number}
    /\ \A k \in 1 .. Held :
          up[k] = up[k - 1] \cup {t.parent[o] : o \in up[k - 1] \cap Object}
    /\ Ancestors(t, number) = up[Held]

LEMMA AncestorsClimb ==
  ASSUME NEW t \in Tree, NEW number \in Number
  PROVE  \E up : Climbs(t, number, up)
<1> DEFINE Above(x) == x \cup {t.parent[o] : o \in x \cap Object}
           step == [kx \in Nat \X SUBSET Number |-> Above(kx[2])]
           Steps(up) == [k \in 0 .. Held |->
                            IF k = 0 THEN {number}
                            ELSE up[k - 1] \cup {t.parent[o] : o \in up[k - 1] \cap Object}]
<1>1. Held \in Nat /\ {number} \in SUBSET Number
  BY ObjectFacts
<1>2. \A x \in SUBSET Number : Above(x) \in SUBSET Number
  BY DEF Tree
<1> HIDE DEF Above
<1>3. step \in [Nat \X SUBSET Number -> SUBSET Number]
  BY <1>2
<1>4. \A k \in Nat, x \in SUBSET Number : step[<<k, x>>] = Above(x)
  OBVIOUS
<1> HIDE DEF step
<1>5. PICK f : Unfolds(f, SUBSET Number, Held, {number}, step)
  BY <1>1, <1>3, RecursionExists
<1>6. f \in [0 .. Held -> SUBSET Number] /\ f[0] = {number}
  BY <1>5 DEF Unfolds
<1>7. ASSUME NEW k \in 1 .. Held
      PROVE  f[k] = Above(f[k - 1])
  <2>1. k \in Nat /\ k - 1 \in 0 .. Held
    BY <1>1
  <2>2. f[k - 1] \in SUBSET Number
    BY <1>6, <2>1
  <2>3. f[k] = step[<<k, f[k - 1]>>]
    BY <1>5 DEF Unfolds
  <2> QED BY <1>4, <2>1, <2>2, <2>3
<1>8. f = Steps(f)
  BY <1>1, <1>6, <1>7 DEF Above
<1>9. PICK up : up = CHOOSE g : g = Steps(g)
  OBVIOUS
<1>10. up = Steps(up)
  <2> HIDE DEF Steps
  <2> QED BY <1>8, <1>9
<1>11. Ancestors(t, number) = up[Held]
  BY <1>9 DEF Ancestors
<1>12. /\ up[0] = {number}
       /\ \A k \in 1 .. Held : up[k] = Above(up[k - 1])
       /\ up = [k \in 0 .. Held |-> up[k]]
  <2>1. 0 \in 0 .. Held /\ \A k \in 1 .. Held : k \in 0 .. Held /\ k # 0
    BY <1>1
  <2> QED BY <1>10, <2>1 DEF Above
<1> HIDE DEF Steps
<1> DEFINE S == {k \in Nat : k <= Held => up[k] \in SUBSET Number}
<1>13. 0 \in S
  BY <1>1, <1>12
<1>14. ASSUME NEW k \in Nat, k \in S
       PROVE  k + 1 \in S
  <2> SUFFICES ASSUME k + 1 <= Held
               PROVE  up[k + 1] \in SUBSET Number
    OBVIOUS
  <2>1. k + 1 \in 1 .. Held /\ k <= Held /\ (k + 1) - 1 = k
    BY <1>1
  <2>2. up[k + 1] = Above(up[k]) /\ up[k] \in SUBSET Number
    BY <1>12, <1>14, <2>1
  <2> QED BY <1>2, <2>2
<1> HIDE DEF S
<1>15. Nat \subseteq S
  BY <1>13, <1>14, SetInduction
<1>16. \A k \in 0 .. Held : up[k] \in SUBSET Number
  BY <1>1, <1>15 DEF S
<1>17. up \in [0 .. Held -> SUBSET Number]
  BY <1>12, <1>16
<1>18. Climbs(t, number, up)
  BY <1>11, <1>12, <1>17 DEF Climbs, Above
<1> QED BY <1>18

\* The ancestors of number lie in every set that it lies in and that no parent
\* leads out of.
LEMMA AncestorsWithin ==
  ASSUME NEW t \in Tree, NEW number \in Number, NEW S, number \in S,
         \A o \in S \cap Object : t.parent[o] \in S
  PROVE  Ancestors(t, number) \subseteq S
<1>1. PICK up : Climbs(t, number, up)
  BY AncestorsClimb
<1> DEFINE T == {k \in Nat : k <= Held => up[k] \subseteq S}
<1>2. 0 \in T
  BY <1>1 DEF Climbs
<1>3. ASSUME NEW k \in Nat, k \in T
      PROVE  k + 1 \in T
  <2> SUFFICES ASSUME k + 1 <= Held
               PROVE  up[k + 1] \subseteq S
    OBVIOUS
  <2>1. k + 1 \in 1 .. Held /\ k <= Held /\ (k + 1) - 1 = k
    BY ObjectFacts
  <2>2. up[k + 1] = up[k] \cup {t.parent[o] : o \in up[k] \cap Object} /\ up[k] \subseteq S
    BY <1>1, <1>3, <2>1 DEF Climbs
  <2> QED BY <2>2
<1> HIDE DEF T
<1>4. Nat \subseteq T
  BY <1>2, <1>3, SetInduction
<1>5. up[Held] \subseteq S
  BY <1>4, ObjectFacts DEF T
<1> QED BY <1>1, <1>5 DEF Climbs

\* As many steps as there are objects are enough: the ancestors of an ancestor
\* are among them.  For with every step that still adds an object there is one
\* object more.
LEMMA AncestorsClosed ==
  ASSUME NEW t \in Tree, NEW number \in Number,
         NEW o \in Ancestors(t, number) \cap Object
  PROVE  t.parent[o] \in Ancestors(t, number)
<1>1. PICK up : Climbs(t, number, up)
  BY AncestorsClimb
<1>2. Held \in Nat /\ IsFiniteSet(Object) /\ Cardinality(Object) = Held
  BY ObjectFacts, FS_Interval, ObjectTreeAssumption DEF Object
<1> DEFINE Met(k) == up[k] \cap Object
           T == {k \in Nat : k <= Held =>
                    \A x \in Met(k) : t.parent[x] \notin up[k] => Cardinality(Met(k)) >= k + 1}
<1>3. \A k \in 0 .. Held : Met(k) \subseteq Object /\ IsFiniteSet(Met(k))
                           /\ Cardinality(Met(k)) \in Nat /\ Cardinality(Met(k)) <= Held
  <2> SUFFICES ASSUME NEW k \in 0 .. Held
               PROVE  /\ Met(k) \subseteq Object /\ IsFiniteSet(Met(k))
                      /\ Cardinality(Met(k)) \in Nat /\ Cardinality(Met(k)) <= Held
    OBVIOUS
  <2>1. Met(k) \subseteq Object
    OBVIOUS
  <2> HIDE DEF Met
  <2>2. IsFiniteSet(Met(k)) /\ Cardinality(Met(k)) <= Held
    BY <1>2, <2>1, FS_Subset
  <2>3. Cardinality(Met(k)) \in Nat
    BY <2>2, FS_CardinalityType
  <2> QED BY <2>1, <2>2, <2>3
<1>4. 0 \in T
  <2> SUFFICES ASSUME NEW x \in Met(0)
               PROVE  Cardinality(Met(0)) >= 1
    OBVIOUS
  <2>1. Met(0) = {x}
    BY <1>1 DEF Climbs
  <2> QED BY <2>1, FS_Singleton
<1>5. ASSUME NEW k \in Nat, k \in T
      PROVE  k + 1 \in T
  <2> SUFFICES ASSUME k + 1 <= Held, NEW x \in Met(k + 1), t.parent[x] \notin up[k + 1]
               PROVE  Cardinality(Met(k + 1)) >= k + 1 + 1
    OBVIOUS
  <2>1. k + 1 \in 1 .. Held /\ k \in 0 .. Held /\ k + 1 \in 0 .. Held /\ (k + 1) - 1 = k
    BY <1>2
  <2>2. up[k + 1] = up[k] \cup {t.parent[y] : y \in Met(k)}
    BY <1>1, <2>1 DEF Climbs
  <2>3. x \notin up[k] /\ x \in Object
    BY <2>2
  <2>4. PICK y \in Met(k) : x = t.parent[y]
    BY <2>2, <2>3
  <2>5. Cardinality(Met(k)) >= k + 1
    BY <1>5, <2>1, <2>3, <2>4
  <2>6. Met(k) \cup {x} \subseteq Met(k + 1) /\ x \notin Met(k)
    BY <2>2, <2>3
  <2> HIDE DEF Met
  <2>7. Cardinality(Met(k) \cup {x}) = Cardinality(Met(k)) + 1
    BY <1>3, <2>1, <2>6, FS_AddElement
  <2>8. Cardinality(Met(k) \cup {x}) <= Cardinality(Met(k + 1))
    BY <1>3, <2>1, <2>6, FS_Subset
  <2>9. Cardinality(Met(k)) \in Nat /\ Cardinality(Met(k + 1)) \in Nat
    BY <1>3, <2>1
  <2> QED BY <2>5, <2>7, <2>8, <2>9
<1>6. Nat \subseteq T
  <2> HIDE DEF T
  <2> QED BY <1>4, <1>5, SetInduction
<1>7. o \in Met(Held) /\ Ancestors(t, number) = up[Held]
  BY <1>1 DEF Climbs
<1>8. Held \in T
  BY <1>2, <1>6
<1> SUFFICES ASSUME t.parent[o] \notin up[Held]
             PROVE  FALSE
  BY <1>7
<1>9. Cardinality(Met(Held)) >= Held + 1
  BY <1>2, <1>7, <1>8
<1>10. Cardinality(Met(Held)) \in Nat /\ Cardinality(Met(Held)) <= Held
  BY <1>2, <1>3
<1> QED BY <1>2, <1>9, <1>10

LEMMA AncestorsBegin ==
  ASSUME NEW t \in Tree, NEW number \in Number
  PROVE  number \in Ancestors(t, number)
<1>1. PICK up : Climbs(t, number, up)
  BY AncestorsClimb
<1> DEFINE T == {k \in Nat : k <= Held => number \in up[k]}
<1>2. 0 \in T
  BY <1>1 DEF Climbs
<1>3. ASSUME NEW k \in Nat, k \in T
      PROVE  k + 1 \in T
  <2> SUFFICES ASSUME k + 1 <= Held
               PROVE  number \in up[k + 1]
    OBVIOUS
  <2>1. k + 1 \in 1 .. Held /\ k <= Held /\ (k + 1) - 1 = k
    BY ObjectFacts
  <2>2. up[k + 1] = up[k] \cup {t.parent[o] : o \in up[k] \cap Object} /\ number \in up[k]
    BY <1>1, <1>3, <2>1 DEF Climbs
  <2> QED BY <2>2
<1> HIDE DEF T
<1>4. Nat \subseteq T
  BY <1>2, <1>3, SetInduction
<1>5. number \in up[Held]
  BY <1>4, ObjectFacts DEF T
<1> QED BY <1>1, <1>5 DEF Climbs

\* Every object has a rank below which its parent lies: nothing holds itself.
Ranked(t, rank) ==
    /\ rank \in [Object -> Nat]
    /\ \A o \in Object : t.parent[o] \in Object => rank[t.parent[o]] < rank[o]

LEMMA RankedHoldsNotItself ==
  ASSUME NEW t \in Tree, NEW rank, Ranked(t, rank), NEW o \in Object
  PROVE  o \notin Ancestors(t, t.parent[o])
<1> DEFINE S == {x \in Number : x \in Object => rank[x] < rank[o]}
<1>1. t.parent \in [Object -> Number] /\ t.parent[o] \in Number
  BY DEF Tree
<1>2. t.parent[o] \in S
  BY <1>1 DEF Ranked
<1>3. \A x \in S \cap Object : t.parent[x] \in S
  <2> SUFFICES ASSUME NEW x \in S \cap Object
               PROVE  t.parent[x] \in S
    OBVIOUS
  <2>1. t.parent[x] \in Number
    BY <1>1
  <2>2. ASSUME t.parent[x] \in Object
        PROVE  rank[t.parent[x]] < rank[o]
    <3>1. rank[t.parent[x]] < rank[x] /\ rank[x] < rank[o]
      BY <2>2 DEF Ranked
    <3>2. rank[t.parent[x]] \in Nat /\ rank[x] \in Nat /\ rank[o] \in Nat
      BY <2>2 DEF Ranked
    <3> QED BY <3>1, <3>2
  <2> QED BY <2>1, <2>2
<1> HIDE DEF S
<1>4. Ancestors(t, t.parent[o]) \subseteq S
  BY <1>1, <1>2, <1>3, AncestorsWithin
<1>5. o \notin S
  BY DEF S, Ranked
<1> QED BY <1>4, <1>5

\* An object that is not put into one it holds gives rise to no loop: what p is
\* held by keeps its rank, and everything else rises above p.
LEMMA InsertKeepsRank ==
  ASSUME NEW t \in Tree, NEW rank, Ranked(t, rank), NEW number \in Object,
         NEW p \in Object, number \notin Ancestors(t, p), NEW u,
         \A x \in Object : u.parent[x] = IF x = number THEN p ELSE t.parent[x]
  PROVE  \E raised : Ranked(u, raised)
<1> DEFINE A == Ancestors(t, p)
           raised == [x \in Object |-> IF x \in A THEN rank[x] ELSE rank[x] + rank[p] + 1]
<1>1. p \in Number
  BY ObjectFacts
<1>2. p \in A /\ \A o \in A \cap Object : t.parent[o] \in A
  BY <1>1, AncestorsBegin, AncestorsClosed
<1>3. number \notin A
  OBVIOUS
<1> HIDE DEF A
<1>4. /\ rank \in [Object -> Nat] /\ rank[p] \in Nat
      /\ \A o \in Object : t.parent[o] \in Object => rank[t.parent[o]] < rank[o]
  BY DEF Ranked
<1>5. /\ raised \in [Object -> Nat]
      /\ \A x \in Object : raised[x] = IF x \in A THEN rank[x] ELSE rank[x] + rank[p] + 1
  BY <1>4
<1> HIDE DEF raised
<1>6. ASSUME NEW o \in Object, u.parent[o] \in Object
      PROVE  raised[u.parent[o]] < raised[o]
  <2>1. CASE o = number
    <3>1. u.parent[o] = p /\ raised[p] = rank[p] /\ raised[o] = rank[o] + rank[p] + 1
          /\ rank[o] \in Nat
      BY <1>2, <1>3, <1>4, <1>5, <2>1
    <3> QED BY <1>4, <3>1
  <2>2. CASE o # number
    <3>1. PICK q \in Object : q = t.parent[o] /\ q = u.parent[o]
      BY <1>6, <2>2
    <3>2. rank[q] < rank[o] /\ rank[q] \in Nat /\ rank[o] \in Nat
      BY <1>4, <3>1
    <3>3. o \in A => q \in A
      BY <1>2, <3>1
    <3>4. raised[q] < raised[o]
      BY <1>4, <1>5, <3>2, <3>3
    <3> QED BY <3>1, <3>4
  <2> QED BY <2>1, <2>2
<1>7. Ranked(u, raised)
  BY <1>5, <1>6 DEF Ranked
<1> QED BY <1>7

LEMMA RemoveKeepsRank ==
  ASSUME NEW t \in Tree, NEW rank, Ranked(t, rank), NEW number, NEW u,
         \A x \in Object : u.parent[x] = IF x = number THEN Nothing ELSE t.parent[x]
  PROVE  Ranked(u, rank)
BY ObjectFacts DEF Ranked

-----------------------------------------------------------------------------
\* The inductive invariant: as long as the story has not stored into the table,
\* the links chain up lists, no damage has been reported, and, unless an object
\* was put into one that it holds, the parents lead to a root.
Built(t) == \E L \in Listing : Shape(t, L)

Acyclic(t) == \E rank : Ranked(t, rank)

Undamaged == Built(tree) /\ ending \notin {"chain too long", "not in chain"}

IInv ==
    /\ TypeOK
    /\ tampered = 0 => Undamaged
    /\ tampered = 0 /\ ~looped => Acyclic(tree)

\* The list that Children reads off the links is the one they chain up.
ListIn(t, p) ==
    LET at == Walk(t, t.child[p])
        length == CHOOSE k \in 0 .. ChainLimit :
                     at[k] = Nothing /\ \A j \in 0 .. k - 1 : at[j] # Nothing
    IN  [i \in 1 .. length |-> at[i - 1]]

LEMMA ListInIs ==
  ASSUME NEW t \in Tree, NEW L \in Listing, Shape(t, L), NEW p \in Object
  PROVE  ListIn(t, p) = L[p]
<1> DEFINE w == Walk(t, t.child[p])
           s == L[p]
           EndsAt(k) == w[k] = Nothing /\ \A j \in 0 .. k - 1 : w[j] # Nothing
           length == CHOOSE k \in 0 .. ChainLimit : EndsAt(k)
<1>1. /\ s \in Seq(Object) /\ Len(s) \in Nat /\ Len(s) <= Held
      /\ \A i \in 1 .. Len(s) : s[i] \in Object
  BY ListOf
<1>2. \A k \in 0 .. ChainLimit : w[k] = Nth(s, k + 1)
  BY WalkMeetsList
<1>3. ListIn(t, p) = [i \in 1 .. length |-> w[i - 1]]
  BY DEF ListIn
<1> HIDE DEF w, s
<1>4. Len(s) \in 0 .. ChainLimit
  BY <1>1, ObjectFacts
<1>5. \A k \in 0 .. Len(s) - 1 : w[k] = s[k + 1] /\ w[k] # Nothing
  <2> SUFFICES ASSUME NEW k \in 0 .. Len(s) - 1
               PROVE  w[k] = s[k + 1] /\ w[k] # Nothing
    OBVIOUS
  <2>1. k \in 0 .. ChainLimit /\ k + 1 \in 1 .. Len(s)
    BY <1>4, ObjectFacts
  <2>2. w[k] = s[k + 1] /\ s[k + 1] \in Object
    BY <1>1, <1>2, <2>1 DEF Nth
  <2> QED BY <2>2, ObjectFacts
<1>6. w[Len(s)] = Nothing
  <2>1. Len(s) + 1 \notin 1 .. Len(s)
    BY <1>1
  <2> QED BY <1>2, <1>4, <2>1 DEF Nth
<1>7. EndsAt(Len(s))
  BY <1>5, <1>6
<1>8. \A k \in 0 .. ChainLimit : EndsAt(k) => k = Len(s)
  <2> SUFFICES ASSUME NEW k \in 0 .. ChainLimit, EndsAt(k)
               PROVE  k = Len(s)
    OBVIOUS
  <2>1. ~(k < Len(s))
    <3>1. k < Len(s) => k \in 0 .. Len(s) - 1
      BY <1>1
    <3> QED BY <1>5, <3>1
  <2>2. ~(Len(s) < k)
    <3>1. Len(s) < k => Len(s) \in 0 .. k - 1
      BY <1>1
    <3> QED BY <1>6, <3>1
  <2> QED BY <1>1, <2>1, <2>2
<1> HIDE DEF EndsAt
<1>9. length = Len(s)
  BY <1>4, <1>7, <1>8
<1> HIDE DEF length
<1>10. \A i \in 1 .. Len(s) : w[i - 1] = s[i]
  <2> SUFFICES ASSUME NEW i \in 1 .. Len(s)
               PROVE  w[i - 1] = s[i]
    OBVIOUS
  <2>1. i - 1 \in 0 .. Len(s) - 1 /\ (i - 1) + 1 = i
    BY <1>1
  <2> QED BY <1>5, <2>1
<1>11. s = [i \in 1 .. Len(s) |-> s[i]]
  BY <1>1, LenProperties
<1>12. [i \in 1 .. length |-> w[i - 1]] = [i \in 1 .. Len(s) |-> s[i]]
  BY <1>9, <1>10
<1> QED BY <1>3, <1>11, <1>12 DEF s

LEMMA ChildrenAre ==
  ASSUME tree \in Tree, NEW L \in Listing, Shape(tree, L), NEW p \in Object
  PROVE  Children(p) = L[p]
<1>1. Children(p) = ListIn(tree, p)
  BY DEF Children, ListIn
<1> QED BY <1>1, ListInIs

\* One instruction on the tree of the machine.
LEMMA InsertObjKeeps ==
  ASSUME IInv, InsertObj
  PROVE  IInv'
<1>1. PICK number \in Number \ {Nothing}, p \in Number \ {Nothing} :
         /\ Perform(Inserted(tree, number, p))
         /\ looped' = (looped \/ /\ number \in Object /\ p \in Object /\ number # p
                                 /\ number \in Ancestors(tree, p))
         /\ UNCHANGED tampered
  BY DEF InsertObj
<1>2. tree \in Tree /\ looped \in BOOLEAN /\ looped' \in BOOLEAN
  BY <1>1 DEF IInv, TypeOK
<1>3. SoundStep(tree, Inserted(tree, number, p))
  BY <1>2, InsertedSound
<1>4. /\ tree' = Inserted(tree, number, p).tree
      /\ ending' = Inserted(tree, number, p).ending
  BY <1>1 DEF Perform
<1>5. TypeOK'
  BY <1>1, <1>2, <1>3, <1>4 DEF IInv, TypeOK, SoundStep
<1>6. CASE number \in Object /\ p \in Object /\ number # p
  <2> SUFFICES ASSUME tampered = 0
               PROVE  Undamaged' /\ (~looped' => Acyclic(tree'))
    BY <1>1, <1>5 DEF IInv
  <2>1. PICK L \in Listing : Shape(tree, L)
    BY DEF IInv, Undamaged, Built
  <2>2. PICK M : M = InFrontAt(ClosedOverAll(L, number), number, p)
    OBVIOUS
  <2>3. /\ ending' = "done" /\ M \in Listing /\ Shape(tree', M)
        /\ \A x \in Object : tree'.parent[x] = IF x = number THEN p ELSE tree.parent[x]
    BY <1>2, <1>4, <1>6, <2>1, <2>2, InsertedShape
  <2>4. Undamaged'
    BY <2>3 DEF Undamaged, Built
  <2>5. ASSUME ~looped'
        PROVE  Acyclic(tree')
    <3>1. ~looped /\ number \notin Ancestors(tree, p)
      BY <1>1, <1>6, <2>5
    <3>2. PICK rank : Ranked(tree, rank)
      BY <3>1 DEF IInv, Acyclic
    <3> QED BY <1>2, <1>6, <2>3, <3>1, <3>2, InsertKeepsRank DEF Acyclic
  <2> QED BY <2>4, <2>5
<1>7. CASE ~(number \in Object /\ p \in Object /\ number # p)
  <2>1. \/ Inserted(tree, number, p) = Failed("no such object", tree)
        \/ Inserted(tree, number, p) = Failed("into itself", tree)
    BY <1>7 DEF Inserted
  <2>2. ending' \in {"no such object", "into itself"}
    <3>1. CASE Inserted(tree, number, p) = Failed("no such object", tree)
      <4>1. ending' = "no such object"
        BY <1>4, <3>1, FailedLeaves, ZenonT(40)
      <4> QED BY <4>1
    <3>2. CASE Inserted(tree, number, p) = Failed("into itself", tree)
      <4>1. ending' = "into itself"
        BY <1>4, <3>2, FailedLeaves, ZenonT(40)
      <4> QED BY <4>1
    <3> QED BY <2>1, <3>1, <3>2
  <2>3. tree' = tree
    BY <1>3, <1>4, <2>2 DEF SoundStep
  <2>4. looped' = looped
    BY <1>1, <1>2, <1>7
  <2> QED BY <1>1, <1>5, <2>2, <2>3, <2>4 DEF IInv, Undamaged
<1> QED BY <1>6, <1>7

LEMMA RemoveObjKeeps ==
  ASSUME IInv, RemoveObj
  PROVE  IInv'
<1>1. PICK number \in Number \ {Nothing} :
         Perform(Removed(tree, number)) /\ UNCHANGED <<looped, tampered>>
  BY DEF RemoveObj
<1>2. tree \in Tree
  BY DEF IInv, TypeOK
<1>3. SoundStep(tree, Removed(tree, number))
  BY <1>2, RemovedSound
<1>4. tree' = Removed(tree, number).tree /\ ending' = Removed(tree, number).ending
  BY <1>1 DEF Perform
<1>5. TypeOK'
  BY <1>1, <1>3, <1>4 DEF IInv, TypeOK, SoundStep
<1>6. CASE number \in Object
  <2> SUFFICES ASSUME tampered = 0
               PROVE  Undamaged' /\ (~looped => Acyclic(tree'))
    BY <1>1, <1>5 DEF IInv
  <2>1. PICK L \in Listing : Shape(tree, L)
    BY DEF IInv, Undamaged, Built
  <2>2. PICK M : M = ClosedOverAll(L, number)
    OBVIOUS
  <2>3. /\ ending' = "done" /\ M \in Listing /\ Shape(tree', M)
        /\ \A x \in Object : tree'.parent[x] = IF x = number THEN Nothing ELSE tree.parent[x]
    BY <1>2, <1>4, <1>6, <2>1, <2>2, RemovedShape
  <2>4. Undamaged'
    BY <2>3 DEF Undamaged, Built
  <2>5. ASSUME ~looped
        PROVE  Acyclic(tree')
    <3>1. PICK rank : Ranked(tree, rank)
      BY <2>5 DEF IInv, Acyclic
    <3> QED BY <1>2, <2>3, <3>1, RemoveKeepsRank DEF Acyclic
  <2> QED BY <2>4, <2>5
<1>7. CASE number \notin Object
  <2>1. Removed(tree, number) = Failed("no such object", tree)
    BY <1>7 DEF Removed
  <2>2. ending' = "no such object"
    BY <1>4, <2>1, FailedLeaves, ZenonT(40)
  <2>3. tree' = tree
    BY <1>3, <1>4, <2>2 DEF SoundStep
  <2> QED BY <1>1, <1>5, <2>2, <2>3 DEF IInv, Undamaged
<1> QED BY <1>6, <1>7

LEMMA StoreIntoTableKeeps ==
  ASSUME IInv, StoreIntoTable
  PROVE  IInv'
<1>1. /\ tampered \in 0 .. MaxTampering /\ tampered < MaxTampering
      /\ tampered' = tampered + 1 /\ MaxTampering \in Nat
      /\ ending' = "done" /\ looped' = looped
  BY ObjectTreeAssumption DEF IInv, TypeOK, StoreIntoTable
<1>2. PICK o \in Object, link \in {"parent", "sibling", "child"}, value \in Number :
         tree' = [tree EXCEPT ![link][o] = value]
  BY DEF StoreIntoTable
<1>3. tree \in Tree
  BY DEF IInv, TypeOK
<1>4. tree' \in Tree
  <2>1. CASE link = "parent"
    BY <1>2, <1>3, <2>1 DEF Tree
  <2>2. CASE link = "sibling"
    BY <1>2, <1>3, <2>2 DEF Tree
  <2>3. CASE link = "child"
    BY <1>2, <1>3, <2>3 DEF Tree
  <2> QED BY <2>1, <2>2, <2>3
<1>5. tampered' \in 0 .. MaxTampering /\ tampered' # 0
  BY <1>1
<1>6. TypeOK'
  BY <1>1, <1>4, <1>5 DEF IInv, TypeOK, Ending
<1> QED BY <1>5, <1>6 DEF IInv

\* Without any link there are only empty lists.
LEMMA EmptyShape ==
  ASSUME Init, NEW L, L = [o \in Object |-> <<>>]
  PROVE  L \in Listing /\ Shape(tree, L)
<1>1. \A o \in Object :
         /\ tree.parent[o] = Nothing /\ tree.sibling[o] = Nothing /\ tree.child[o] = Nothing
  BY DEF Init
<1>2. L \in Listing /\ \A o \in Object : L[o] = <<>> /\ Len(L[o]) = 0
  BY EmptySeq DEF Listing
<1>3. ASSUME NEW p \in Object
      PROVE  Chained(tree, p, L[p]) /\ Placed(tree, p, L)
  <2>1. 1 .. Len(L[p]) = {}
    BY <1>2
  <2> QED BY <1>1, <1>3, <2>1 DEF Chained, Placed, Nth
<1> QED BY <1>2, <1>3 DEF Shape

LEMMA InitKeeps == Init => IInv
<1> SUFFICES ASSUME Init
             PROVE  IInv
  OBVIOUS
<1> DEFINE none == [o \in Object |-> Nothing]
<1>1. none \in [Object -> Number]
  BY ObjectFacts
<1>2. /\ tree = [parent |-> none, sibling |-> none, child |-> none]
      /\ ending = "done" /\ looped = FALSE /\ tampered = 0
  BY DEF Init
<1>3. \A o \in Object : none[o] = Nothing
  OBVIOUS
<1> HIDE DEF none
<1>4. TypeOK
  <2>1. tree \in Tree
    BY <1>1, <1>2 DEF Tree
  <2>2. tampered \in 0 .. MaxTampering
    BY <1>2, ObjectTreeAssumption
  <2> QED BY <1>2, <2>1, <2>2 DEF TypeOK, Ending
<1>5. PICK L : L = [o \in Object |-> <<>>]
  OBVIOUS
<1>6. L \in Listing /\ Shape(tree, L)
  BY <1>5, EmptyShape
<1>8. Acyclic(tree)
  <2>1. PICK rank : rank = [o \in Object |-> 0]
    OBVIOUS
  <2>2. \A o \in Object : tree.parent[o] \notin Object
    BY <1>2, <1>3, ObjectFacts
  <2> QED BY <2>1, <2>2 DEF Acyclic, Ranked
<1> QED BY <1>2, <1>4, <1>6, <1>8 DEF IInv, Undamaged, Built

LEMMA NextKeeps ==
  ASSUME IInv, [Next]_vars
  PROVE  IInv'
<1>1. CASE UNCHANGED vars
  BY <1>1 DEF vars, IInv, TypeOK, Undamaged
<1> QED BY <1>1, InsertObjKeeps, RemoveObjKeeps, StoreIntoTableKeeps DEF Next

LEMMA AlwaysIInv == Spec => []IInv
BY InitKeeps, NextKeeps, PTL DEF Spec

\* Every link stays an object byte, whatever the story does to the table.
THEOREM TreeTyped == Spec => []TypeOK
<1>1. IInv => TypeOK
  BY DEF IInv
<1> QED BY <1>1, AlwaysIInv, PTL

\* A tree that only insertObject and removeObject have changed is never reported
\* as damaged: unlinkObject finds the object in the list of its parent, and 255
\* steps are enough for that.
THEOREM DamageAlwaysReal == Spec => []DamageIsReal
<1>1. IInv => DamageIsReal
  BY DEF IInv, Undamaged, DamageIsReal
<1> QED BY <1>1, AlwaysIInv, PTL

\* An object is the parent of exactly those in the list of its child, each once,
\* and nothing holds itself unless the story asked for it.
THEOREM AlwaysWellFounded == Spec => []WellFounded
<1>1. ASSUME IInv
      PROVE  WellFounded
  <2> SUFFICES ASSUME tampered = 0
               PROVE  /\ \A o \in Object : tree.sibling[o] # Nothing => tree.parent[o] # Nothing
                      /\ \A p, o \in Object :
                            LET places == {i \in 1 .. Len(Children(p)) : Children(p)[i] = o}
                            IN  IF tree.parent[o] = p THEN \E i \in places : places = {i}
                                ELSE places = {}
                      /\ ~looped => \A o \in Object :
                            tree.parent[o] # Nothing => o \notin Ancestors(tree, tree.parent[o])
    BY DEF WellFounded
  <2>1. tree \in Tree
    BY <1>1 DEF IInv, TypeOK
  <2>2. PICK L \in Listing : Shape(tree, L)
    BY <1>1 DEF IInv, Undamaged, Built
  <2>3. \A o \in Object : tree.sibling[o] # Nothing => tree.parent[o] # Nothing
    BY <2>2, ObjectFacts DEF Shape, Placed
  <2>4. ASSUME NEW p \in Object, NEW o \in Object
        PROVE  LET places == {i \in 1 .. Len(Children(p)) : Children(p)[i] = o}
               IN  IF tree.parent[o] = p THEN \E i \in places : places = {i}
                   ELSE places = {}
    <3>1. Children(p) = L[p]
      BY <2>1, <2>2, ChildrenAre
    <3>2. Chained(tree, p, L[p]) /\ Placed(tree, o, L)
      BY <2>2 DEF Shape
    <3> DEFINE s == L[p]
               places == {i \in 1 .. Len(s) : s[i] = o}
    <3>3. CASE tree.parent[o] = p
      <4>1. PICK i \in 1 .. Len(s) : s[i] = o
        BY <3>2, <3>3, ObjectFacts DEF Placed
      <4>2. places = {i}
        BY <3>2, <4>1 DEF Chained
      <4> QED BY <3>1, <3>3, <4>2
    <3>4. CASE tree.parent[o] # p
      <4>1. places = {}
        BY <3>2, <3>4 DEF Chained
      <4> QED BY <3>1, <3>4, <4>1
    <3> QED BY <3>3, <3>4
  <2>5. ASSUME ~looped
        PROVE  \A o \in Object : o \notin Ancestors(tree, tree.parent[o])
    <3>1. PICK rank : Ranked(tree, rank)
      BY <1>1, <2>5 DEF IInv, Acyclic
    <3> QED BY <2>1, <3>1, RankedHoldsNotItself
  <2> QED BY <2>3, <2>4, <2>5
<1> QED BY <1>1, AlwaysIInv, PTL

\* Whatever the tree, insertObject and removeObject change nothing when they
\* fail: both look at every number and find the predecessor before they write.
THEOREM RefusalsNeverChange == Spec => RefusalsChangeNothing
<1>1. ASSUME IInv, Next, ending' # "done"
      PROVE  tree' = tree
  <2>1. tree \in Tree
    BY <1>1 DEF IInv, TypeOK
  <2>2. CASE InsertObj
    <3>1. PICK number, p : Perform(Inserted(tree, number, p))
      BY <2>2 DEF InsertObj
    <3> QED BY <1>1, <2>1, <3>1, InsertedSound DEF Perform, SoundStep
  <2>3. CASE RemoveObj
    <3>1. PICK number : Perform(Removed(tree, number))
      BY <2>3 DEF RemoveObj
    <3> QED BY <1>1, <2>1, <3>1, RemovedSound DEF Perform, SoundStep
  <2>4. CASE StoreIntoTable
    BY <1>1, <2>4 DEF StoreIntoTable
  <2> QED BY <1>1, <2>2, <2>3, <2>4 DEF Next
<1>2. ASSUME IInv, [Next]_vars
      PROVE  [ending' # "done" => tree' = tree]_vars
  BY <1>1, <1>2
<1> QED BY <1>2, AlwaysIInv, PTL DEF Spec, RefusalsChangeNothing

-----------------------------------------------------------------------------
\* The lists that the forest shows.

Shown == [p \in Object |-> IF tampered = 0 THEN Children(p) ELSE <<>>]

LEMMA ShownThen ==
  ASSUME tree' \in Tree, tampered' = 0, NEW L \in Listing, Shape(tree', L)
  PROVE  Shown' = L
<1>1. ASSUME NEW p \in Object
      PROVE  Children(p)' = L[p]
  <2>1. Children(p)' = ListIn(tree', p)
    BY DEF Children, ListIn
  <2> QED BY <2>1, ListInIs
<1>2. Shown' = [p \in Object |-> L[p]]
  BY <1>1 DEF Shown
<1> QED BY <1>2 DEF Listing

LEMMA ShownNow ==
  ASSUME tree \in Tree, tampered = 0, NEW L \in Listing, Shape(tree, L)
  PROVE  Shown = L
<1>1. \A p \in Object : Children(p) = L[p]
  BY ChildrenAre
<1>2. Shown = [p \in Object |-> L[p]]
  BY <1>1 DEF Shown
<1> QED BY <1>2 DEF Listing

\* Of a damaged table nothing is shown, before and after a step.
LEMMA NothingShown ==
  /\ tampered # 0 => Shown = [p \in Object |-> <<>>]
  /\ tampered' # 0 => Shown' = [p \in Object |-> <<>>]
BY DEF Shown

LEMMA InsertObjRefines ==
  ASSUME IInv, InsertObj, tampered = 0
  PROVE  Forest!Next \/ UNCHANGED Forest!vars
<1>1. PICK number \in Number \ {Nothing}, p \in Number \ {Nothing} :
         Perform(Inserted(tree, number, p)) /\ UNCHANGED tampered
  BY DEF InsertObj
<1>2. tree \in Tree
  BY DEF IInv, TypeOK
<1>3. /\ tree' = Inserted(tree, number, p).tree /\ tampered' = 0
  BY <1>1 DEF Perform
<1>4. PICK L \in Listing : Shape(tree, L)
  BY DEF IInv, Undamaged, Built
<1>5. Shown = L
  BY <1>2, <1>4, ShownNow
<1>6. CASE number \in Object /\ p \in Object /\ number # p
  <2>1. PICK M : M = InFrontAt(ClosedOverAll(L, number), number, p)
    OBVIOUS
  <2>2. tree' \in Tree /\ M \in Listing /\ Shape(tree', M)
    BY <1>2, <1>3, <1>4, <1>6, <2>1, InsertedShape
  <2>3. Shown' = M
    BY <1>3, <2>2, ShownThen
  <2>4. ClosedOverAll(L, number) = [q \in Object |-> Forest!ClosedOver(Shown[q], number)]
    BY <1>5 DEF ClosedOverAll
  <2>5. Shown' = [[q \in Object |-> Forest!ClosedOver(Shown[q], number)]
                     EXCEPT ![p] = <<number>> \o @]
    BY <2>1, <2>3, <2>4 DEF InFrontAt, InFront
  <2>6. Forest!Insert(number, p)
    BY <1>3, <1>6, <2>5 DEF Forest!Insert, Forest!Without, Shown
  <2> QED BY <1>6, <2>6 DEF Forest!Next
<1>7. CASE ~(number \in Object /\ p \in Object /\ number # p)
  <2>1. tree' = tree
    <3>1. \/ Inserted(tree, number, p) = Failed("no such object", tree)
          \/ Inserted(tree, number, p) = Failed("into itself", tree)
      BY <1>7 DEF Inserted
    <3> QED BY <1>3, <3>1, FailedLeaves
  <2>2. Shown' = L
    BY <1>2, <1>3, <1>4, <2>1, ShownThen
  <2> QED BY <1>3, <1>5, <2>2 DEF Forest!vars, Shown
<1> QED BY <1>6, <1>7

LEMMA RemoveObjRefines ==
  ASSUME IInv, RemoveObj, tampered = 0
  PROVE  Forest!Next \/ UNCHANGED Forest!vars
<1>1. PICK number \in Number \ {Nothing} :
         Perform(Removed(tree, number)) /\ UNCHANGED tampered
  BY DEF RemoveObj
<1>2. tree \in Tree
  BY DEF IInv, TypeOK
<1>3. tree' = Removed(tree, number).tree /\ tampered' = 0
  BY <1>1 DEF Perform
<1>4. PICK L \in Listing : Shape(tree, L)
  BY DEF IInv, Undamaged, Built
<1>5. Shown = L
  BY <1>2, <1>4, ShownNow
<1>6. CASE number \in Object
  <2>1. PICK M : M = ClosedOverAll(L, number)
    OBVIOUS
  <2>2. tree' \in Tree /\ M \in Listing /\ Shape(tree', M)
    BY <1>2, <1>3, <1>4, <1>6, <2>1, RemovedShape
  <2>3. Shown' = M
    BY <1>3, <2>2, ShownThen
  <2>4. Shown' = [q \in Object |-> Forest!ClosedOver(Shown[q], number)]
    BY <1>5, <2>1, <2>3 DEF ClosedOverAll
  <2>5. Forest!Remove(number)
    BY <1>3, <2>4 DEF Forest!Remove, Forest!Without, Shown
  <2> QED BY <1>6, <2>5 DEF Forest!Next
<1>7. CASE number \notin Object
  <2>1. tree' = tree
    <3>1. Removed(tree, number) = Failed("no such object", tree)
      BY <1>7 DEF Removed
    <3> QED BY <1>3, <3>1, FailedLeaves
  <2>2. Shown' = L
    BY <1>2, <1>3, <1>4, <2>1, ShownThen
  <2> QED BY <1>3, <1>5, <2>2 DEF Forest!vars, Shown
<1> QED BY <1>6, <1>7

\* A store into the table ends what the forest promises, or comes after its end.
LEMMA StoreIntoTableRefines ==
  ASSUME IInv, StoreIntoTable
  PROVE  Forest!Next \/ UNCHANGED Forest!vars
<1>1. tampered' # 0
  BY ObjectTreeAssumption DEF IInv, TypeOK, StoreIntoTable
<1>2. Shown' = [p \in Object |-> <<>>]
  BY <1>1, NothingShown
<1> QED BY <1>1, <1>2 DEF Forest!Next, Forest!Tamper, Forest!Emptied, Shown

\* Three link bytes per object (object.go) behave as one list per object: while
\* the story keeps its hands off the table, insert_obj puts the object in front
\* of the list of its new parent and closes the list that it leaves, remove_obj
\* closes that list, and a refused instruction changes no list.
THEOREM ObjectTreeImplementsForest == Spec => ImplementsForest
<1>1. Init => Forest!Init
  <2> SUFFICES ASSUME Init
               PROVE  Forest!Init
    OBVIOUS
  <2>1. tampered = 0 /\ \A p \in Object : tree.child[p] = Nothing
    BY DEF Init
  <2>2. tree \in Tree
    BY InitKeeps DEF IInv, TypeOK
  <2>3. PICK L : L = [p \in Object |-> <<>>]
    OBVIOUS
  <2>4. L \in Listing /\ Shape(tree, L)
    BY <2>3, EmptyShape
  <2>5. Shown = L
    BY <2>1, <2>2, <2>4, ShownNow
  <2> QED BY <2>1, <2>3, <2>5 DEF Forest!Init, Forest!Emptied, Shown
<1>2. ASSUME IInv, [Next]_vars
      PROVE  [Forest!Next]_(Forest!vars)
  <2>1. CASE tampered = 0 /\ Next
    BY <1>2, <2>1, InsertObjRefines, RemoveObjRefines, StoreIntoTableRefines DEF Next
  <2>2. CASE tampered # 0 /\ Next
    <3>1. tampered' # 0
      BY <1>2, <2>2, ObjectTreeAssumption
         DEF Next, InsertObj, RemoveObj, StoreIntoTable, IInv, TypeOK
    <3>2. Shown' = Shown
      BY <2>2, <3>1, NothingShown
    <3> QED BY <2>2, <3>1, <3>2 DEF Forest!vars, Shown
  <2>3. CASE UNCHANGED vars
    BY <2>3 DEF vars, Forest!vars, Children
  <2> QED BY <1>2, <2>1, <2>2, <2>3
<1> QED BY <1>1, <1>2, AlwaysIInv, PTL DEF Spec, ImplementsForest, Forest!Spec

=============================================================================
