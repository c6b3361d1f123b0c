---------------------------- MODULE PartsProofs ----------------------------
(***************************************************************************)
(* Proofs about the parts that share no state: the arrays of bytes that    *)
(* the machines of one story and its host use (SharedStory), the random    *)
(* number generators (RandomSource), signed division (Arith16), the        *)
(* property lists of a story's own making (PropertyList), the bits that    *)
(* are the attributes of objects (ObjectFlags), and what all of them keep  *)
(* together (Parts), with the instruction decoder and the texts of a       *)
(* story, whose own proofs are in CodeProofs.                              *)
(***************************************************************************)
EXTENDS Parts, CodeProofs

-----------------------------------------------------------------------------
(* Arrays of bytes.                                                        *)

ReferencesTyped ==
    /\ file \in ArrayIds
    /\ {story, save} \subseteq ArrayIds \cup {None}
    /\ dynamic \in [Machines -> ArrayIds \cup {None}]

\* Whoever refers to an array is the only one who does.
NothingShared ==
    /\ story # file /\ save # file
    /\ story # None => save # story
    /\ \A m \in Running :
          /\ dynamic[m] \notin {file, story, save}
          /\ \A n \in Machines : n # m => dynamic[n] # dynamic[m]

\* Machines are made from a story.
StoryLoaded == Running # {} => story # None

Apart == ReferencesTyped /\ NothingShared /\ StoryLoaded

-----------------------------------------------------------------------------
LEMMA MachinesCounted == Cardinality(Machines) \in Nat
BY SharedAssumption, FS_CardinalityType

LEMMA OneMore ==
  ASSUME NEW S, NEW x, IsFiniteSet(S)
  PROVE  /\ IsFiniteSet(S \cup {x}) /\ Cardinality(S \cup {x}) \in Nat
         /\ Cardinality(S \cup {x}) <= Cardinality(S) + 1
<1>1. IsFiniteSet(S \cup {x})
      /\ Cardinality(S \cup {x}) = IF x \in S THEN Cardinality(S) ELSE Cardinality(S) + 1
  BY FS_AddElement
<1>2. Cardinality(S) \in Nat
  BY FS_CardinalityType
<1>3. CASE x \in S
  <2>1. Cardinality(S \cup {x}) = Cardinality(S)
    BY <1>1, <1>3
  <2> QED BY <1>1, <1>2, <2>1
<1>4. CASE x \notin S
  <2>1. Cardinality(S \cup {x}) = Cardinality(S) + 1
    BY <1>1, <1>4
  <2> QED BY <1>1, <1>2, <2>1
<1> QED BY <1>3, <1>4

\* There are enough names: one for each machine, three for the host and the
\* story, and one more.
LEMMA FewInUse ==
  ASSUME ReferencesTyped
  PROVE  IsFiniteSet(InUse) /\ Cardinality(InUse) <= Cardinality(Machines) + 3
<1> DEFINE D == {dynamic[m] : m \in Machines}
<1>1. dynamic \in Surjection(Machines, D)
  <2>1. dynamic \in [Machines -> D]
    BY DEF ReferencesTyped
  <2>2. \A t \in D : \E s \in Machines : dynamic[s] = t
    OBVIOUS
  <2> QED BY <2>1, <2>2 DEF Surjection
<1>2. IsFiniteSet(D) /\ Cardinality(D) <= Cardinality(Machines)
  BY <1>1, SharedAssumption, FS_Surjection
<1>3. Cardinality(D) \in Nat
  BY <1>2, FS_CardinalityType
<1>4. InUse = ((D \cup {file}) \cup {story}) \cup {save}
  BY DEF InUse
<1> HIDE DEF D
<1>5. /\ IsFiniteSet(D \cup {file}) /\ Cardinality(D \cup {file}) \in Nat
      /\ Cardinality(D \cup {file}) <= Cardinality(D) + 1
  BY <1>2, OneMore
<1> DEFINE E == D \cup {file}
<1>6. InUse = (E \cup {story}) \cup {save} /\ IsFiniteSet(E) /\ Cardinality(E) \in Nat
      /\ Cardinality(E) <= Cardinality(D) + 1
  BY <1>4, <1>5
<1> HIDE DEF E
<1>7. /\ IsFiniteSet(E \cup {story}) /\ Cardinality(E \cup {story}) \in Nat
      /\ Cardinality(E \cup {story}) <= Cardinality(E) + 1
  BY <1>6, OneMore
<1> DEFINE F == E \cup {story}
<1>8. InUse = F \cup {save} /\ IsFiniteSet(F) /\ Cardinality(F) \in Nat
      /\ Cardinality(F) <= Cardinality(E) + 1
  BY <1>6, <1>7
<1> HIDE DEF F
<1>9. /\ IsFiniteSet(F \cup {save}) /\ Cardinality(F \cup {save}) \in Nat
      /\ Cardinality(F \cup {save}) <= Cardinality(F) + 1
  BY <1>8, OneMore
<1>10. Cardinality(F \cup {save}) <= Cardinality(Machines) + 3
  BY <1>2, <1>3, <1>6, <1>8, <1>9, MachinesCounted
<1> QED BY <1>8, <1>9, <1>10

LEMMA NewIsNew ==
  ASSUME ReferencesTyped
  PROVE  New \in ArrayIds /\ New \notin InUse /\ New # None
<1>1. IsFiniteSet(ArrayIds) /\ Cardinality(ArrayIds) = Cardinality(Machines) + 4
  <2>1. 1 \in Int /\ Cardinality(Machines) + 4 \in Int
    BY MachinesCounted
  <2> QED BY <2>1, MachinesCounted, FS_Interval DEF ArrayIds
<1>2. ArrayIds \ InUse # {}
  <2> SUFFICES ASSUME ArrayIds \ InUse = {} PROVE FALSE
    OBVIOUS
  <2>1. ArrayIds \in SUBSET InUse
    OBVIOUS
  <2>2. IsFiniteSet(InUse) /\ Cardinality(InUse) <= Cardinality(Machines) + 3
    BY FewInUse
  <2>3. Cardinality(ArrayIds) <= Cardinality(InUse)
    BY <2>1, <2>2, FS_Subset
  <2>4. Cardinality(InUse) \in Nat
    BY <2>2, FS_CardinalityType
  <2> QED BY <1>1, <2>2, <2>3, <2>4, MachinesCounted
<1>3. ArrayIds \ InUse \subseteq Nat
  BY MachinesCounted DEF ArrayIds
<1>4. \E i \in ArrayIds \ InUse : \A j \in ArrayIds \ InUse : i <= j
  BY <1>2, <1>3, LeastNumber
<1>5. New \in ArrayIds \ InUse
  BY <1>4 DEF New
<1> QED BY <1>5, MachinesCounted DEF ArrayIds, None

LEMMA InitApart == SharedInit => Apart
<1> SUFFICES ASSUME SharedInit PROVE Apart
  OBVIOUS
<1>1. 1 \in ArrayIds
  BY MachinesCounted DEF ArrayIds
<1>2. Running = {}
  BY DEF Running, SharedInit
<1> QED BY <1>1, <1>2 DEF SharedInit, Apart, ReferencesTyped, NothingShared, StoryLoaded, None

\* A new array is given to one that had none, or to one that drops its own.
LEMMA ReferencesApart ==
  ASSUME Apart, [SharedNext]_sharedVars
  PROVE  Apart'
<1> USE DEF Apart, ReferencesTyped, NothingShared, StoryLoaded, Running
<1>1. PICK new : new = New
  OBVIOUS
<1>2. new \in ArrayIds /\ new # None /\ new \notin {file, story, save}
      /\ \A m \in Machines : dynamic[m] # new
  BY <1>1, NewIsNew DEF InUse
<1>3. CASE HostWrites
  BY <1>3 DEF HostWrites
<1>4. CASE LoadStory
  <2>1. story = None /\ story' = new /\ UNCHANGED <<file, dynamic, save>>
    BY <1>1, <1>4 DEF LoadStory, ImageOf
  <2> QED BY <1>2, <2>1
<1>5. ASSUME NEW m \in Machines, NewMemory(m) PROVE Apart'
  <2>1. /\ story # None /\ dynamic' = [dynamic EXCEPT ![m] = new]
        /\ UNCHANGED <<file, story, save>>
    BY <1>1, <1>5 DEF NewMemory, DynamicArray
  <2>2. dynamic' \in [Machines -> ArrayIds \cup {None}]
    BY <1>2, <2>1
  <2>3. \A n \in Machines : dynamic'[n] = IF n = m THEN new ELSE dynamic[n]
    BY <2>1
  <2> QED BY <1>2, <2>1, <2>2, <2>3
<1>6. ASSUME NEW m \in Machines, StoreByte(m) PROVE Apart'
  BY <1>6 DEF StoreByte
<1>7. ASSUME NEW m \in Machines, Snapshot(m) PROVE Apart'
  <2>1. save' = new /\ UNCHANGED <<file, story, dynamic>>
    BY <1>1, <1>7 DEF Snapshot
  <2> QED BY <1>2, <2>1
<1>8. ASSUME NEW m \in Machines, RestoreSave(m) PROVE Apart'
  BY <1>8 DEF RestoreSave
<1>9. ASSUME NEW m \in Machines, Drop(m) PROVE Apart'
  <2>1. dynamic' = [dynamic EXCEPT ![m] = None] /\ UNCHANGED <<file, story, save>>
    BY <1>9 DEF Drop
  <2>2. \A n \in Machines : dynamic'[n] = IF n = m THEN None ELSE dynamic[n]
    BY <2>1
  <2> QED BY <2>1, <2>2
<1>10. CASE UNCHANGED sharedVars
  BY <1>10 DEF sharedVars
<1> QED BY <1>3, <1>4, <1>5, <1>6, <1>7, <1>8, <1>9, <1>10 DEF SharedNext

-----------------------------------------------------------------------------
\* What is not the array that a step writes keeps its bytes.
LEMMA OthersKept ==
  ASSUME NEW i, NEW content, NEW j \in InUse, j # i, j # None
  PROVE  With(i, content)[j] = arrays[j]
BY DEF With

\* A machine sees no change as long as its two arrays have none.
LEMMA ViewKept ==
  ASSUME NEW m, story' = story, dynamic'[m] = dynamic[m],
         arrays'[story] = arrays[story], arrays'[dynamic[m]] = arrays[dynamic[m]]
  PROVE  ViewOf(m)' = ViewOf(m)
BY DEF ViewOf

\* What a step of one actor leaves alone.
IsolatedStep ==
    /\ \A m \in Running : actor' # m => ViewOf(m)' = ViewOf(m)
    /\ story # None => arrays'[story] = arrays[story]
    /\ save # None /\ save' = save /\ actor' # "host" => arrays'[save] = arrays[save]

\* All of them write one array at most, which is new or their own.
LEMMA WritesOneArray ==
  ASSUME Apart, NEW i, NEW content, i # None,
         arrays' = With(i, content), story' = story, i # story,
         \A m \in Running : actor' # m => dynamic'[m] = dynamic[m] /\ i # dynamic[m],
         save' = save /\ actor' # "host" => i # save
  PROVE  IsolatedStep
<1> USE DEF Apart, ReferencesTyped, NothingShared, StoryLoaded, Running
<1>1. story # None => arrays'[story] = arrays[story]
  BY OthersKept DEF InUse
<1>2. save # None /\ save' = save /\ actor' # "host" => arrays'[save] = arrays[save]
  BY OthersKept DEF InUse
<1>3. ASSUME NEW m \in Running, actor' # m PROVE ViewOf(m)' = ViewOf(m)
  <2>1. dynamic[m] \in InUse /\ dynamic[m] # None /\ dynamic[m] # i
    BY <1>3 DEF InUse
  <2>2. arrays'[dynamic[m]] = arrays[dynamic[m]]
    BY <2>1, OthersKept
  <2>3. story # None
    BY <1>3
  <2> QED BY <1>1, <1>3, <2>2, <2>3, ViewKept
<1> QED BY <1>1, <1>2, <1>3 DEF IsolatedStep

LEMMA StepsIsolated ==
  ASSUME Apart, SharedNext
  PROVE  IsolatedStep
<1> USE DEF Apart, ReferencesTyped, NothingShared, StoryLoaded, Running
<1>1. PICK new : new = New
  OBVIOUS
<1>2. new \in ArrayIds /\ new # None /\ new \notin {file, story, save}
      /\ \A m \in Machines : dynamic[m] # new
  BY <1>1, NewIsNew DEF InUse
<1>3. CASE HostWrites
  <2>1. PICK i \in {file, save} \ {None}, a \in Positions, v \in Values :
          arrays' = With(i, [arrays[i] EXCEPT ![a] = v])
    BY <1>3 DEF HostWrites
  <2>2. actor' = "host" /\ UNCHANGED <<file, story, dynamic, save>>
    BY <1>3 DEF HostWrites
  <2>3. i # story
    BY <2>1
  <2>4. \A m \in Running : i # dynamic[m]
    BY <2>1
  <2> QED BY <2>1, <2>2, <2>3, <2>4, WritesOneArray
<1>4. CASE LoadStory
  <2>1. story = None /\ arrays' = With(new, arrays[file]) /\ actor' = "host"
    BY <1>1, <1>4 DEF LoadStory, ImageOf
  <2>2. Running = {}
    BY <2>1
  <2> QED BY <2>1, <2>2 DEF IsolatedStep
<1>5. ASSUME NEW m \in Machines, NewMemory(m) PROVE IsolatedStep
  <2>1. /\ dynamic' = [dynamic EXCEPT ![m] = new] /\ arrays' = With(new, arrays[story])
        /\ actor' = m /\ UNCHANGED <<file, story, save>>
    BY <1>1, <1>5 DEF NewMemory, DynamicArray
  <2>2. \A n \in Running : actor' # n => dynamic'[n] = dynamic[n] /\ new # dynamic[n]
    BY <1>2, <2>1
  <2> QED BY <1>2, <2>1, <2>2, WritesOneArray
<1>6. ASSUME NEW m \in Machines, StoreByte(m) PROVE IsolatedStep
  <2>1. m \in Running /\ actor' = m /\ UNCHANGED <<file, story, dynamic, save>>
    BY <1>6 DEF StoreByte
  <2>2. PICK a \in 0 .. StaticBase - 1, v \in Values :
          arrays' = With(dynamic[m], [arrays[dynamic[m]] EXCEPT ![a] = v])
    BY <1>6 DEF StoreByte
  <2>3. \A n \in Running : actor' # n => dynamic'[n] = dynamic[n] /\ dynamic[m] # dynamic[n]
    BY <2>1
  <2> QED BY <2>1, <2>2, <2>3, WritesOneArray
<1>7. ASSUME NEW m \in Machines, Snapshot(m) PROVE IsolatedStep
  <2>1. /\ save' = new /\ arrays' = With(new, arrays[dynamic[m]])
        /\ UNCHANGED <<file, story, dynamic>>
    BY <1>1, <1>7 DEF Snapshot
  <2> QED BY <1>2, <2>1, WritesOneArray
<1>8. ASSUME NEW m \in Machines, RestoreSave(m) PROVE IsolatedStep
  <2>1. m \in Running /\ actor' = m /\ UNCHANGED <<file, story, dynamic, save>>
    BY <1>8 DEF RestoreSave
  <2>2. PICK content : arrays' = With(dynamic[m], content)
    BY <1>8 DEF RestoreSave
  <2>3. \A n \in Running : actor' # n => dynamic'[n] = dynamic[n] /\ dynamic[m] # dynamic[n]
    BY <2>1
  <2> QED BY <2>1, <2>2, <2>3, WritesOneArray
<1>9. ASSUME NEW m \in Machines, Drop(m) PROVE IsolatedStep
  <2>1. /\ dynamic' = [dynamic EXCEPT ![m] = None] /\ actor' = m
        /\ UNCHANGED <<file, story, save>>
        /\ arrays' = [j \in InUse' \ {None} |-> arrays[j]]
    BY <1>9 DEF Drop
  <2>2. \A j \in InUse' : j # None => arrays'[j] = arrays[j]
    BY <2>1
  <2>3. /\ story # None => arrays'[story] = arrays[story]
        /\ save # None => arrays'[save] = arrays[save]
    BY <2>1, <2>2 DEF InUse
  <2>4. ASSUME NEW n \in Running, actor' # n PROVE ViewOf(n)' = ViewOf(n)
    <3>1. n \in Machines /\ dynamic'[n] = dynamic[n] /\ dynamic[n] # None
      BY <2>1, <2>4
    <3>2. arrays'[dynamic[n]] = arrays[dynamic[n]]
      BY <2>2, <3>1 DEF InUse
    <3> QED BY <2>1, <2>3, <3>1, <3>2, ViewKept
  <2> QED BY <2>3, <2>4 DEF IsolatedStep
<1> QED BY <1>3, <1>4, <1>5, <1>6, <1>7, <1>8, <1>9 DEF SharedNext

\* LoadStory, newMemory and snapshot copy what they are given (story.go,
\* memory.go, state.go), so however many machines use a Story, none of them, nor
\* the host with its own arrays, changes what another one reads, the Story, or a
\* saved state.
THEOREM MachinesIsolated == SharedSpec => Isolated
<1>1. Apart /\ [SharedNext]_sharedVars => Apart'
  BY ReferencesApart
<1>2. ASSUME Apart, [SharedNext]_sharedVars PROVE [IsolatedStep]_sharedVars
  BY <1>2, StepsIsolated
<1>3. SharedSpec => []Apart
  BY <1>1, InitApart, PTL DEF SharedSpec
<1>4. SharedSpec => [][IsolatedStep]_sharedVars
  BY <1>2, <1>3, PTL DEF SharedSpec
<1> QED BY <1>4, PTL DEF Isolated, IsolatedStep

-----------------------------------------------------------------------------
LEMMA WithTyped ==
  ASSUME Apart, SharedTypeOK, NEW i, i # None, NEW content \in [Positions -> Values],
         NEW b, b = With(i, content)
  PROVE  /\ DOMAIN b = (InUse \cup {i}) \ {None}
         /\ \A j \in DOMAIN b : b[j] \in [Positions -> Values]
<1>1. DOMAIN b = (InUse \cup {i}) \ {None}
  BY DEF With
<1>2. ASSUME NEW j \in (InUse \cup {i}) \ {None}
      PROVE  b[j] \in [Positions -> Values]
  <2>1. CASE j = i
    BY <2>1 DEF With
  <2>2. CASE j # i
    <3>1. j \in DOMAIN arrays /\ b[j] = arrays[j]
      BY <2>2 DEF With, SharedTypeOK
    <3> QED BY <3>1 DEF SharedTypeOK
  <2> QED BY <2>1, <2>2
<1> QED BY <1>1, <1>2

\* Every array that someone refers to has the bytes of a story.
LEMMA ArraysKept ==
  ASSUME Apart, SharedTypeOK, [SharedNext]_sharedVars
  PROVE  SharedTypeOK'
<1> USE DEF Apart, ReferencesTyped, NothingShared, StoryLoaded, Running
<1>1. PICK new : new = New
  OBVIOUS
<1>2. new # None
  BY <1>1, NewIsNew
<1>3. \A j \in InUse \ {None} : j \in DOMAIN arrays /\ arrays[j] \in [Positions -> Values]
  BY DEF SharedTypeOK
<1>4. file \in InUse \ {None}
  <2>1. file # None
    BY MachinesCounted DEF ArrayIds, None
  <2> QED BY <2>1 DEF InUse
<1>5. ASSUME NEW i, i # None, NEW content \in [Positions -> Values], arrays' = With(i, content),
             InUse' \subseteq InUse \cup {i}
      PROVE  SharedTypeOK'
  <2>1. /\ DOMAIN (arrays') = (InUse \cup {i}) \ {None}
        /\ \A j \in DOMAIN (arrays') : arrays'[j] \in [Positions -> Values]
    BY <1>5, WithTyped
  <2>2. InUse' \subseteq DOMAIN (arrays') \cup {None}
    BY <1>5, <2>1
  <2> QED BY <2>1, <2>2 DEF SharedTypeOK, Positions
<1>6. CASE HostWrites
  <2>1. PICK i \in {file, save} \ {None}, a \in Positions, v \in Values :
          arrays' = With(i, [arrays[i] EXCEPT ![a] = v])
    BY <1>6 DEF HostWrites
  <2>2. i \in InUse \ {None}
    BY <2>1 DEF InUse
  <2>3. [arrays[i] EXCEPT ![a] = v] \in [Positions -> Values]
    BY <1>3, <2>2
  <2>4. InUse' = InUse
    BY <1>6 DEF HostWrites, InUse
  <2> QED BY <1>5, <2>1, <2>3, <2>4
<1>7. CASE LoadStory
  <2>1. story' = new /\ arrays' = With(new, arrays[file]) /\ UNCHANGED <<file, dynamic, save>>
    BY <1>1, <1>7 DEF LoadStory, ImageOf
  <2>2. InUse' \subseteq InUse \cup {new}
    BY <2>1 DEF InUse
  <2> QED BY <1>2, <1>3, <1>4, <1>5, <2>1, <2>2
<1>8. ASSUME NEW m \in Machines, NewMemory(m)
      PROVE  SharedTypeOK'
  <2>1. /\ story # None /\ dynamic' = [dynamic EXCEPT ![m] = new] /\ arrays' = With(new, arrays[story])
        /\ UNCHANGED <<file, story, save>>
    BY <1>1, <1>8 DEF NewMemory, DynamicArray
  <2>2. \A k \in Machines : dynamic'[k] = IF k = m THEN new ELSE dynamic[k]
    BY <2>1
  <2>3. InUse' \subseteq InUse \cup {new}
    BY <2>1, <2>2 DEF InUse
  <2>4. story \in InUse \ {None}
    BY <2>1 DEF InUse
  <2> QED BY <1>2, <1>3, <1>5, <2>1, <2>3, <2>4
<1>9. ASSUME NEW m \in Machines, StoreByte(m)
      PROVE  SharedTypeOK'
  <2>1. PICK a \in 0 .. StaticBase - 1, v \in Values :
          arrays' = With(dynamic[m], [arrays[dynamic[m]] EXCEPT ![a] = v])
    BY <1>9 DEF StoreByte
  <2>2. dynamic[m] \in InUse \ {None}
    BY <1>9 DEF StoreByte, InUse
  <2>3. [arrays[dynamic[m]] EXCEPT ![a] = v] \in [Positions -> Values]
    BY <1>3, <2>2
  <2>4. InUse' = InUse
    BY <1>9 DEF StoreByte, InUse
  <2> QED BY <1>5, <2>1, <2>2, <2>3, <2>4
<1>10. ASSUME NEW m \in Machines, Snapshot(m)
       PROVE  SharedTypeOK'
  <2>1. save' = new /\ arrays' = With(new, arrays[dynamic[m]]) /\ UNCHANGED <<file, story, dynamic>>
    BY <1>1, <1>10 DEF Snapshot
  <2>2. dynamic[m] \in InUse \ {None}
    BY <1>10 DEF Snapshot, InUse
  <2>3. InUse' \subseteq InUse \cup {new}
    BY <2>1 DEF InUse
  <2> QED BY <1>2, <1>3, <1>5, <2>1, <2>2, <2>3
<1>11. ASSUME NEW m \in Machines, RestoreSave(m)
       PROVE  SharedTypeOK'
  <2>1. PICK content :
          /\ content = [a \in Positions |-> IF a < StaticBase THEN arrays[save][a] ELSE arrays[dynamic[m]][a]]
          /\ arrays' = With(dynamic[m], content)
    BY <1>11 DEF RestoreSave
  <2>2. dynamic[m] \in InUse \ {None} /\ save \in InUse \ {None}
    BY <1>11 DEF RestoreSave, InUse
  <2>3. arrays[save] \in [Positions -> Values] /\ arrays[dynamic[m]] \in [Positions -> Values]
    BY <1>3, <2>2
  <2>4. content \in [Positions -> Values]
    BY <2>1, <2>3
  <2>5. InUse' = InUse
    BY <1>11 DEF RestoreSave, InUse
  <2> QED BY <1>5, <2>1, <2>2, <2>4, <2>5
<1>12. ASSUME NEW m \in Machines, Drop(m)
       PROVE  SharedTypeOK'
  <2>1. /\ dynamic' = [dynamic EXCEPT ![m] = None] /\ UNCHANGED <<file, story, save>>
        /\ arrays' = [j \in InUse' \ {None} |-> arrays[j]]
    BY <1>12 DEF Drop
  <2>2. \A k \in Machines : dynamic'[k] = IF k = m THEN None ELSE dynamic[k]
    BY <2>1
  <2>3. InUse' \subseteq InUse \cup {None}
    BY <2>1, <2>2 DEF InUse
  <2>4. \A j \in InUse' \ {None} : arrays'[j] \in [Positions -> Values]
    BY <1>3, <2>1, <2>3
  <2> QED BY <2>1, <2>4 DEF SharedTypeOK, Positions
<1>13. CASE UNCHANGED sharedVars
  BY <1>13 DEF sharedVars, SharedTypeOK, InUse
<1> QED BY <1>6, <1>7, <1>8, <1>9, <1>10, <1>11, <1>12, <1>13 DEF SharedNext

-----------------------------------------------------------------------------
(* Random number generators.                                               *)

GeneratorKind == {"pcg", "frotz"}

GeneratorState ==
    [ kind : GeneratorKind, predictable : BOOLEAN, from : Nat, drawn : Nat, a : Nat,
      interval : 0 .. CounterLimit - 1, counter : 0 .. CounterLimit - 1,
      seed : Nat \cup {NoSeed}, limit : {StateLimit, WideLimit}, foreign : BOOLEAN ]

\* A counter lies in its cycle, unless it came from elsewhere.
InCycle(m) ==
    m.kind = "frotz" /\ m.interval # 0 /\ ~m.foreign => m.counter < m.interval

\* Two generators that draw the same numbers from now on: two of a kind that
\* agree on what that kind draws from, Frotz's states as far as ours are kept.
SameDraws(m, n) ==
    /\ m.kind = n.kind
    /\ m.kind = "pcg" => m.from = n.from /\ m.drawn = n.drawn
    /\ m.kind = "frotz" =>
          /\ m.interval = n.interval
          /\ m.interval # 0 => m.counter = n.counter
          /\ m.interval = 0 => m.a % StateLimit = n.a % StateLimit

Twins ==
    /\ twins \in [{1, 2} -> GeneratorState]
    /\ twins[1].limit = StateLimit
    /\ \A i \in {1, 2} : InCycle(twins[i])
    /\ together => SameDraws(twins[1], twins[2]) /\ numbers[1] = numbers[2]

-----------------------------------------------------------------------------
LEMMA Limits ==
  /\ StateLimit \in Nat \ {0} /\ WideLimit \in Nat \ {0} /\ WideLimit % StateLimit = 0
  /\ Shift \in Nat \ {0} /\ ResultLimit \in Nat \ {0} /\ StateLimit = Shift * ResultLimit
  /\ Multiplier \in Nat /\ Increment \in Nat
  /\ CounterLimit \in Nat \ {0} /\ IntervalSeed \in 1 .. CounterLimit
<1>1. Shift \in Nat \ {0} /\ ResultLimit \in Nat \ {0} /\ StateLimit = Shift * ResultLimit
  BY RandomAssumption
<1>2. Shift * ResultLimit \in Nat \ {0}
  BY <1>1
<1> QED BY <1>1, <1>2, RandomAssumption

\* A number taken apart, with names for its parts.
LEMMA TakenApart ==
  ASSUME NEW n \in Int, NEW k \in Nat \ {0}
  PROVE  \E q \in Int, r \in 0 .. k - 1 : n = k * q + r /\ n \div k = q /\ n % k = r
<1>1. n = k * (n \div k) + (n % k) /\ n \div k \in Int /\ n % k \in 0 .. k - 1
  BY DivisionParts
<1> WITNESS n \div k \in Int, n % k \in 0 .. k - 1
<1> QED BY <1>1

\* What is left of a number by both limits is left by the smaller alone.
LEMMA NarrowOfWide ==
  ASSUME NEW x \in Nat, NEW limit \in {StateLimit, WideLimit}
  PROVE  x % limit \in Nat /\ (x % limit) % StateLimit = x % StateLimit
<1>1. limit \in Nat \ {0}
  BY Limits
<1>2. PICK q \in Int, r \in 0 .. limit - 1 :
        x = limit * q + r /\ x \div limit = q /\ x % limit = r
  BY <1>1, TakenApart
<1>3. q \in Int /\ r \in 0 .. limit - 1 /\ x = limit * q + r
  BY <1>2
<1>4. PICK k \in Int : limit = StateLimit * k
  <2>1. CASE limit = StateLimit
    <3>1. StateLimit = StateLimit * 1
      BY Limits
    <3> QED BY <2>1, <3>1
  <2>2. CASE limit = WideLimit
    <3>1. WideLimit \in Int
      BY Limits
    <3>2. PICK k \in Int, r0 \in 0 .. StateLimit - 1 :
            WideLimit = StateLimit * k + r0 /\ WideLimit % StateLimit = r0
      BY <3>1, Limits, TakenApart
    <3>3. WideLimit = StateLimit * k + 0
      BY <3>2, Limits
    <3>4. StateLimit * k \in Int
      BY <3>3, Limits
    <3> QED BY <2>2, <3>3, <3>4
  <2> QED BY <2>1, <2>2
<1>5. PICK p \in Int, s \in 0 .. StateLimit - 1 : r = StateLimit * p + s /\ r % StateLimit = s
  BY <1>3, Limits, TakenApart
<1>6. p \in Int /\ s \in 0 .. StateLimit - 1 /\ r = StateLimit * p + s
  BY <1>5
<1>7. StateLimit * (k * q + p) = (StateLimit * k) * q + StateLimit * p
  BY <1>3, <1>4, <1>6, Limits
<1>8. k * q + p \in Int
  BY <1>3, <1>4, <1>6
<1>9. x = StateLimit * (k * q + p) + s
  <2>1. x = (StateLimit * k) * q + (StateLimit * p + s)
    BY <1>3, <1>4, <1>6
  <2>2. (StateLimit * k) * q \in Int /\ StateLimit * p \in Int /\ s \in Int
    BY <1>3, <1>4, <1>6, Limits
  <2>3. PICK u, v : u = (StateLimit * k) * q /\ v = StateLimit * p
    OBVIOUS
  <2>4. u \in Int /\ v \in Int /\ x = u + (v + s) /\ StateLimit * (k * q + p) = u + v
    BY <1>7, <2>1, <2>2, <2>3
  <2> QED BY <2>2, <2>4
<1>10. x % StateLimit = s
  BY <1>6, <1>8, <1>9, Limits, DivisionOf
<1>11. x % limit = r /\ r \in Nat
  BY <1>1, <1>2
<1> QED BY <1>5, <1>10, <1>11

\* One step of the generator depends on no more of a state than is kept.
LEMMA StepOfNarrow ==
  ASSUME NEW x \in Nat, NEW y \in Nat, x % StateLimit = y % StateLimit
  PROVE  (x * Multiplier + Increment) % StateLimit = (y * Multiplier + Increment) % StateLimit
<1>0. StateLimit \in Nat \ {0} /\ x \in Int /\ y \in Int
  BY Limits
<1>1. PICK p \in Int, r \in 0 .. StateLimit - 1 : x = StateLimit * p + r /\ x % StateLimit = r
  BY <1>0, TakenApart
<1>2. PICK q \in Int, rest \in 0 .. StateLimit - 1 :
        y = StateLimit * q + rest /\ y % StateLimit = rest
  BY <1>0, TakenApart
<1>3. PICK t : t = r * Multiplier + Increment
  OBVIOUS
<1>4. t \in Int
  BY <1>1, <1>3, Limits
<1>5. PICK u \in Int, s \in 0 .. StateLimit - 1 : t = StateLimit * u + s
  BY <1>0, <1>4, TakenApart, ZenonT(40)
<1>6. u \in Int /\ s \in 0 .. StateLimit - 1 /\ t = StateLimit * u + s
  BY <1>5
<1>7. ASSUME NEW z \in Nat, NEW w \in Int, z = StateLimit * w + r
      PROVE  (z * Multiplier + Increment) % StateLimit = s
  <2>1. z * Multiplier = StateLimit * (w * Multiplier) + r * Multiplier
    BY <1>1, <1>7, Limits
  <2>2. StateLimit * (w * Multiplier + u) = StateLimit * (w * Multiplier) + StateLimit * u
    BY <1>6, <1>7, Limits
  <2>3. z * Multiplier + Increment = StateLimit * (w * Multiplier + u) + s
    <3>1. PICK b, c, d : b = StateLimit * (w * Multiplier) /\ c = r * Multiplier /\ d = StateLimit * u
      OBVIOUS
    <3>2. b \in Int /\ c \in Int /\ d \in Int /\ s \in Int /\ Increment \in Int
      BY <1>1, <1>6, <1>7, <3>1, Limits
    <3>3. z * Multiplier = b + c /\ StateLimit * (w * Multiplier + u) = b + d
      BY <2>1, <2>2, <3>1
    <3>4. c + Increment = d + s
      BY <1>3, <1>6, <3>1
    <3> QED BY <3>2, <3>3, <3>4
  <2>4. w * Multiplier + u \in Int /\ z * Multiplier + Increment \in Int
    BY <1>6, <1>7, Limits
  <2>5. PICK next, quotient : next = z * Multiplier + Increment /\ quotient = w * Multiplier + u
    OBVIOUS
  <2>6. next \in Int /\ quotient \in Int /\ next = StateLimit * quotient + s
    BY <2>3, <2>4, <2>5
  <2>7. next % StateLimit = s
    BY <1>6, <2>6, Limits, DivisionOf, SMTT(20)
  <2> QED BY <2>5, <2>7
<1>8. y = StateLimit * q + r
  BY <1>1, <1>2
<1>9. (x * Multiplier + Increment) % StateLimit = s
  BY <1>1, <1>7
<1>10. (y * Multiplier + Increment) % StateLimit = s
  BY <1>2, <1>7, <1>8
<1> QED BY <1>9, <1>10

\* The number drawn from a state does not depend on more of it either.
LEMMA NumberOfNarrow ==
  ASSUME NEW x \in Nat
  PROVE  (x \div Shift) % ResultLimit = (x % StateLimit) \div Shift
<1>0. StateLimit \in Nat \ {0} /\ x \in Int
  BY Limits
<1>1. PICK q \in Int, r \in 0 .. StateLimit - 1 : x = StateLimit * q + r /\ x % StateLimit = r
  BY <1>0, TakenApart
<1>2. q \in Int /\ r \in 0 .. StateLimit - 1 /\ x = StateLimit * q + r /\ r \in Nat
  BY <1>1, Limits
<1>3. PICK d \in Int, s \in 0 .. Shift - 1 : r = Shift * d + s /\ r \div Shift = d
  BY <1>2, Limits, TakenApart
<1>10. r \div Shift \in Nat
  BY <1>2, Limits, DivisionParts
<1>4. d \in Int /\ d >= 0 /\ s \in 0 .. Shift - 1 /\ r = Shift * d + s
  BY <1>3, <1>10
<1>5. d < ResultLimit
  <2> SUFFICES ASSUME d >= ResultLimit PROVE FALSE
    BY <1>4, Limits
  <2>1. Shift * (d - ResultLimit) >= 0
    BY <1>4, Limits
  <2>2. Shift * (d - ResultLimit) = Shift * d - Shift * ResultLimit
    BY <1>4, Limits
  <2>3. PICK b : b = Shift * d
    OBVIOUS
  <2>4. b \in Int /\ b - StateLimit >= 0 /\ r = b + s
    BY <1>4, <2>1, <2>2, <2>3, Limits
  <2> QED BY <1>2, <1>4, <2>4, Limits
<1>6. x = Shift * (ResultLimit * q + d) + s
  <2>1. Shift * (ResultLimit * q + d) = (Shift * ResultLimit) * q + Shift * d
    BY <1>2, <1>4, Limits
  <2>2. PICK b, c : b = (Shift * ResultLimit) * q /\ c = Shift * d
    OBVIOUS
  <2>3. b \in Int /\ c \in Int /\ s \in Int
    BY <1>2, <1>4, <2>2, Limits
  <2>4. x = b + (c + s) /\ Shift * (ResultLimit * q + d) = b + c
    BY <1>2, <1>4, <2>1, <2>2, Limits
  <2> QED BY <2>3, <2>4
<1>7. ResultLimit * q + d \in Int
  BY <1>2, <1>4, Limits
<1>8. x \div Shift = ResultLimit * q + d
  BY <1>4, <1>6, <1>7, Limits, DivisionOf
<1>9. (ResultLimit * q + d) % ResultLimit = d
  <2>1. d \in 0 .. ResultLimit - 1
    BY <1>4, <1>5, Limits
  <2> QED BY <1>2, <1>7, <2>1, Limits, DivisionOf
<1> QED BY <1>1, <1>3, <1>8, <1>9

-----------------------------------------------------------------------------
\* The cases of a seed, in the order of SeedWith.
LEMMA SownFields ==
  ASSUME NEW m \in GeneratorState, NEW seed \in Nat, NEW entropy \in Entropy \cup {NoEntropy},
         NEW e, e = Sown(m, seed, entropy)
  PROVE  /\ e \in GeneratorState /\ e.kind = m.kind /\ e.limit = m.limit
         /\ e.kind = "frotz" /\ e.interval # 0 => e.counter < e.interval
         /\ e.kind = "pcg" => e.from = seed /\ e.drawn = 0
         /\ e.kind = "frotz" /\ seed \in 1 .. IntervalSeed - 1 => e.interval = seed /\ e.counter = 0
         /\ e.kind = "frotz" /\ seed >= IntervalSeed => e.interval = 0 /\ e.a = seed % m.limit
<1>1. m.limit \in Nat \ {0} /\ m.kind \in GeneratorKind
  BY Limits DEF GeneratorState
<1>2. 0 \in 0 .. CounterLimit - 1 /\ IntervalSeed \in Nat /\ CounterLimit \in Nat
  BY Limits
<1>3. CASE m.kind = "pcg"
  <2>0. PICK none \in Nat : none = 0
    OBVIOUS
  <2>1. e = [m EXCEPT !.from = seed, !.drawn = none]
    BY <1>3, <2>0 DEF Sown
  <2>2. e \in GeneratorState /\ e.kind = "pcg" /\ e.limit = m.limit /\ e.from = seed /\ e.drawn = none
    BY <1>3, <2>1 DEF GeneratorState
  <2> QED BY <1>3, <2>0, <2>2
<1>4. CASE m.kind = "frotz" /\ seed = 0 /\ entropy = NoEntropy
  <2>0. PICK a \in Nat, none \in 0 .. CounterLimit - 1 : a = 1 /\ none = 0
    BY <1>2
  <2>1. e = [m EXCEPT !.a = a, !.interval = none]
    BY <1>4, <2>0 DEF Sown
  <2>2. e \in GeneratorState /\ e.kind = "frotz" /\ e.limit = m.limit /\ e.interval = none
    BY <1>4, <2>1 DEF GeneratorState
  <2> QED BY <1>2, <1>4, <2>0, <2>2, Limits
<1>5. CASE m.kind = "frotz" /\ seed = 0 /\ entropy # NoEntropy
  <2>1. e = [m EXCEPT !.a = entropy % m.limit, !.interval = 0, !.counter = 0]
    BY <1>5 DEF Sown
  <2>2. entropy \in Nat
    BY <1>5, RandomAssumption
  <2>3. PICK a \in Nat : a = entropy % m.limit
    BY <1>1, <2>2
  <2>4. e = [m EXCEPT !.a = a, !.interval = 0, !.counter = 0]
    BY <2>1, <2>3
  <2>5. e \in GeneratorState /\ e.kind = "frotz" /\ e.limit = m.limit /\ e.interval = 0
    BY <1>2, <1>5, <2>4 DEF GeneratorState
  <2> QED BY <1>2, <1>5, <2>5, Limits
<1>6. CASE m.kind = "frotz" /\ seed \in 1 .. IntervalSeed - 1
  <2>1. e = [m EXCEPT !.interval = seed, !.counter = 0]
    BY <1>6 DEF Sown
  <2>2. seed \in 0 .. CounterLimit - 1
    BY <1>6, Limits
  <2>3. e \in GeneratorState /\ e.kind = "frotz" /\ e.limit = m.limit /\ e.interval = seed /\ e.counter = 0
    BY <1>2, <1>6, <2>1, <2>2 DEF GeneratorState
  <2> QED BY <1>2, <1>6, <2>3
<1>7. CASE m.kind = "frotz" /\ seed >= IntervalSeed
  <2>1. e = [m EXCEPT !.a = seed % m.limit, !.interval = 0]
    BY <1>2, <1>7, Limits DEF Sown
  <2>2. PICK a \in Nat : a = seed % m.limit
    BY <1>1
  <2>3. e = [m EXCEPT !.a = a, !.interval = 0]
    BY <2>1, <2>2
  <2>4. e \in GeneratorState /\ e.kind = "frotz" /\ e.limit = m.limit /\ e.interval = 0 /\ e.a = a
    BY <1>2, <1>7, <2>2, <2>3 DEF GeneratorState
  <2> QED BY <1>2, <1>7, <2>2, <2>4, Limits
<1> QED BY <1>1, <1>2, <1>3, <1>4, <1>5, <1>6, <1>7, Limits DEF GeneratorKind

LEMMA SetRandomSeedFields ==
  ASSUME NEW m \in GeneratorState, NEW seed \in Nat, NEW entropy \in Entropy \cup {NoEntropy},
         NEW e, e = SetRandomSeed(m, seed, entropy)
  PROVE  /\ e \in GeneratorState /\ e.kind = m.kind /\ e.limit = m.limit
         /\ InCycle(e)
         /\ e.kind = "pcg" => e.from = seed /\ e.drawn = 0
         /\ e.kind = "frotz" /\ seed \in 1 .. IntervalSeed - 1 => e.interval = seed /\ e.counter = 0
         /\ e.kind = "frotz" /\ seed >= IntervalSeed => e.interval = 0 /\ e.a = seed % m.limit
<1>1. PICK s : s = Sown(m, seed, entropy)
  OBVIOUS
<1>2. e = [s EXCEPT !.predictable = TRUE, !.foreign = FALSE]
  BY <1>1 DEF SetRandomSeed
<1>3. s \in GeneratorState
  BY <1>1, SownFields
<1>4. /\ e \in GeneratorState /\ e.kind = s.kind /\ e.limit = s.limit /\ e.from = s.from
      /\ e.drawn = s.drawn /\ e.a = s.a /\ e.interval = s.interval /\ e.counter = s.counter
  BY <1>2, <1>3 DEF GeneratorState
<1>5. s.kind = "frotz" /\ s.interval # 0 => s.counter < s.interval
  BY <1>1, SownFields
<1>6. InCycle(e)
  BY <1>4, <1>5 DEF InCycle
<1>7. /\ s.kind = m.kind /\ s.limit = m.limit
      /\ s.kind = "pcg" => s.from = seed /\ s.drawn = 0
      /\ s.kind = "frotz" /\ seed \in 1 .. IntervalSeed - 1 => s.interval = seed /\ s.counter = 0
      /\ s.kind = "frotz" /\ seed >= IntervalSeed => s.interval = 0 /\ s.a = seed % m.limit
  BY <1>1, SownFields
<1> QED BY <1>4, <1>6, <1>7

LEMMA ReseededFields ==
  ASSUME NEW m \in GeneratorState, NEW entropy \in Entropy \cup {NoEntropy}, InCycle(m),
         NEW e, e = Reseeded(m, entropy)
  PROVE  e \in GeneratorState /\ e.limit = m.limit /\ InCycle(e)
<1>1. CASE entropy = NoEntropy
  BY <1>1 DEF Reseeded
<1>2. CASE entropy # NoEntropy
  <2>1. entropy \in Nat /\ m.limit \in Nat \ {0} /\ 0 \in 0 .. CounterLimit - 1
    BY <1>2, Limits, RandomAssumption DEF GeneratorState
  <2>2. PICK from \in Nat, a \in Nat : /\ from = IF m.kind = "pcg" THEN entropy ELSE m.from
                                      /\ a = IF m.kind = "frotz" THEN entropy % m.limit ELSE m.a
    <3>1. entropy % m.limit \in Nat
      BY <2>1
    <3> QED BY <2>1, <3>1 DEF GeneratorState
  <2>3. PICK drawn \in Nat, none \in 0 .. CounterLimit - 1 : drawn = 0 /\ none = 0
    BY <2>1
  <2>4. e = [m EXCEPT !.from = from, !.drawn = drawn, !.a = a, !.interval = none, !.counter = none,
                      !.predictable = FALSE, !.foreign = FALSE]
    BY <1>2, <2>2, <2>3 DEF Reseeded
  <2>5. e \in GeneratorState /\ e.limit = m.limit /\ e.interval = none
    BY <2>4 DEF GeneratorState
  <2> QED BY <2>3, <2>5 DEF InCycle
<1> QED BY <1>1, <1>2

LEMMA SeedRandomFields ==
  ASSUME NEW m \in GeneratorState, NEW entropy \in Entropy, InCycle(m),
         NEW e, e = SeedRandom(m, entropy)
  PROVE  e \in GeneratorState /\ e.limit = m.limit /\ InCycle(e)
<1>1. CASE m.seed = NoSeed
  BY <1>1, ReseededFields DEF SeedRandom
<1>2. CASE m.seed # NoSeed
  <2>1. m.seed \in Nat
    BY <1>2 DEF GeneratorState
  <2>2. e = SetRandomSeed(m, m.seed, entropy)
    BY <1>2 DEF SeedRandom
  <2> QED BY <2>1, <2>2, SetRandomSeedFields
<1> QED BY <1>1, <1>2

-----------------------------------------------------------------------------
\* A counter in its cycle stays there, and comes round.
LEMMA DrawnFields ==
  ASSUME NEW m \in GeneratorState, NEW e, e = Drawn(m)
  PROVE  /\ e \in GeneratorState /\ e.limit = m.limit /\ e.kind = m.kind
         /\ InCycle(m) => InCycle(e)
         /\ m.kind = "pcg" => e.from = m.from /\ e.drawn = m.drawn + 1
         /\ m.kind = "frotz" => e.interval = m.interval
         /\ m.kind = "frotz" /\ m.interval # 0 => e.counter = Advanced(m).counter
         /\ m.kind = "frotz" /\ m.interval = 0 => e.a = (m.a * Multiplier + Increment) % m.limit
<1>1. m.kind \in GeneratorKind
  BY DEF GeneratorState
<1>2. CASE m.kind = "pcg"
  <2>1. e = [m EXCEPT !.drawn = m.drawn + 1]
    BY <1>2 DEF Drawn
  <2>2. m.drawn + 1 \in Nat
    BY DEF GeneratorState
  <2> QED BY <1>2, <2>1, <2>2 DEF GeneratorState, InCycle
<1>3. CASE m.kind = "frotz" /\ m.interval # 0
  <2>1. PICK next : next = (m.counter + 1) % CounterLimit
    OBVIOUS
  <2>2. PICK counter : counter = IF next = m.interval THEN 0 ELSE next
    OBVIOUS
  <2>3. e = [m EXCEPT !.counter = counter] /\ e = Advanced(m)
    BY <1>3, <2>1, <2>2 DEF Drawn, Advanced
  <2>4. m.counter \in 0 .. CounterLimit - 1 /\ m.interval \in 1 .. CounterLimit - 1
    BY <1>3, Limits DEF GeneratorState
  <2>5. next \in 0 .. CounterLimit - 1
    <3>1. m.counter + 1 \in Int
      BY <2>4, Limits
    <3> QED BY <2>1, <3>1, Limits, DivisionParts
  <2>6. counter \in 0 .. CounterLimit - 1
    BY <2>2, <2>5, Limits
  <2>7. e \in GeneratorState /\ e.counter = counter /\ e.limit = m.limit /\ e.kind = m.kind
        /\ e.interval = m.interval /\ e.foreign = m.foreign
    BY <2>3, <2>6 DEF GeneratorState
  <2>8. ASSUME m.counter < m.interval PROVE counter < m.interval
    <3>1. m.counter + 1 \in 0 .. CounterLimit - 1
      BY <2>4, <2>8, Limits
    <3>2. next = m.counter + 1
      BY <2>1, <3>1, Limits, RemainderOfSmall
    <3> QED BY <2>2, <2>4, <2>8, <3>2, Limits
  <2>9. InCycle(m) => InCycle(e)
    BY <1>3, <2>7, <2>8 DEF InCycle
  <2> QED BY <1>3, <2>3, <2>7, <2>9
<1>4. CASE m.kind = "frotz" /\ m.interval = 0
  <2>1. m.a * Multiplier + Increment \in Nat /\ m.limit \in Nat \ {0}
    BY Limits DEF GeneratorState
  <2>2. PICK a \in Nat : a = (m.a * Multiplier + Increment) % m.limit
    BY <2>1
  <2>3. e = [m EXCEPT !.a = a]
    BY <1>4, <2>2 DEF Drawn
  <2> QED BY <1>4, <2>2, <2>3 DEF GeneratorState, InCycle
<1> QED BY <1>1, <1>2, <1>3, <1>4 DEF GeneratorKind

\* Generators that agree go on in agreement.
LEMMA DrawnAlike ==
  ASSUME NEW m \in GeneratorState, NEW n \in GeneratorState, SameDraws(m, n),
         NEW e, e = Drawn(m), NEW f, f = Drawn(n)
  PROVE  SameDraws(e, f)
<1>1. m.kind = n.kind /\ m.kind \in GeneratorKind
  BY DEF SameDraws, GeneratorState
<1>2. e.kind = m.kind /\ f.kind = n.kind
  BY DrawnFields
<1>3. CASE m.kind = "pcg"
  <2>1. m.from = n.from /\ m.drawn = n.drawn
    BY <1>3 DEF SameDraws
  <2>2. e.from = m.from /\ e.drawn = m.drawn + 1
    BY <1>3, DrawnFields
  <2>3. f.from = n.from /\ f.drawn = n.drawn + 1
    BY <1>1, <1>3, DrawnFields
  <2> QED BY <1>1, <1>2, <1>3, <2>1, <2>2, <2>3 DEF SameDraws
<1>4. CASE m.kind = "frotz" /\ m.interval # 0
  <2>1. m.interval = n.interval /\ m.counter = n.counter
    BY <1>4 DEF SameDraws
  <2>2. e.interval = m.interval /\ e.counter = Advanced(m).counter
    BY <1>4, DrawnFields
  <2>3. f.interval = n.interval /\ f.counter = Advanced(n).counter
    BY <1>1, <1>4, <2>1, DrawnFields
  <2>4. ASSUME NEW g \in GeneratorState
        PROVE  Advanced(g).counter = LET next == (g.counter + 1) % CounterLimit
                                     IN  IF next = g.interval THEN 0 ELSE next
    BY DEF Advanced, GeneratorState
  <2>5. Advanced(m).counter = Advanced(n).counter
    BY <2>1, <2>4
  <2> QED BY <1>1, <1>2, <1>4, <2>1, <2>2, <2>3, <2>5 DEF SameDraws
<1>5. CASE m.kind = "frotz" /\ m.interval = 0
  <2>1. n.interval = 0 /\ m.a % StateLimit = n.a % StateLimit
    BY <1>5 DEF SameDraws
  <2>2. e.interval = 0 /\ e.a = (m.a * Multiplier + Increment) % m.limit
    BY <1>5, DrawnFields
  <2>3. f.interval = 0 /\ f.a = (n.a * Multiplier + Increment) % n.limit
    BY <1>1, <1>5, <2>1, DrawnFields
  <2>4. m.a \in Nat /\ n.a \in Nat /\ {m.limit, n.limit} \subseteq {StateLimit, WideLimit}
    BY DEF GeneratorState
  <2>5. m.a * Multiplier + Increment \in Nat /\ n.a * Multiplier + Increment \in Nat
    BY <2>4, Limits
  <2>6. e.a % StateLimit = (m.a * Multiplier + Increment) % StateLimit
    BY <2>2, <2>4, <2>5, NarrowOfWide
  <2>7. f.a % StateLimit = (n.a * Multiplier + Increment) % StateLimit
    BY <2>3, <2>4, <2>5, NarrowOfWide
  <2>8. e.a % StateLimit = f.a % StateLimit
    BY <2>1, <2>4, <2>6, <2>7, StepOfNarrow
  <2> QED BY <1>1, <1>2, <1>5, <2>2, <2>3, <2>8 DEF SameDraws
<1> QED BY <1>1, <1>3, <1>4, <1>5 DEF GeneratorKind

\* And they draw the same number.
LEMMA NumbersAlike ==
  ASSUME NEW m \in GeneratorState, NEW n \in GeneratorState, SameDraws(m, n), NEW range
  PROVE  Number(m, range) = Number(n, range)
<1>1. m.kind = n.kind /\ m.kind \in GeneratorKind
  BY DEF SameDraws, GeneratorState
<1>2. CASE m.kind = "pcg"
  <2>1. m.from = n.from /\ m.drawn = n.drawn
    BY <1>2 DEF SameDraws
  <2> QED BY <1>1, <1>2, <2>1 DEF Number
<1>3. CASE m.kind = "frotz" /\ m.interval # 0
  <2>1. m.interval = n.interval /\ m.counter = n.counter
    BY <1>3 DEF SameDraws
  <2> QED BY <1>1, <1>3, <2>1 DEF Number
<1>4. CASE m.kind = "frotz" /\ m.interval = 0
  <2>1. PICK e, f : e = Drawn(m) /\ f = Drawn(n)
    OBVIOUS
  <2>2. SameDraws(e, f)
    BY <2>1, DrawnAlike
  <2>3. e.kind = "frotz" /\ e.interval = 0
    BY <1>4, <2>1, DrawnFields
  <2>4. e.a % StateLimit = f.a % StateLimit
    BY <2>2, <2>3 DEF SameDraws
  <2>5. e.a \in Nat /\ f.a \in Nat
    BY <2>1, DrawnFields DEF GeneratorState
  <2>6. (e.a \div Shift) % ResultLimit = (f.a \div Shift) % ResultLimit
    BY <2>4, <2>5, NumberOfNarrow
  <2>7. n.interval = 0
    BY <1>4 DEF SameDraws
  <2>8. Number(m, range) = (((e.a \div Shift) % ResultLimit) % range) + 1
    BY <1>4, <2>1 DEF Number
  <2>9. Number(n, range) = (((f.a \div Shift) % ResultLimit) % range) + 1
    BY <1>1, <1>4, <2>1, <2>7 DEF Number
  <2> QED BY <2>6, <2>8, <2>9
<1> QED BY <1>1, <1>2, <1>3, <1>4 DEF GeneratorKind

\* The same seed makes two generators of a kind agree, whatever they did before.
LEMMA SownAlike ==
  ASSUME NEW m \in GeneratorState, NEW n \in GeneratorState, m.kind = n.kind,
         NEW seed \in Nat \ {0}, NEW e, e = SetRandomSeed(m, seed, NoEntropy),
         NEW f, f = SetRandomSeed(n, seed, NoEntropy)
  PROVE  SameDraws(e, f)
<1>1. e.kind = f.kind /\ e.kind \in GeneratorKind
  BY SetRandomSeedFields DEF GeneratorState
<1>2. CASE e.kind = "pcg"
  <2>1. e.from = seed /\ e.drawn = 0
    BY <1>2, SetRandomSeedFields
  <2>2. f.from = seed /\ f.drawn = 0
    BY <1>1, <1>2, SetRandomSeedFields
  <2> QED BY <1>1, <1>2, <2>1, <2>2 DEF SameDraws
<1>3. CASE e.kind = "frotz" /\ seed < IntervalSeed
  <2>1. seed \in 1 .. IntervalSeed - 1
    BY <1>3, Limits
  <2>2. e.interval = seed /\ e.counter = 0
    BY <1>3, <2>1, SetRandomSeedFields
  <2>3. f.interval = seed /\ f.counter = 0
    BY <1>1, <1>3, <2>1, SetRandomSeedFields
  <2> QED BY <1>1, <1>3, <2>2, <2>3 DEF SameDraws
<1>4. CASE e.kind = "frotz" /\ seed >= IntervalSeed
  <2>1. e.interval = 0 /\ e.a = seed % m.limit
    BY <1>4, SetRandomSeedFields
  <2>2. f.interval = 0 /\ f.a = seed % n.limit
    BY <1>1, <1>4, SetRandomSeedFields
  <2>3. {m.limit, n.limit} \subseteq {StateLimit, WideLimit}
    BY DEF GeneratorState
  <2>4. e.a % StateLimit = seed % StateLimit
    BY <2>1, <2>3, NarrowOfWide
  <2>5. f.a % StateLimit = seed % StateLimit
    BY <2>2, <2>3, NarrowOfWide
  <2> QED BY <1>1, <1>4, <2>1, <2>2, <2>4, <2>5 DEF SameDraws
<1> QED BY <1>1, <1>2, <1>3, <1>4, Limits DEF GeneratorKind

\* A chunk whose fields have their width makes a generator.
LEMMA RestoredFields ==
  ASSUME NEW m \in GeneratorState, NEW foreign \in BOOLEAN, NEW chunk,
         chunk.kind \in GeneratorKind, chunk.predictable \in BOOLEAN,
         chunk.from \in Nat, chunk.drawn \in Nat, chunk.a \in Nat,
         chunk.interval \in 0 .. CounterLimit - 1, chunk.counter \in 0 .. CounterLimit - 1,
         NEW e, e = RestoredFrom(m, chunk, foreign)
  PROVE  /\ e \in GeneratorState /\ e.limit = m.limit /\ e.foreign = foreign
         /\ e.kind = chunk.kind /\ e.from = chunk.from /\ e.drawn = chunk.drawn
         /\ e.a = chunk.a % StateLimit
         /\ e.interval = chunk.interval /\ e.counter = chunk.counter
<1>1. chunk.a % StateLimit \in Nat
  BY Limits
<1>2. m.seed \in Nat \cup {NoSeed} /\ m.limit \in {StateLimit, WideLimit}
  BY DEF GeneratorState
<1> QED BY <1>1, <1>2 DEF RestoredFrom, GeneratorState

\* A saved state goes on where it was taken.
LEMMA MovedAlike ==
  ASSUME NEW m \in GeneratorState, NEW n \in GeneratorState, InCycle(m),
         NEW e, e = RestoredFrom(n, Chunk(m), m.foreign)
  PROVE  /\ e \in GeneratorState /\ e.limit = n.limit /\ InCycle(e)
         /\ SameDraws(m, e)
<1>1. PICK chunk : chunk = Chunk(m)
  OBVIOUS
<1>2. /\ chunk.kind = m.kind /\ chunk.predictable = m.predictable /\ chunk.from = m.from
      /\ chunk.drawn = m.drawn /\ chunk.a = m.a /\ chunk.interval = m.interval
      /\ chunk.counter = m.counter
  BY <1>1 DEF Chunk
<1>3. /\ m.kind \in GeneratorKind /\ m.predictable \in BOOLEAN /\ m.foreign \in BOOLEAN
      /\ m.from \in Nat /\ m.drawn \in Nat /\ m.a \in Nat
      /\ m.interval \in 0 .. CounterLimit - 1 /\ m.counter \in 0 .. CounterLimit - 1
  BY DEF GeneratorState
<1>4. e = RestoredFrom(n, chunk, m.foreign)
  BY <1>1
<1>5. /\ e \in GeneratorState /\ e.limit = n.limit /\ e.foreign = m.foreign
      /\ e.kind = m.kind /\ e.from = m.from /\ e.drawn = m.drawn /\ e.a = m.a % StateLimit
      /\ e.interval = m.interval /\ e.counter = m.counter
  <2>1. PICK a : a = m.a % StateLimit
    OBVIOUS
  <2>2. a \in Nat
    BY <1>3, <2>1, Limits
  <2>3. e = [ kind |-> m.kind, predictable |-> m.predictable, from |-> m.from,
              drawn |-> m.drawn, a |-> a, interval |-> m.interval,
              counter |-> m.counter, seed |-> n.seed, limit |-> n.limit, foreign |-> m.foreign ]
    BY <1>2, <1>4, <2>1 DEF RestoredFrom
  <2>4. n.seed \in Nat \cup {NoSeed} /\ n.limit \in {StateLimit, WideLimit}
    BY DEF GeneratorState
  <2> QED BY <1>3, <2>1, <2>2, <2>3, <2>4 DEF GeneratorState
<1>6. e.a % StateLimit = m.a % StateLimit
  BY <1>3, <1>5, NarrowOfWide
<1>7. SameDraws(m, e)
  BY <1>5, <1>6 DEF SameDraws
<1>8. InCycle(e)
  BY <1>5 DEF InCycle
<1> QED BY <1>5, <1>7, <1>8

LEMMA Pair ==
  ASSUME NEW S, NEW g \in S, NEW h \in S
  PROVE  <<g, h>> \in [{1, 2} -> S] /\ <<g, h>>[1] = g /\ <<g, h>>[2] = h
OBVIOUS

-----------------------------------------------------------------------------
\* The seed that a negative operand sows is the operand without its sign, also
\* for the smallest one (executeRandom, opcode_var.go).
LEMMA SeedIsNegative ==
  ASSUME NEW m, NEW range \in Ranges, range < 0
  PROVE  SeedOf(m, range) = -range /\ -range \in Nat \ {0}
<1>1. range \in Int /\ -(RangeLimit \div 2) <= range
  BY RandomAssumption
<1>2. PICK n \in Nat \ {0} : n = -range
  BY <1>1
<1>3. /\ RangeLimit \in Nat /\ IntLimit \in Nat /\ WideLimit \in Nat \ {0}
      /\ RangeLimit \div 2 < IntLimit \div 2 /\ IntLimit <= WideLimit
  BY RandomAssumption
<1>4. PICK half, quarter \in Int : half = IntLimit \div 2 /\ quarter = RangeLimit \div 2
  BY <1>3
<1>5. half <= IntLimit
  BY <1>3, <1>4
<1>6. n < half /\ n < IntLimit /\ n < WideLimit
  BY <1>1, <1>2, <1>3, <1>4, <1>5
<1>7. n % IntLimit = n /\ n % WideLimit = n
  BY <1>3, <1>6, RemainderOfSmall
<1>8. InWidth(n, IntLimit) = n
  BY <1>4, <1>6, <1>7 DEF InWidth
<1>9. Negated(range) = n
  BY <1>2, <1>7, <1>8 DEF Negated
<1> QED BY <1>2, <1>9 DEF SeedOf

LEMMA ExecutedFields ==
  ASSUME NEW m \in GeneratorState, InCycle(m), NEW range \in Ranges,
         NEW entropy \in Entropy \cup {NoEntropy}, NEW e, e = ExecuteRandom(m, range, entropy).m
  PROVE  e \in GeneratorState /\ e.limit = m.limit /\ InCycle(e)
<1>1. range \in Int
  BY RandomAssumption
<1>2. CASE range > 0
  <2>1. e = Drawn(m)
    BY <1>1, <1>2 DEF ExecuteRandom
  <2> QED BY <2>1, DrawnFields
<1>3. CASE range < 0
  <2>1. SeedOf(m, range) \in Nat
    BY <1>3, SeedIsNegative
  <2>2. e = SetRandomSeed(m, SeedOf(m, range), entropy)
    BY <1>1, <1>3 DEF ExecuteRandom
  <2> QED BY <2>1, <2>2, SetRandomSeedFields
<1>4. CASE range = 0
  <2>1. e = Reseeded(m, entropy)
    BY <1>1, <1>4 DEF ExecuteRandom
  <2> QED BY <2>1, ReseededFields
<1> QED BY <1>1, <1>2, <1>3, <1>4

\* One of the two has been replaced, and they need not agree any more.
LEMMA OneReplaced ==
  ASSUME Twins, NEW i \in {1, 2}, NEW e \in GeneratorState, e.limit = twins[i].limit, InCycle(e),
         twins' = [twins EXCEPT ![i] = e], together' = FALSE
  PROVE  Twins'
<1>1. twins' \in [{1, 2} -> GeneratorState]
  BY DEF Twins
<1>2. \A j \in {1, 2} : twins'[j] = IF j = i THEN e ELSE twins[j]
  BY DEF Twins
<1>3. twins'[1].limit = StateLimit
  BY <1>2 DEF Twins
<1>4. \A j \in {1, 2} : InCycle(twins[j])
  BY DEF Twins
<1>5. \A j \in {1, 2} : InCycle(twins'[j])
  BY <1>2, <1>4
<1> QED BY <1>1, <1>3, <1>5 DEF Twins

LEMMA InitTwins == RandomInit => Twins
<1> SUFFICES ASSUME RandomInit PROVE Twins
  OBVIOUS
<1>1. ASSUME NEW kind \in GeneratorKind, NEW seed \in HostSeeds, NEW limit \in {StateLimit, WideLimit},
             NEW entropy \in Entropy, NEW e, e = Fresh(kind, seed, limit, entropy)
      PROVE  e \in GeneratorState /\ e.limit = limit /\ InCycle(e)
  <2>1. PICK g : g = Generator(kind, seed, limit)
    OBVIOUS
  <2>2. 0 \in 0 .. CounterLimit - 1 /\ seed \in Nat \cup {NoSeed}
    BY Limits, RandomAssumption
  <2>3. g \in GeneratorState /\ g.limit = limit /\ g.interval = 0
    BY <1>1, <2>1, <2>2 DEF Generator, GeneratorState
  <2>4. InCycle(g)
    BY <2>3 DEF InCycle
  <2>5. e = SeedRandom(g, entropy)
    BY <1>1, <2>1 DEF Fresh
  <2> QED BY <2>3, <2>4, <2>5, SeedRandomFields
<1>2. PICK kind \in GeneratorKind, seed1 \in HostSeeds, seed2 \in HostSeeds,
           limit \in {StateLimit, WideLimit}, entropy \in Entropy :
        twins = << Fresh(kind, seed1, StateLimit, entropy), Fresh(kind, seed2, limit, entropy) >>
  BY DEF RandomInit, GeneratorKind
<1>3. PICK g, h : g = Fresh(kind, seed1, StateLimit, entropy) /\ h = Fresh(kind, seed2, limit, entropy)
  OBVIOUS
<1>4. g \in GeneratorState /\ g.limit = StateLimit /\ InCycle(g)
  BY <1>1, <1>3
<1>5. h \in GeneratorState /\ InCycle(h)
  BY <1>1, <1>3
<1>6. twins = <<g, h>>
  BY <1>2, <1>3
<1>7. twins \in [{1, 2} -> GeneratorState] /\ twins[1] = g /\ twins[2] = h
  BY <1>4, <1>5, <1>6, Pair
<1>8. together = FALSE
  BY DEF RandomInit
<1> QED BY <1>4, <1>5, <1>7, <1>8 DEF Twins

LEMMA AloneKeeps ==
  ASSUME Twins, NEW i \in {1, 2}, Alone(i) \/ StartAgain(i)
  PROVE  Twins'
<1>1. twins[i] \in GeneratorState /\ InCycle(twins[i])
  BY DEF Twins
<1>2. CASE Alone(i)
  <2>1. PICK range \in Ranges, entropy \in Entropy \cup {NoEntropy} :
          twins' = [twins EXCEPT ![i] = ExecuteRandom(twins[i], range, entropy).m]
    BY <1>2 DEF Alone
  <2>2. PICK e : e = ExecuteRandom(twins[i], range, entropy).m
    OBVIOUS
  <2>3. e \in GeneratorState /\ e.limit = twins[i].limit /\ InCycle(e)
    BY <1>1, <2>2, ExecutedFields
  <2>4. twins' = [twins EXCEPT ![i] = e] /\ together' = FALSE
    BY <1>2, <2>1, <2>2 DEF Alone
  <2> QED BY <2>3, <2>4, OneReplaced
<1>3. CASE StartAgain(i)
  <2>1. PICK entropy \in Entropy : twins' = [twins EXCEPT ![i] = SeedRandom(twins[i], entropy)]
    BY <1>3 DEF StartAgain
  <2>2. PICK e : e = SeedRandom(twins[i], entropy)
    OBVIOUS
  <2>3. e \in GeneratorState /\ e.limit = twins[i].limit /\ InCycle(e)
    BY <1>1, <2>2, SeedRandomFields
  <2>4. twins' = [twins EXCEPT ![i] = e] /\ together' = FALSE
    BY <1>3, <2>1, <2>2 DEF StartAgain
  <2> QED BY <2>3, <2>4, OneReplaced
<1> QED BY <1>2, <1>3

LEMMA AlikeKeeps ==
  ASSUME Twins, Alike
  PROVE  Twins'
<1>1. PICK range \in Ranges \ {0} :
        /\ range < 0 => twins[1].kind = twins[2].kind
        /\ range > 0 => together
        /\ twins' = << ExecuteRandom(twins[1], range, NoEntropy).m, ExecuteRandom(twins[2], range, NoEntropy).m >>
        /\ numbers' = << ExecuteRandom(twins[1], range, NoEntropy).number, ExecuteRandom(twins[2], range, NoEntropy).number >>
  BY DEF Alike
<1>2. range \in Int /\ range # 0
  BY RandomAssumption
<1>3. PICK m, n : m = twins[1] /\ n = twins[2]
  OBVIOUS
<1>4. /\ m \in GeneratorState /\ InCycle(m) /\ m.limit = StateLimit
      /\ n \in GeneratorState /\ InCycle(n)
  BY <1>3 DEF Twins
<1>5. PICK e, f : e = ExecuteRandom(m, range, NoEntropy).m /\ f = ExecuteRandom(n, range, NoEntropy).m
  OBVIOUS
<1>6. /\ e \in GeneratorState /\ e.limit = m.limit /\ InCycle(e)
      /\ f \in GeneratorState /\ f.limit = n.limit /\ InCycle(f)
  BY <1>2, <1>4, <1>5, ExecutedFields
<1>7. twins' = <<e, f>>
  BY <1>1, <1>3, <1>5
<1>8. twins' \in [{1, 2} -> GeneratorState] /\ twins'[1] = e /\ twins'[2] = f
  BY <1>6, <1>7, Pair
<1>9. SameDraws(e, f) /\ numbers'[1] = numbers'[2]
  <2>1. CASE range > 0
    <3>1. SameDraws(m, n)
      BY <1>1, <1>3, <2>1 DEF Twins
    <3>2. e = Drawn(m) /\ f = Drawn(n)
      BY <1>2, <1>5, <2>1 DEF ExecuteRandom
    <3>3. numbers' = <<Number(m, range), Number(n, range)>>
      BY <1>1, <1>2, <1>3, <2>1 DEF ExecuteRandom
    <3>4. Number(m, range) = Number(n, range)
      BY <1>4, <3>1, NumbersAlike
    <3> QED BY <1>4, <3>1, <3>2, <3>3, <3>4, DrawnAlike
  <2>2. CASE range < 0
    <3>1. m.kind = n.kind
      BY <1>1, <1>3, <2>2
    <3>2. PICK seed \in Nat \ {0} : seed = SeedOf(m, range) /\ seed = SeedOf(n, range)
      BY <2>2, SeedIsNegative
    <3>3. e = SetRandomSeed(m, seed, NoEntropy) /\ f = SetRandomSeed(n, seed, NoEntropy)
      BY <1>2, <1>5, <2>2, <3>2 DEF ExecuteRandom
    <3>4. numbers' = <<0, 0>>
      BY <1>1, <1>2, <2>2 DEF ExecuteRandom
    <3>5. SameDraws(e, f)
      BY <1>4, <3>1, <3>3, SownAlike
    <3> QED BY <3>4, <3>5
  <2> QED BY <1>2, <2>1, <2>2
<1>10. twins'[1].limit = StateLimit
  BY <1>4, <1>6, <1>8
<1>11. \A i \in {1, 2} : InCycle(twins'[i])
  BY <1>6, <1>8
<1> QED BY <1>8, <1>9, <1>10, <1>11 DEF Twins

LEMMA MoveStateKeeps ==
  ASSUME Twins, MoveState
  PROVE  Twins'
<1>1. PICK m, n : m = twins[1] /\ n = twins[2]
  OBVIOUS
<1>2. /\ m \in GeneratorState /\ InCycle(m) /\ m.limit = StateLimit
      /\ n \in GeneratorState
  BY <1>1 DEF Twins
<1>3. PICK e : e = RestoredFrom(n, Chunk(m), m.foreign)
  OBVIOUS
<1>4. e \in GeneratorState /\ InCycle(e) /\ SameDraws(m, e)
  BY <1>2, <1>3, MovedAlike
<1>5. twins' = [twins EXCEPT ![2] = e] /\ numbers' = <<0, 0>>
  BY <1>1, <1>3 DEF MoveState
<1>6. twins' \in [{1, 2} -> GeneratorState] /\ twins'[1] = m /\ twins'[2] = e
  BY <1>1, <1>4, <1>5 DEF Twins
<1>7. numbers'[1] = numbers'[2]
  BY <1>5
<1>8. \A i \in {1, 2} : InCycle(twins'[i])
  BY <1>2, <1>4, <1>6
<1> QED BY <1>2, <1>4, <1>6, <1>7, <1>8 DEF Twins

LEMMA RestoreForeignKeeps ==
  ASSUME Twins, RestoreForeign
  PROVE  Twins'
<1>1. PICK chunk \in ForeignChunks :
        /\ IF CanRestore(chunk)
           THEN twins' = [twins EXCEPT ![1] = RestoredFrom(twins[1], chunk, TRUE)]
           ELSE UNCHANGED twins
        /\ together' = (together /\ ~CanRestore(chunk))
        /\ UNCHANGED numbers
  BY DEF RestoreForeign
<1>2. CASE CanRestore(chunk)
  <2>1. /\ chunk.kind \in GeneratorKind /\ chunk.predictable \in BOOLEAN
        /\ chunk.from \in Nat /\ chunk.drawn \in Nat /\ chunk.a \in Nat
        /\ chunk.interval \in 0 .. CounterLimit - 1 /\ chunk.counter \in 0 .. CounterLimit - 1
    BY <1>2, RandomAssumption DEF CanRestore, GeneratorKind
  <2>2. twins[1] \in GeneratorState
    BY DEF Twins
  <2>3. PICK e : e = RestoredFrom(twins[1], chunk, TRUE)
    OBVIOUS
  <2>4. e \in GeneratorState /\ e.limit = twins[1].limit /\ e.foreign = TRUE
    BY <2>1, <2>2, <2>3, RestoredFields, ZenonT(40)
  <2>5. InCycle(e)
    BY <2>4 DEF InCycle
  <2>6. twins' = [twins EXCEPT ![1] = e] /\ together' = FALSE
    BY <1>1, <1>2, <2>3
  <2> QED BY <2>4, <2>5, <2>6, OneReplaced
<1>3. CASE ~CanRestore(chunk)
  <2>1. UNCHANGED <<twins, numbers>> /\ (together' => together)
    BY <1>1, <1>3
  <2> QED BY <2>1 DEF Twins
<1> QED BY <1>2, <1>3

LEMMA TwinsKept == Twins /\ [RandomNext]_randomVars => Twins'
<1>1. ASSUME Twins, UNCHANGED randomVars PROVE Twins'
  BY <1>1 DEF Twins, randomVars
<1> QED BY <1>1, AloneKeeps, AlikeKeeps, MoveStateKeeps, RestoreForeignKeeps DEF RandomNext

LEMMA AlwaysTwins == RandomSpec => []Twins
BY TwinsKept, InitTwins, PTL DEF RandomSpec

\* Two generators of a kind sown with the same seed, or one that takes over what
\* the other has saved (SeedWith, MarshalState and UnmarshalState of
\* internal/prng, executeRandom), draw the same numbers for as long as they draw
\* alike, whatever they did before; among them Frotz itself, whose state is
\* wider by any multiple.
THEOREM NumbersAlwaysSame == RandomSpec => []SameNumbers
<1>1. Twins => SameNumbers
  BY DEF Twins, SameNumbers
<1> QED BY <1>1, AlwaysTwins, PTL

\* In the counting mode a counter never leaves its cycle, whatever has been sown,
\* drawn, saved or restarted (Draw, SeedWith of frotz.go); only a state that no
\* machine has written can put it beyond.
THEOREM CyclesAlwaysKept == RandomSpec => []CycleKept
<1>1. Twins => CycleKept
  BY DEF Twins, InCycle, CycleKept
<1> QED BY <1>1, AlwaysTwins, PTL

-----------------------------------------------------------------------------
\* What a number can be drawn from: a state within its width, or a place where
\* PCG draws; and so is the seed that a restart goes back to.
Sound(m) ==
    /\ m.a \in 0 .. m.limit - 1
    /\ m.from \in DOMAIN PcgNumbers
    /\ m.seed \in HostSeeds \cup {NoSeed}

BothSound == \A i \in {1, 2} : Sound(twins[i])

LEMMA LimitsWide ==
  ASSUME NEW limit \in {StateLimit, WideLimit}
  PROVE  limit \in Nat /\ limit > 1
<1>1. StateLimit \in Nat /\ StateLimit > 1 /\ WideLimit \in Nat \ {0} /\ WideLimit % StateLimit = 0
  BY Limits, RandomAssumption
<1>2. ASSUME WideLimit = 1
      PROVE  FALSE
  <2>1. 1 % StateLimit = 1
    BY <1>1, RemainderOfSmall
  <2> QED BY <1>1, <1>2, <2>1
<1> QED BY <1>1, <1>2

LEMMA Remains ==
  ASSUME NEW m \in GeneratorState, NEW n \in Nat
  PROVE  n % m.limit \in 0 .. m.limit - 1 /\ 1 \in 0 .. m.limit - 1
<1>1. m.limit \in {StateLimit, WideLimit}
  BY DEF GeneratorState
<1>2. m.limit \in Nat /\ m.limit > 1
  BY <1>1, LimitsWide
<1> QED BY <1>2

LEMMA SownSound ==
  ASSUME NEW m \in GeneratorState, Sound(m), NEW seed \in Nat, seed \in DOMAIN PcgNumbers,
         NEW entropy \in Entropy \cup {NoEntropy}
  PROVE  Sound(SetRandomSeed(m, seed, entropy))
<1>1. PICK s : s = Sown(m, seed, entropy)
  OBVIOUS
<1>2. s \in GeneratorState
  BY <1>1, SownFields
<1>3. SetRandomSeed(m, seed, entropy) = [s EXCEPT !.predictable = TRUE, !.foreign = FALSE]
  BY <1>1 DEF SetRandomSeed
<1>4. Sound(s) => Sound(SetRandomSeed(m, seed, entropy))
  BY <1>2, <1>3 DEF Sound, GeneratorState
<1>5. m.kind \in GeneratorKind
  BY DEF GeneratorState
<1>6. PICK a, b : a = seed % m.limit /\ b = entropy % m.limit
  OBVIOUS
<1>7. a \in 0 .. m.limit - 1 /\ 1 \in 0 .. m.limit - 1
  BY <1>6, Remains
<1>8. CASE m.kind = "pcg"
  <2>1. s = [m EXCEPT !.from = seed, !.drawn = 0]
    BY <1>1, <1>8 DEF Sown
  <2> QED BY <1>4, <2>1 DEF Sound, GeneratorState
<1>9. CASE m.kind = "frotz" /\ seed = 0
  <2>1. CASE entropy = NoEntropy
    <3>1. s = [m EXCEPT !.a = 1, !.interval = 0]
      BY <1>1, <1>9, <2>1 DEF Sown
    <3>2. PICK one : one = 1
      OBVIOUS
    <3>3. s = [m EXCEPT !.a = one, !.interval = 0] /\ one \in 0 .. m.limit - 1
      BY <1>7, <3>1, <3>2
    <3> QED BY <1>4, <3>3 DEF Sound, GeneratorState
  <2>2. CASE entropy # NoEntropy
    <3>1. s = [m EXCEPT !.a = b, !.interval = 0, !.counter = 0]
      BY <1>1, <1>6, <1>9, <2>2 DEF Sown
    <3>2. entropy \in Nat
      BY <2>2, RandomAssumption
    <3>3. b \in 0 .. m.limit - 1
      BY <1>6, <3>2, Remains
    <3> QED BY <1>4, <3>1, <3>3 DEF Sound, GeneratorState
  <2> QED BY <2>1, <2>2
<1>10. CASE m.kind = "frotz" /\ seed \in 1 .. IntervalSeed - 1
  <2>1. s = [m EXCEPT !.interval = seed, !.counter = 0]
    BY <1>1, <1>10 DEF Sown
  <2> QED BY <1>4, <2>1 DEF Sound, GeneratorState
<1>11. CASE m.kind = "frotz" /\ seed # 0 /\ seed \notin 1 .. IntervalSeed - 1
  <2>1. s = [m EXCEPT !.a = a, !.interval = 0]
    BY <1>1, <1>6, <1>11 DEF Sown
  <2> QED BY <1>4, <1>7, <2>1 DEF Sound, GeneratorState
<1> QED BY <1>5, <1>8, <1>9, <1>10, <1>11 DEF GeneratorKind

LEMMA ReseededSound ==
  ASSUME NEW m \in GeneratorState, Sound(m), NEW entropy \in Entropy \cup {NoEntropy}
  PROVE  Sound(Reseeded(m, entropy))
<1>1. CASE entropy = NoEntropy
  BY <1>1 DEF Reseeded
<1>2. CASE entropy # NoEntropy
  <2>1. entropy \in Entropy /\ entropy \in Nat /\ entropy \in DOMAIN PcgNumbers
    BY <1>2, RandomAssumption
  <2>2. PICK from, a : /\ from = (IF m.kind = "pcg" THEN entropy ELSE m.from)
                       /\ a = (IF m.kind = "frotz" THEN entropy % m.limit ELSE m.a)
    OBVIOUS
  <2>3. a \in 0 .. m.limit - 1
    BY <2>1, <2>2, Remains DEF Sound
  <2>4. from \in DOMAIN PcgNumbers
    BY <2>1, <2>2 DEF Sound
  <2>5. Reseeded(m, entropy) =
          [m EXCEPT !.from = from, !.drawn = 0, !.a = a, !.interval = 0, !.counter = 0,
                    !.predictable = FALSE, !.foreign = FALSE]
    BY <1>2, <2>2 DEF Reseeded
  <2> QED BY <2>3, <2>4, <2>5 DEF Sound, GeneratorState
<1> QED BY <1>1, <1>2

LEMMA SeedSound ==
  ASSUME NEW m \in GeneratorState, Sound(m), NEW entropy \in Entropy
  PROVE  Sound(SeedRandom(m, entropy))
<1>1. CASE m.seed = NoSeed
  BY <1>1, ReseededSound DEF SeedRandom
<1>2. CASE m.seed # NoSeed
  <2>1. m.seed \in HostSeeds /\ m.seed \in Nat /\ m.seed \in DOMAIN PcgNumbers
    BY <1>2, RandomAssumption DEF Sound
  <2> QED BY <1>2, <2>1, SownSound DEF SeedRandom
<1> QED BY <1>1, <1>2

LEMMA DrawnSound ==
  ASSUME NEW m \in GeneratorState, Sound(m)
  PROVE  Sound(Drawn(m))
<1>1. m.kind \in GeneratorKind
  BY DEF GeneratorState
<1>2. CASE m.kind = "pcg"
  <2>1. Drawn(m) = [m EXCEPT !.drawn = m.drawn + 1]
    BY <1>2 DEF Drawn
  <2> QED BY <2>1 DEF Sound, GeneratorState
<1>3. CASE m.kind = "frotz" /\ m.interval # 0
  <2>1. PICK counter : Drawn(m) = [m EXCEPT !.counter = counter]
    BY <1>3 DEF Drawn, Advanced
  <2> QED BY <2>1 DEF Sound, GeneratorState
<1>4. CASE m.kind = "frotz" /\ m.interval = 0
  <2>1. PICK n, a : n = m.a * Multiplier + Increment /\ a = n % m.limit
    OBVIOUS
  <2>2. n \in Nat
    BY <2>1, Limits DEF GeneratorState
  <2>3. a \in 0 .. m.limit - 1
    BY <2>1, <2>2, Remains
  <2>4. Drawn(m) = [m EXCEPT !.a = a]
    BY <1>4, <2>1 DEF Drawn
  <2> QED BY <2>3, <2>4 DEF Sound, GeneratorState
<1> QED BY <1>1, <1>2, <1>3, <1>4 DEF GeneratorKind

LEMMA ExecutedSound ==
  ASSUME NEW m \in GeneratorState, Sound(m), NEW range \in Ranges,
         NEW entropy \in Entropy \cup {NoEntropy}
  PROVE  Sound(ExecuteRandom(m, range, entropy).m)
<1>1. range \in Int
  BY RandomAssumption
<1>2. CASE range > 0
  <2>1. ExecuteRandom(m, range, entropy).m = Drawn(m)
    BY <1>1, <1>2 DEF ExecuteRandom
  <2> QED BY <2>1, DrawnSound
<1>3. CASE range < 0
  <2>1. PICK seed : seed = SeedOf(m, range) /\ seed = -range
    BY <1>3, SeedIsNegative
  <2>2. seed \in Nat /\ seed \in DOMAIN PcgNumbers
    BY <1>1, <1>3, <2>1, RandomAssumption
  <2>3. ExecuteRandom(m, range, entropy).m = SetRandomSeed(m, seed, entropy)
    BY <1>1, <1>3, <2>1 DEF ExecuteRandom
  <2> QED BY <2>2, <2>3, SownSound
<1>4. CASE range = 0
  BY <1>4, ReseededSound DEF ExecuteRandom
<1> QED BY <1>1, <1>2, <1>3, <1>4

\* A chunk brings a state of the narrow width.
LEMMA RestoredSound ==
  ASSUME NEW m \in GeneratorState, Sound(m), m.limit = StateLimit,
         NEW chunk, chunk.a \in Nat, chunk.from \in DOMAIN PcgNumbers, NEW foreign
  PROVE  Sound(RestoredFrom(m, chunk, foreign))
<1>1. PICK a : a = chunk.a % StateLimit
  OBVIOUS
<1>2. a \in 0 .. m.limit - 1
  BY <1>1, Remains
<1>3. PICK e : e = RestoredFrom(m, chunk, foreign)
  OBVIOUS
<1>4. e.a = a /\ e.from = chunk.from /\ e.seed = m.seed /\ e.limit = m.limit
  BY <1>1, <1>3 DEF RestoredFrom
<1> QED BY <1>2, <1>3, <1>4 DEF Sound

LEMMA InitSound ==
  ASSUME RandomInit
  PROVE  BothSound
<1>1. ASSUME NEW kind \in GeneratorKind, NEW seed \in HostSeeds, NEW limit \in {StateLimit, WideLimit},
             NEW entropy \in Entropy
      PROVE  Sound(Fresh(kind, seed, limit, entropy))
  <2>1. PICK g : g = Generator(kind, seed, limit)
    OBVIOUS
  <2>2. 0 \in 0 .. CounterLimit - 1 /\ seed \in Nat \cup {NoSeed}
    BY Limits, RandomAssumption
  <2>3. g \in GeneratorState /\ g.a = 1 /\ g.from = 0 /\ g.seed = seed
    BY <1>1, <2>1, <2>2 DEF Generator, GeneratorState
  <2>4. 0 \in DOMAIN PcgNumbers
    BY RandomAssumption
  <2>5. Sound(g)
    BY <2>3, <2>4, Remains DEF Sound
  <2> QED BY <2>1, <2>3, <2>5, SeedSound DEF Fresh
<1>2. PICK kind \in GeneratorKind, seed1 \in HostSeeds, seed2 \in HostSeeds,
           limit \in {StateLimit, WideLimit}, entropy \in Entropy :
        twins = << Fresh(kind, seed1, StateLimit, entropy), Fresh(kind, seed2, limit, entropy) >>
  BY DEF RandomInit, GeneratorKind
<1>3. PICK g, h : g = Fresh(kind, seed1, StateLimit, entropy) /\ h = Fresh(kind, seed2, limit, entropy)
  OBVIOUS
<1>4. Sound(g) /\ Sound(h) /\ twins = <<g, h>>
  BY <1>1, <1>2, <1>3
<1> QED BY <1>4 DEF BothSound

LEMMA SoundKept ==
  ASSUME Twins, BothSound, [RandomNext]_randomVars
  PROVE  BothSound'
<1>1. PICK m, n : m = twins[1] /\ n = twins[2]
  OBVIOUS
<1>2. /\ m \in GeneratorState /\ Sound(m) /\ m.limit = StateLimit
      /\ n \in GeneratorState /\ Sound(n)
  BY <1>1 DEF Twins, BothSound
<1>3. ASSUME NEW i \in {1, 2}, NEW e, Sound(e), twins' = [twins EXCEPT ![i] = e]
      PROVE  BothSound'
  <2>1. \A j \in {1, 2} : twins'[j] = IF j = i THEN e ELSE twins[j]
    BY <1>3 DEF Twins
  <2>2. \A j \in {1, 2} : Sound(twins'[j])
    BY <1>3, <2>1 DEF BothSound
  <2> QED BY <2>2 DEF BothSound, Sound
<1>4. ASSUME NEW i \in {1, 2}, Alone(i)
      PROVE  BothSound'
  <2>1. PICK range \in Ranges, entropy \in Entropy \cup {NoEntropy} :
          twins' = [twins EXCEPT ![i] = ExecuteRandom(twins[i], range, entropy).m]
    BY <1>4 DEF Alone
  <2>2. Sound(ExecuteRandom(twins[i], range, entropy).m)
    BY <1>1, <1>2, ExecutedSound
  <2> QED BY <1>3, <2>1, <2>2
<1>5. ASSUME NEW i \in {1, 2}, StartAgain(i)
      PROVE  BothSound'
  <2>1. PICK entropy \in Entropy : twins' = [twins EXCEPT ![i] = SeedRandom(twins[i], entropy)]
    BY <1>5 DEF StartAgain
  <2>2. Sound(SeedRandom(twins[i], entropy))
    BY <1>1, <1>2, SeedSound
  <2> QED BY <1>3, <2>1, <2>2
<1>6. CASE Alike
  <2>1. PICK range \in Ranges \ {0} :
          twins' = << ExecuteRandom(m, range, NoEntropy).m, ExecuteRandom(n, range, NoEntropy).m >>
    BY <1>1, <1>6 DEF Alike
  <2>2. PICK e, f : e = ExecuteRandom(m, range, NoEntropy).m /\ f = ExecuteRandom(n, range, NoEntropy).m
    OBVIOUS
  <2>3. Sound(e) /\ Sound(f) /\ twins' = <<e, f>>
    BY <1>2, <2>1, <2>2, ExecutedSound
  <2>4. \A j \in {1, 2} : Sound(twins'[j])
    BY <2>3
  <2> QED BY <2>4 DEF BothSound, Sound
<1>7. CASE MoveState
  <2>1. n.limit = StateLimit /\ twins' = [twins EXCEPT ![2] = RestoredFrom(n, Chunk(m), m.foreign)]
    BY <1>1, <1>7 DEF MoveState
  <2>2. Chunk(m).a \in Nat /\ Chunk(m).from \in DOMAIN PcgNumbers
    BY <1>2 DEF Chunk, GeneratorState, Sound
  <2>3. Sound(RestoredFrom(n, Chunk(m), m.foreign))
    BY <1>2, <2>1, <2>2, RestoredSound
  <2> QED BY <1>3, <2>1, <2>3
<1>8. CASE RestoreForeign
  <2>1. PICK chunk \in ForeignChunks :
          IF CanRestore(chunk)
          THEN twins' = [twins EXCEPT ![1] = RestoredFrom(m, chunk, TRUE)]
          ELSE UNCHANGED twins
    BY <1>1, <1>8 DEF RestoreForeign
  <2>2. CASE CanRestore(chunk)
    <3>1. chunk.a \in Nat /\ chunk.from \in DOMAIN PcgNumbers
      BY <2>2, RandomAssumption DEF CanRestore
    <3>2. Sound(RestoredFrom(m, chunk, TRUE))
      BY <1>2, <3>1, RestoredSound
    <3> QED BY <1>3, <2>1, <2>2, <3>2
  <2>3. CASE ~CanRestore(chunk)
    BY <2>1, <2>3 DEF BothSound, Sound
  <2> QED BY <2>2, <2>3
<1>9. CASE UNCHANGED randomVars
  BY <1>9 DEF randomVars, BothSound, Sound
<1> QED BY <1>4, <1>5, <1>6, <1>7, <1>8, <1>9 DEF RandomNext

LEMMA TwinsTyped ==
  ASSUME Twins, BothSound
  PROVE  RandomTypeOK
<1>1. ASSUME NEW i \in {1, 2}
      PROVE  twins[i] \in GeneratorState /\ Sound(twins[i])
  BY DEF Twins, BothSound
<1> QED BY <1>1 DEF RandomTypeOK, GeneratorState, GeneratorKind, Sound

-----------------------------------------------------------------------------
(* Signed division.                                                        *)

\* A number and the word that stands for it differ by a multiple of WordLimit.
LEMMA WordOfNumber ==
  ASSUME NEW n \in Int
  PROVE  \E k \in Int : Signed(Unsigned(n)) = n + WordLimit * k
<1>1. WordLimit \in Nat \ {0}
  BY WordAssumption
<1>2. PICK q \in Int, r \in 0 .. WordLimit - 1 : n = WordLimit * q + r /\ n % WordLimit = r
  BY <1>1, TakenApart
<1>3. PICK v : v = WordLimit * q
  OBVIOUS
<1>4. v \in Int /\ n = v + r
  BY <1>1, <1>2, <1>3
<1>5. Unsigned(n) = r
  BY <1>2 DEF Unsigned
<1>6. CASE Signed(r) = r
  <2>1. WordLimit * (-q) = -v
    BY <1>1, <1>3
  <2>2. Signed(Unsigned(n)) = n + WordLimit * (-q)
    BY <1>4, <1>5, <1>6, <2>1
  <2> QED BY <2>2
<1>7. CASE Signed(r) = r - WordLimit
  <2>1. WordLimit * (-q - 1) = -v - WordLimit
    BY <1>1, <1>3
  <2>2. Signed(Unsigned(n)) = n + WordLimit * (-q - 1)
    BY <1>1, <1>4, <1>5, <1>7, <2>1
  <2> QED BY <2>2
<1> QED BY <1>6, <1>7 DEF Signed

LEMMA HalfOfWords ==
  \E half \in Nat \ {0} : WordLimit = 2 * half /\ WordLimit \div 2 = half
<1>1. WordLimit \in Nat \ {0} /\ WordLimit % 2 = 0
  BY WordAssumption
<1>2. PICK half : half = WordLimit \div 2
  OBVIOUS
<1>3. WordLimit = 2 * half + (WordLimit % 2) /\ half \in Nat
  BY <1>1, <1>2, DivisionParts
<1>4. half \in Nat \ {0} /\ WordLimit = 2 * half
  BY <1>1, <1>3
<1> QED BY <1>2, <1>4

\* What can be read from a word is read from the word that stands for it.
LEMMA SmallNumberKept ==
  ASSUME NEW half \in Nat \ {0}, WordLimit = 2 * half, WordLimit \div 2 = half,
         NEW n \in -half .. half - 1
  PROVE  Signed(Unsigned(n)) = n
<1>1. CASE n >= 0
  <2>1. n % WordLimit = n
    BY <1>1, RemainderOfSmall
  <2> QED BY <1>1, <2>1 DEF Signed, Unsigned
<1>2. CASE n < 0
  <2>1. n = WordLimit * (-1) + (n + WordLimit) /\ n + WordLimit \in 0 .. WordLimit - 1
    BY <1>2
  <2>2. n % WordLimit = n + WordLimit
    BY <2>1, DivisionOf
  <2> QED BY <1>2, <2>2 DEF Signed, Unsigned
<1> QED BY <1>1, <1>2

\* div and mod of every two words belong together, the smallest number divided
\* by -1 included (executeDiv and executeMod, opcode_2op.go).
THEOREM DivisionAlwaysLeaves == \A a, b \in Words : DivisionLeaves(a, b)
<1> SUFFICES ASSUME NEW a \in Words, NEW b \in Words, CanDivide(b)
             PROVE  LET rest == Signed(Remainder(a, b))
                    IN  /\ Unsigned(Signed(Quotient(a, b)) * Signed(b) + rest) = a
                        /\ Magnitude(rest) < Magnitude(Signed(b))
                        /\ rest # 0 => (rest < 0) = (Signed(a) < 0)
  BY DEF DivisionLeaves
<1>1. PICK half \in Nat \ {0} : WordLimit = 2 * half /\ WordLimit \div 2 = half
  BY HalfOfWords
<1>2. PICK x, y : x = Signed(a) /\ y = Signed(b)
  OBVIOUS
<1>3. /\ x \in -half .. half - 1 /\ (a = x \/ a = x + WordLimit) /\ a \in 0 .. WordLimit - 1
      /\ y \in -half .. half - 1 /\ y # 0
  BY <1>1, <1>2 DEF Signed, Words, CanDivide
<1>4. PICK p, d : p = Magnitude(x) /\ d = Magnitude(y)
  OBVIOUS
<1>5. p \in 0 .. half /\ d \in 1 .. half
  BY <1>3, <1>4 DEF Magnitude
<1>6. PICK q \in Int, r \in 0 .. d - 1 : p = d * q + r /\ p \div d = q /\ p % d = r
  <2>1. p \in Int /\ d \in Nat \ {0}
    BY <1>5
  <2> QED BY <2>1, TakenApart
<1>7. PICK s \in Int, rest \in Int : /\ s = IF (x < 0) = (y < 0) THEN q ELSE -q
                                  /\ rest = IF x < 0 THEN -r ELSE r
  BY <1>6
<1>8. Quotient(a, b) = Unsigned(s) /\ Remainder(a, b) = Unsigned(rest)
  BY <1>2, <1>4, <1>6, <1>7 DEF Quotient, Remainder
<1>9. Signed(Remainder(a, b)) = rest
  <2>1. rest \in -half .. half - 1
    BY <1>5, <1>6, <1>7
  <2> QED BY <1>1, <1>8, <2>1, SmallNumberKept
<1>10. Magnitude(rest) < d /\ (rest # 0 => (rest < 0) = (x < 0))
  BY <1>5, <1>6, <1>7 DEF Magnitude
<1>11. s * y + rest = x
  <2>1. CASE x >= 0 /\ y > 0
    BY <1>3, <1>4, <1>6, <1>7, <2>1 DEF Magnitude
  <2>2. CASE x >= 0 /\ y < 0
    BY <1>3, <1>4, <1>6, <1>7, <2>2 DEF Magnitude
  <2>3. CASE x < 0 /\ y > 0
    BY <1>3, <1>4, <1>6, <1>7, <2>3 DEF Magnitude
  <2>4. CASE x < 0 /\ y < 0
    BY <1>3, <1>4, <1>6, <1>7, <2>4 DEF Magnitude
  <2> QED BY <1>3, <2>1, <2>2, <2>3, <2>4
<1>12. PICK k \in Int : Signed(Unsigned(s)) = s + WordLimit * k
  BY WordOfNumber
<1>13. PICK j \in Int : Signed(Quotient(a, b)) * y + rest = WordLimit * j + a
  <2>1. (s + WordLimit * k) * y = s * y + WordLimit * (k * y)
    BY <1>1, <1>3
  <2>2. PICK u, v : u = s * y /\ v = WordLimit * (k * y)
    OBVIOUS
  <2>3. u \in Int /\ v \in Int
    BY <1>1, <1>3, <2>2
  <2>4. Signed(Quotient(a, b)) * y + rest = x + v
    BY <1>8, <1>11, <1>12, <2>1, <2>2, <2>3
  <2>5. CASE a = x
    BY <1>3, <2>2, <2>3, <2>4, <2>5
  <2>6. CASE a = x + WordLimit
    <3>1. WordLimit * (k * y - 1) = v - WordLimit
      BY <1>1, <1>3, <2>2
    <3>2. x + v = WordLimit * (k * y - 1) + a
      BY <1>1, <1>3, <2>3, <2>6, <3>1
    <3> QED BY <1>3, <2>4, <3>2
  <2> QED BY <1>3, <2>5, <2>6
<1>14. Unsigned(Signed(Quotient(a, b)) * y + rest) = a
  <2>1. PICK n : n = Signed(Quotient(a, b)) * y + rest
    OBVIOUS
  <2>2. n = WordLimit * j + a /\ WordLimit \in Nat \ {0} /\ n \in Int
    BY <1>1, <1>3, <1>13, <2>1
  <2>3. n % WordLimit = a
    BY <1>3, <2>2, DivisionOf
  <2> QED BY <2>1, <2>3 DEF Unsigned
<1> QED BY <1>2, <1>4, <1>9, <1>10, <1>14

-----------------------------------------------------------------------------
(* Property lists.  The walk is a recursive function of the bytes; what is *)
(* shown of it is stated for any bytes b and its places w.                 *)

Lists == [Position -> Byte]

Bad(b, p) ==
    \/ p >= StorySize
    \/ /\ b[p] # 0
       /\ NumberOf(b[p]) = 0 \/ p + LengthOf(b[p]) >= StorySize

End(b, p) == p < StorySize /\ b[p] = 0

NextPlace(b, p) == IF p = -1 \/ Bad(b, p) \/ End(b, p) THEN -1 ELSE p + 1 + LengthOf(b[p])

\* w is where the walk through b stands after each number of entries.
Walks(b, w) ==
    /\ \A k \in 0 .. MaxProperty : w[k] \in Nat \cup {-1}
    /\ w[0] = 1 + b[0] * NameScale
    /\ \A k \in 1 .. MaxProperty : w[k] = NextPlace(b, w[k - 1])

WalkOf(b) ==
    LET at[k \in 0 .. MaxProperty] == IF k = 0 THEN 1 + b[0] * NameScale ELSE NextPlace(b, at[k - 1])
    IN  at

LEMMA Sizes ==
  /\ MaxProperty \in Nat \ {0} /\ MaxLength \in Nat \ {0, 1} /\ ByteLimit \in Nat /\ ByteLimit >= 2
  /\ StorySize \in Nat \ {0} /\ NameScale \in Nat /\ 0 \in Byte
<1>1. MaxProperty \in Nat \ {0} /\ MaxLength \in Nat \ {0, 1}
  BY PropertyAssumption
<1>2. MaxLength * (MaxProperty + 1) >= MaxLength
  <2>1. MaxLength * MaxProperty >= 0
    BY <1>1
  <2>2. MaxLength * (MaxProperty + 1) = MaxLength * MaxProperty + MaxLength
    BY <1>1
  <2> QED BY <1>1, <2>1, <2>2
<1>3. ByteLimit = MaxLength * (MaxProperty + 1)
  BY <1>1 DEF ByteLimit
<1>4. ByteLimit \in Nat /\ ByteLimit >= 2
  BY <1>1, <1>2, <1>3
<1> QED BY <1>1, <1>4, PropertyAssumption DEF Byte

LEMMA SizeByte ==
  ASSUME NEW size \in Byte
  PROVE  LengthOf(size) \in Nat \ {0} /\ NumberOf(size) \in 0 .. MaxProperty
<1>1. MaxProperty + 1 \in Nat \ {0} /\ size \in Int /\ size >= 0
  BY Sizes DEF Byte
<1>2. PICK k : k = MaxProperty + 1
  OBVIOUS
<1>3. size \div k \in Nat /\ size % k \in 0 .. k - 1
  BY <1>1, <1>2, DivisionParts
<1>4. LengthOf(size) \in Nat \ {0}
  BY <1>2, <1>3 DEF LengthOf
<1>5. NumberOf(size) \in 0 .. MaxProperty
  BY <1>1, <1>2, <1>3, Sizes DEF NumberOf
<1> QED BY <1>4, <1>5

LEMMA NextPlaceTyped ==
  ASSUME NEW b \in Lists, NEW p \in Nat \cup {-1}
  PROVE  NextPlace(b, p) \in Nat \cup {-1}
<1>1. CASE p = -1 \/ Bad(b, p) \/ End(b, p)
  BY <1>1 DEF NextPlace
<1>2. CASE ~(p = -1 \/ Bad(b, p) \/ End(b, p))
  <2>1. p \in Nat /\ p < StorySize
    BY <1>2, Sizes DEF Bad
  <2>2. b[p] \in Byte
    BY <2>1, Sizes DEF Lists, Position
  <2>3. LengthOf(b[p]) \in Nat
    BY <2>2, SizeByte
  <2> QED BY <1>2, <2>1, <2>3 DEF NextPlace
<1> QED BY <1>1, <1>2

LEMMA WalkComputed ==
  ASSUME NEW b \in Lists
  PROVE  Walks(b, WalkOf(b))
<1> DEFINE n == MaxProperty
           A == Nat \cup {-1}
           a == 1 + b[0] * NameScale
           Next(p) == NextPlace(b, p)
           step == [kx \in Nat \X A |-> Next(kx[2])]
           Steps(at) == [k \in 0 .. n |-> IF k = 0 THEN a ELSE Next(at[k - 1])]
<1>1. n \in Nat
  BY Sizes
<1>2. a \in A
  <2>1. b[0] \in Byte
    BY Sizes DEF Lists, Position
  <2>2. b[0] \in Nat /\ NameScale \in Nat
    BY <2>1, Sizes DEF Byte
  <2>3. b[0] * NameScale \in Nat
    BY <2>2
  <2> QED BY <2>3
<1>3. \A p \in A : Next(p) \in A
  BY NextPlaceTyped
<1> HIDE DEF n, A, a, Next
<1>4. step \in [Nat \X A -> A] /\ \A k \in Nat, p \in A : step[<<k, p>>] = Next(p)
  BY <1>3
<1> HIDE DEF step
<1>5. PICK f : Unfolds(f, A, n, a, step)
  BY <1>1, <1>2, <1>4, RecursionExists
<1>6. /\ f[0] = a /\ f \in [0 .. n -> A]
      /\ \A k \in 1 .. n : f[k] = step[<<k, f[k - 1]>>]
  BY <1>5 DEF Unfolds
<1>7. \A k \in 1 .. n : f[k] = Next(f[k - 1])
  <2> SUFFICES ASSUME NEW k \in 1 .. n
               PROVE  f[k] = Next(f[k - 1])
    OBVIOUS
  <2>1. k \in Nat /\ k - 1 \in 0 .. n
    BY <1>1
  <2> QED BY <1>4, <1>6, <2>1
<1>8. f = Steps(f)
  <2>1. \A k \in 0 .. n : Steps(f)[k] = f[k]
    <3> SUFFICES ASSUME NEW k \in 0 .. n
                 PROVE  Steps(f)[k] = f[k]
      OBVIOUS
    <3>1. k # 0 => k \in 1 .. n
      BY <1>1
    <3> QED BY <1>6, <1>7, <3>1
  <2>2. Steps(f) = [k \in 0 .. n |-> Steps(f)[k]] /\ f = [k \in 0 .. n |-> f[k]]
    BY <1>6
  <2> HIDE DEF Steps
  <2> QED BY <2>1, <2>2
<1>9. PICK w : w = CHOOSE at : at = Steps(at)
  OBVIOUS
<1>10. WalkOf(b) = w
  BY <1>9 DEF WalkOf, n, a, Next
<1>11. w = Steps(w)
  <2> HIDE DEF Steps
  <2> QED BY <1>8, <1>9
<1>12. w[0] = a /\ \A k \in 1 .. n : w[k] = Next(w[k - 1])
  <2>1. 0 \in 0 .. n /\ \A k \in 1 .. n : k \in 0 .. n /\ k # 0
    BY <1>1
  <2> QED BY <1>11, <2>1
<1> DEFINE S == {k \in Nat : k <= n => w[k] \in A}
<1>13. 0 \in S
  BY <1>2, <1>12
<1>14. ASSUME NEW k \in Nat, k \in S
       PROVE  k + 1 \in S
  <2> SUFFICES ASSUME k + 1 <= n
               PROVE  w[k + 1] \in A
    OBVIOUS
  <2>1. k + 1 \in 1 .. n /\ (k + 1) - 1 = k /\ k <= n
    BY <1>1
  <2> QED BY <1>3, <1>12, <1>14, <2>1
<1> HIDE DEF S
<1>15. Nat \subseteq S
  BY <1>13, <1>14, SetInduction
<1>16. \A k \in 0 .. n : w[k] \in A
  BY <1>1, <1>15 DEF S
<1> QED BY <1>10, <1>12, <1>16 DEF Walks, n, A, a, Next

-----------------------------------------------------------------------------
\* A list of n entries that ends: where they stand, one after the other.
Listed(b, w, n) ==
    /\ n \in 0 .. MaxProperty
    /\ \A k \in 0 .. n - 1 :
          /\ w[k] \in Nat /\ ~Bad(b, w[k]) /\ ~End(b, w[k])
          /\ w[k] + LengthOf(b[w[k]]) < StorySize
          /\ w[k + 1] = w[k] + 1 + LengthOf(b[w[k]])
          /\ LengthOf(b[w[k]]) \in Nat \ {0} /\ NumberOf(b[w[k]]) \in Property
    /\ w[n] \in Nat /\ End(b, w[n])

\* What the walk says of an entry that it does not stop at.
LEMMA EntryTyped ==
  ASSUME NEW b \in Lists, NEW w, Walks(b, w), NEW k \in 0 .. MaxProperty - 1,
         ~(w[k] = -1 \/ Bad(b, w[k]) \/ End(b, w[k]))
  PROVE  /\ w[k] \in Nat /\ w[k] + LengthOf(b[w[k]]) < StorySize
         /\ w[k + 1] = w[k] + 1 + LengthOf(b[w[k]])
         /\ LengthOf(b[w[k]]) \in Nat \ {0} /\ NumberOf(b[w[k]]) \in Property
<1>1. /\ MaxProperty \in Nat /\ StorySize \in Nat
      /\ k \in 0 .. MaxProperty /\ k + 1 \in 1 .. MaxProperty /\ (k + 1) - 1 = k
  BY Sizes
<1>2. PICK p, c : p = w[k] /\ c = b[w[k]]
  OBVIOUS
<1>3. p \in Nat
  BY <1>1, <1>2 DEF Walks
<1>4. p < StorySize
  BY <1>1, <1>2, <1>3 DEF Bad
<1>5. c \in Byte
  BY <1>1, <1>2, <1>3, <1>4 DEF Lists, Position
<1>6. LengthOf(c) \in Nat \ {0} /\ NumberOf(c) \in 0 .. MaxProperty
  BY <1>5, SizeByte
<1>7. c # 0
  BY <1>2, <1>4 DEF End
<1>8. NumberOf(c) # 0 /\ ~(p + LengthOf(c) >= StorySize)
  BY <1>2, <1>7 DEF Bad
<1>9. w[k + 1] = p + 1 + LengthOf(c)
  <2>1. w[k + 1] = NextPlace(b, w[k])
    BY <1>1 DEF Walks
  <2> QED BY <1>2, <2>1 DEF NextPlace
<1> QED BY <1>1, <1>2, <1>3, <1>6, <1>8, <1>9 DEF Property

LEMMA EntriesListed ==
  ASSUME NEW b \in Lists, NEW w, Walks(b, w), NEW n \in 0 .. MaxProperty,
         \A k \in 0 .. n - 1 : ~(w[k] = -1 \/ Bad(b, w[k]) \/ End(b, w[k])),
         w[n] # -1, End(b, w[n])
  PROVE  Listed(b, w, n)
<1>1. \A k \in 0 .. n - 1 : k \in 0 .. MaxProperty - 1
  BY Sizes
<1>2. ASSUME NEW k \in 0 .. n - 1
      PROVE  /\ w[k] \in Nat /\ w[k] + LengthOf(b[w[k]]) < StorySize
             /\ w[k + 1] = w[k] + 1 + LengthOf(b[w[k]])
             /\ LengthOf(b[w[k]]) \in Nat \ {0} /\ NumberOf(b[w[k]]) \in Property
  BY <1>1, EntryTyped
<1>3. w[n] \in Nat
  BY DEF Walks
<1> QED BY <1>2, <1>3 DEF Listed

\* No entry reaches into the one after it, or to the end of the list.
LEMMA EntriesApart ==
  ASSUME NEW b \in Lists, NEW w, NEW n, Listed(b, w, n), NEW i \in 0 .. n, NEW j \in 0 .. i - 1
  PROVE  w[j] + LengthOf(b[w[j]]) < w[i]
<1> DEFINE S == {k \in Nat : k <= n => \A l \in 0 .. k - 1 : w[l] + LengthOf(b[w[l]]) < w[k]}
<1>1. n \in Nat /\ i \in Nat /\ i <= n
  BY Sizes DEF Listed
<1>2. 0 \in S
  OBVIOUS
<1>3. ASSUME NEW k \in Nat, k \in S
      PROVE  k + 1 \in S
  <2> SUFFICES ASSUME k + 1 <= n, NEW l \in 0 .. (k + 1) - 1
               PROVE  w[l] + LengthOf(b[w[l]]) < w[k + 1]
    OBVIOUS
  <2>1. k \in 0 .. n - 1 /\ l \in 0 .. n - 1
    BY <1>1
  <2>2. PICK p, q, c, d : p = w[k] /\ q = w[l] /\ c = LengthOf(b[w[k]]) /\ d = LengthOf(b[w[l]])
    OBVIOUS
  <2>3. p \in Nat /\ q \in Nat /\ c \in Nat \ {0} /\ d \in Nat \ {0} /\ w[k + 1] = p + 1 + c
    BY <2>1, <2>2 DEF Listed
  <2>4. CASE l = k
    BY <2>2, <2>3, <2>4
  <2>5. CASE l # k
    <3>1. l \in 0 .. k - 1 /\ k <= n
      BY <1>1, <2>5
    <3>2. q + d < p
      BY <1>3, <2>2, <3>1
    <3> QED BY <2>2, <2>3, <3>2
  <2> QED BY <2>4, <2>5
<1> HIDE DEF S
<1>4. Nat \subseteq S
  BY <1>2, <1>3, SetInduction
<1> QED BY <1>1, <1>4 DEF S

\* Behind the end of a list the walk goes nowhere.
LEMMA NothingBehind ==
  ASSUME NEW b \in Lists, NEW w, Walks(b, w), NEW n, Listed(b, w, n), NEW i \in n + 1 .. MaxProperty
  PROVE  w[i] = -1
<1> DEFINE S == {k \in Nat : n + 1 + k <= MaxProperty => w[n + 1 + k] = -1}
<1>1. n \in Nat /\ MaxProperty \in Nat
  BY Sizes DEF Listed
<1>2. 0 \in S
  <2> SUFFICES ASSUME n + 1 <= MaxProperty
               PROVE  w[n + 1] = -1
    BY <1>1
  <2>1. n + 1 \in 1 .. MaxProperty /\ (n + 1) - 1 = n
    BY <1>1
  <2>2. w[n + 1] = NextPlace(b, w[n]) /\ End(b, w[n])
    BY <2>1 DEF Walks, Listed
  <2> QED BY <2>2 DEF NextPlace
<1>3. ASSUME NEW k \in Nat, k \in S
      PROVE  k + 1 \in S
  <2> SUFFICES ASSUME n + 1 + (k + 1) <= MaxProperty
               PROVE  w[n + 1 + (k + 1)] = -1
    OBVIOUS
  <2>1. PICK l : l = n + 1 + (k + 1)
    OBVIOUS
  <2>2. l \in 1 .. MaxProperty /\ l - 1 = n + 1 + k /\ n + 1 + k <= MaxProperty
    BY <1>1, <2>1
  <2>3. w[l - 1] = -1
    BY <1>3, <2>2
  <2>4. w[l] = NextPlace(b, w[l - 1])
    BY <2>2 DEF Walks
  <2> QED BY <2>1, <2>3, <2>4 DEF NextPlace
<1> HIDE DEF S
<1>4. Nat \subseteq S
  BY <1>2, <1>3, SetInduction
<1>5. i - (n + 1) \in Nat /\ n + 1 + (i - (n + 1)) = i /\ i <= MaxProperty
  BY <1>1
<1> QED BY <1>4, <1>5 DEF S

-----------------------------------------------------------------------------
\* The list in memory.
LEMMA WalkHere ==
  ASSUME bytes \in Lists
  PROVE  Walks(bytes, Walk)
<1>1. Walk = WalkOf(bytes)
  BY DEF Walk, WalkOf, First, IsBad, IsEnd, NextPosition, NextPlace, Bad, End
<1> QED BY <1>1, WalkComputed

LEMMA WalkThen ==
  ASSUME bytes' \in Lists
  PROVE  Walks(bytes', Walk')
<1>1. Walk' = WalkOf(bytes')
  BY DEF Walk, WalkOf, First, IsBad, IsEnd, NextPosition, NextPlace, Bad, End
<1> QED BY <1>1, WalkComputed

\* The walk stops somewhere, or after all the entries that it looks at.
LEMMA LengthFound ==
  ASSUME bytes \in Lists
  PROVE  /\ Length \in 0 .. MaxProperty
         /\ \A k \in 0 .. Length - 1 :
               ~(Walk[k] = -1 \/ Bad(bytes, Walk[k]) \/ End(bytes, Walk[k]))
<1> DEFINE Stops(k) == Walk[k] = -1 \/ IsBad(Walk[k]) \/ IsEnd(Walk[k])
           Chosen(n) == (\A k \in 0 .. n - 1 : ~Stops(k)) /\ (n = MaxProperty \/ Stops(n))
           T == {k \in 0 .. MaxProperty : Stops(k)}
<1>1. MaxProperty \in Nat
  BY Sizes
<1>2. Length = CHOOSE n \in 0 .. MaxProperty : Chosen(n)
  BY DEF Length
<1> HIDE DEF Stops
<1>3. \E n \in 0 .. MaxProperty : Chosen(n)
  <2>1. CASE T = {}
    <3>1. \A k \in 0 .. MaxProperty - 1 : k \in 0 .. MaxProperty /\ ~Stops(k)
      BY <1>1, <2>1
    <3> QED BY <1>1, <3>1
  <2>2. CASE T # {}
    <3>1. T \subseteq Nat
      BY <1>1
    <3> HIDE DEF T
    <3>2. PICK n \in T : \A k \in T : n <= k
      BY <2>2, <3>1, LeastNumber
    <3>3. n \in 0 .. MaxProperty /\ Stops(n)
      BY <3>2 DEF T
    <3>4. ASSUME NEW k \in 0 .. n - 1
          PROVE  ~Stops(k)
      <4>1. k \in 0 .. MaxProperty /\ ~(n <= k)
        BY <1>1, <3>3
      <4> QED BY <3>2, <4>1 DEF T
    <3> QED BY <3>3, <3>4
  <2> QED BY <2>1, <2>2
<1> HIDE DEF Chosen
<1>4. Length \in 0 .. MaxProperty /\ Chosen(Length)
  BY <1>2, <1>3
<1>5. \A k \in 0 .. Length - 1 : ~Stops(k)
  BY <1>4 DEF Chosen
<1> QED BY <1>4, <1>5 DEF Stops, IsBad, IsEnd, Bad, End

LEMMA ListWellFormed ==
  ASSUME bytes \in Lists, WellFormed
  PROVE  /\ Listed(bytes, Walk, Length)
         /\ \A j, k \in 0 .. Length - 1 : j < k => NumberAt(j) > NumberAt(k)
<1>1. /\ Walk[Length] # -1 /\ End(bytes, Walk[Length])
      /\ \A j, k \in 0 .. Length - 1 : j < k => NumberAt(j) > NumberAt(k)
  BY DEF WellFormed, IsEnd, End
<1> QED BY <1>1, LengthFound, WalkHere, EntriesListed

\* The entries that are looked at are those before the end.
EntriesOf(b, w) ==
    {k \in 0 .. MaxProperty - 1 : w[k] # -1 /\ ~Bad(b, w[k]) /\ ~End(b, w[k])}

LEMMA EntriesAre ==
  ASSUME NEW b \in Lists, NEW w, Walks(b, w), NEW n, Listed(b, w, n)
  PROVE  EntriesOf(b, w) = 0 .. n - 1
<1>1. n \in 0 .. MaxProperty /\ n \in Nat /\ MaxProperty \in Nat
  BY Sizes DEF Listed
<1>2. \A k \in 0 .. n - 1 : w[k] \in Nat /\ ~Bad(b, w[k]) /\ ~End(b, w[k])
  BY DEF Listed
<1>3. End(b, w[n])
  BY DEF Listed
<1>4. \A k \in n + 1 .. MaxProperty : w[k] = -1
  BY NothingBehind
<1>5. ASSUME NEW k \in 0 .. n - 1
      PROVE  k \in EntriesOf(b, w)
  <2>1. k \in 0 .. MaxProperty - 1
    BY <1>1
  <2>2. w[k] # -1
    BY <1>2
  <2> QED BY <1>2, <2>1, <2>2 DEF EntriesOf
<1>6. ASSUME NEW k \in EntriesOf(b, w)
      PROVE  k \in 0 .. n - 1
  <2>1. k \in 0 .. MaxProperty - 1 /\ k # n
    BY <1>3 DEF EntriesOf
  <2>2. k \notin n + 1 .. MaxProperty
    BY <1>4 DEF EntriesOf
  <2> QED BY <1>1, <2>1, <2>2
<1> QED BY <1>5, <1>6

\* What Find finds is the first entry with the number.
LEMMA FindFinds ==
  ASSUME bytes \in Lists, NEW number
  PROVE  LET having == {k \in Entries : NumberAt(k) = number}
         IN  IF having = {}
             THEN Find(number) = [fault |-> ~EndsWell, entry |-> NoEntry]
             ELSE \E k \in having :
                     /\ Find(number) = [fault |-> FALSE, entry |-> Entry(k)]
                     /\ \A j \in having : k <= j
<1> DEFINE having == {k \in Entries : Entry(k).number = number}
           Least(k) == \A j \in having : k <= j
           first == CHOOSE k \in having : Least(k)
<1>1. \A k : Entry(k).number = NumberAt(k)
  BY DEF Entry, NumberAt
<1>2. having = {k \in Entries : NumberAt(k) = number}
  BY <1>1
<1>3. Find(number) = IF having # {} THEN [fault |-> FALSE, entry |-> Entry(first)]
                     ELSE [fault |-> ~EndsWell, entry |-> NoEntry]
  BY DEF Find
<1>4. having # {} => first \in having /\ Least(first)
  <2> SUFFICES ASSUME having # {}
               PROVE  first \in having /\ Least(first)
    OBVIOUS
  <2>1. having \subseteq Nat
    BY Sizes DEF Entries
  <2> HIDE DEF having
  <2>2. \E k \in having : Least(k)
    BY <2>1, LeastNumber
  <2> HIDE DEF Least
  <2> QED BY <2>2
<1> HIDE DEF having, first
<1> QED BY <1>2, <1>3, <1>4

-----------------------------------------------------------------------------
\* put_prop.  A value is cut into two bytes.
LEMMA ValueBytes ==
  ASSUME NEW value \in {1, ByteLimit * ByteLimit - 1}
  PROVE  /\ value % ByteLimit \in Byte /\ value \div ByteLimit \in Byte
         /\ (value \div ByteLimit) * ByteLimit + (value % ByteLimit) = value
<1>1. ByteLimit \in Nat \ {0} /\ ByteLimit >= 2
  BY Sizes
<1>2. PICK b : b = ByteLimit
  OBVIOUS
<1>3. b \in Nat \ {0} /\ b >= 2 /\ value \in {1, b * b - 1}
  BY <1>1, <1>2
<1>4. value \in Int
  BY <1>3
<1>5. value = b * (value \div b) + (value % b) /\ value % b \in 0 .. b - 1 /\ value \div b \in Int
  BY <1>3, <1>4, DivisionParts
<1>6. value \div b \in 0 .. b - 1
  <2>1. CASE value = 1
    <3>1. value \in 0 .. b - 1
      BY <1>3, <2>1
    <3>2. value \div b = 0
      BY <1>3, <3>1, RemainderOfSmall
    <3> QED BY <1>3, <3>2
  <2>2. CASE value = b * b - 1
    <3>1. b * (b - 1) = b * b - b
      BY <1>3
    <3>2. value = b * (b - 1) + (b - 1) /\ b - 1 \in 0 .. b - 1 /\ b - 1 \in Int
      BY <1>3, <2>2, <3>1
    <3>3. value \div b = b - 1
      BY <1>3, <1>4, <3>2, DivisionOf
    <3> QED BY <3>2, <3>3
  <2> QED BY <1>3, <2>1, <2>2
<1>7. (value \div b) * b + (value % b) = value
  <2>1. PICK q, r : q = value \div b /\ r = value % b
    OBVIOUS
  <2>2. q \in Int /\ r \in Int /\ value = b * q + r
    BY <1>3, <1>5, <2>1
  <2>3. q * b = b * q
    BY <1>3, <2>2
  <2>4. q * b + r = value
    BY <2>2, <2>3
  <2> QED BY <2>1, <2>4
<1> QED BY <1>2, <1>5, <1>6, <1>7 DEF Byte

\* What put_prop writes is the data of one entry of one or two bytes.
LEMMA PutWrites ==
  ASSUME bytes \in Lists, NEW number, NEW value \in {1, ByteLimit * ByteLimit - 1},
         PutProp(number, value)
  PROVE  /\ bytes' \in Lists /\ number \in Property
         /\ outcome' = [put |-> number, value |-> value]
         /\ \E k, d, length :
               /\ k \in Entries /\ NumberAt(k) = number
               /\ \A j \in Entries : j < k => NumberAt(j) # number
               /\ Find(number) = [fault |-> FALSE, entry |-> Entry(k)]
               /\ d = Walk[k] + 1 /\ length = LengthOf(bytes[Walk[k]])
               /\ \A p \in Position : p \notin d .. d + length - 1 => bytes'[p] = bytes[p]
               /\ \/ length = 1 /\ bytes'[d] = value % ByteLimit
                  \/ /\ length = 2
                     /\ bytes'[d] * ByteLimit + bytes'[d + 1] = value
<1> DEFINE having == {k \in Entries : NumberAt(k) = number}
           found == Find(number)
           e == found.entry
<1>1. /\ ~found.fault /\ e # NoEntry /\ e.length <= 2
      /\ bytes' = Written(e, value) /\ outcome' = [put |-> number, value |-> value]
  BY DEF PutProp, CanPut
<1>2. having # {}
  <2>1. having = {} => found = [fault |-> ~EndsWell, entry |-> NoEntry]
    BY FindFinds
  <2> HIDE DEF having, found
  <2> QED BY <1>1, <2>1
<1>3. PICK k \in having : /\ found = [fault |-> FALSE, entry |-> Entry(k)]
                          /\ \A j \in having : k <= j
  BY <1>2, FindFinds
<1>4. /\ k \in Entries /\ NumberAt(k) = number
      /\ k \in 0 .. MaxProperty - 1 /\ ~(Walk[k] = -1 \/ Bad(bytes, Walk[k]) \/ End(bytes, Walk[k]))
  BY DEF Entries, IsEntryOf, IsBad, IsEnd, Bad, End
<1>5. \A j \in Entries : j < k => NumberAt(j) # number
  <2> SUFFICES ASSUME NEW j \in Entries, j < k, NumberAt(j) = number
               PROVE  FALSE
    OBVIOUS
  <2>1. j \in having /\ ~(k <= j)
    BY <1>4, Sizes DEF Entries
  <2> QED BY <1>3, <2>1
<1>6. PICK p, c, l, d : p = Walk[k] /\ c = bytes[p] /\ l = LengthOf(c) /\ d = p + 1
  OBVIOUS
<1>7. /\ p \in Nat /\ p + l < StorySize /\ l \in Nat \ {0} /\ NumberOf(c) \in Property
  BY <1>4, <1>6, WalkHere, EntryTyped
<1>8. e = [number |-> NumberOf(c), length |-> l, data |-> d]
  BY <1>3, <1>6 DEF Entry
<1>9. /\ d \in Position /\ (l = 2 => d + 1 \in Position) /\ d \in Int
      /\ (l = 1 \/ l = 2) /\ NumberAt(k) = NumberOf(c)
  BY <1>1, <1>6, <1>7, <1>8, Sizes DEF Position, NumberAt
<1>10. /\ value % ByteLimit \in Byte /\ value \div ByteLimit \in Byte
       /\ (value \div ByteLimit) * ByteLimit + (value % ByteLimit) = value
  BY ValueBytes
<1>11. PICK low, high : low = value % ByteLimit /\ high = value \div ByteLimit
  OBVIOUS
<1> HIDE DEF e, found, having
<1>12. /\ bytes' \in Lists
       /\ \A q \in Position : q \notin d .. d + l - 1 => bytes'[q] = bytes[q]
       /\ \/ l = 1 /\ bytes'[d] = low
          \/ l = 2 /\ bytes'[d] = high /\ bytes'[d + 1] = low
  <2>1. e.length = l /\ e.data = d
    BY <1>8
  <2>2. CASE l = 1
    <3>1. bytes' = [bytes EXCEPT ![d] = low]
      BY <1>1, <1>11, <2>1, <2>2 DEF Written
    <3> QED BY <1>9, <1>10, <1>11, <2>2, <3>1 DEF Lists
  <2>3. CASE l = 2
    <3>1. bytes' = [bytes EXCEPT ![d] = high, ![d + 1] = low]
      BY <1>1, <1>11, <2>1, <2>3 DEF Written
    <3>2. d # d + 1 /\ d + 1 \in Position
      BY <1>9, <2>3
    <3> QED BY <1>9, <1>10, <1>11, <2>3, <3>1, <3>2 DEF Lists
  <2> QED BY <1>9, <2>2, <2>3
<1>13. /\ l = 1 /\ bytes'[d] = value % ByteLimit
       \/ /\ l = 2 /\ bytes'[d] * ByteLimit + bytes'[d + 1] = value
  <2>1. high * ByteLimit + low = value
    BY <1>10, <1>11
  <2>2. CASE l = 1 /\ bytes'[d] = low
    BY <1>11, <2>2
  <2>3. CASE l = 2 /\ bytes'[d] = high /\ bytes'[d + 1] = low
    <3>1. bytes'[d] * ByteLimit + bytes'[d + 1] = high * ByteLimit + low
      BY <2>3
    <3> QED BY <2>1, <2>3, <3>1
  <2> QED BY <1>12, <2>2, <2>3
<1> QED BY <1>1, <1>3, <1>4, <1>5, <1>6, <1>7, <1>9, <1>12, <1>13 DEF found

\* A list whose size bytes have not changed is the same list.
LEMMA WalkKept ==
  ASSUME NEW b \in Lists, NEW w, Walks(b, w), NEW n, Listed(b, w, n),
         NEW c \in Lists, NEW v, Walks(c, v),
         w[0] = v[0], \A k \in 0 .. n : c[w[k]] = b[w[k]]
  PROVE  (\A k \in 0 .. n : v[k] = w[k]) /\ Listed(c, v, n)
<1> DEFINE S == {k \in Nat : k <= n => v[k] = w[k]}
<1>1. n \in Nat /\ n \in 0 .. MaxProperty /\ MaxProperty \in Nat
  BY Sizes DEF Listed
<1>2. 0 \in S
  OBVIOUS
<1>3. ASSUME NEW k \in Nat, k \in S
      PROVE  k + 1 \in S
  <2> SUFFICES ASSUME k + 1 <= n
               PROVE  v[k + 1] = w[k + 1]
    OBVIOUS
  <2>1. k + 1 \in 1 .. MaxProperty /\ (k + 1) - 1 = k /\ k \in 0 .. n
    BY <1>1
  <2>2. v[k + 1] = NextPlace(c, v[k]) /\ w[k + 1] = NextPlace(b, w[k])
    BY <2>1 DEF Walks
  <2>3. v[k] = w[k] /\ c[w[k]] = b[w[k]]
    BY <1>1, <1>3, <2>1
  <2> QED BY <2>2, <2>3 DEF NextPlace, Bad, End
<1> HIDE DEF S
<1>4. Nat \subseteq S
  BY <1>2, <1>3, SetInduction
<1>5. \A k \in 0 .. n : v[k] = w[k]
  BY <1>1, <1>4 DEF S
<1>6. \A k \in 0 .. n - 1 : k \in 0 .. n /\ k + 1 \in 0 .. n
  BY <1>1
<1>7. n \in 0 .. n
  BY <1>1
<1>8. End(c, v[n]) /\ v[n] \in Nat
  BY <1>5, <1>7 DEF Listed, End
<1>9. ASSUME NEW k \in 0 .. n - 1
      PROVE  /\ v[k] \in Nat /\ ~Bad(c, v[k]) /\ ~End(c, v[k])
             /\ v[k] + LengthOf(c[v[k]]) < StorySize
             /\ v[k + 1] = v[k] + 1 + LengthOf(c[v[k]])
             /\ LengthOf(c[v[k]]) \in Nat \ {0} /\ NumberOf(c[v[k]]) \in Property
  <2>1. v[k] = w[k] /\ v[k + 1] = w[k + 1] /\ c[w[k]] = b[w[k]]
    BY <1>5, <1>6
  <2> QED BY <2>1 DEF Listed, Bad, End
<1> QED BY <1>1, <1>5, <1>8, <1>9 DEF Listed

-----------------------------------------------------------------------------
\* The invariant of a list in memory: bytes stay bytes, and put_prop has been
\* given the number of a property whenever it stores.
LEMMA ListKept ==
  ASSUME PropertyTypeOK, [PropertyNext]_propertyVars
  PROVE  PropertyTypeOK'
<1>1. bytes \in Lists
  BY DEF PropertyTypeOK, Lists
<1>2. CASE UNCHANGED propertyVars
  BY <1>2 DEF PropertyTypeOK, propertyVars
<1>3. ASSUME NEW number, NEW value \in {1, ByteLimit * ByteLimit - 1}, PutProp(number, value)
      PROVE  PropertyTypeOK'
  <2>1. /\ bytes' \in Lists /\ number \in Property
        /\ outcome' = [put |-> number, value |-> value]
    BY <1>1, <1>3, PutWrites
  <2>2. number \in 0 .. MaxProperty
    BY <2>1, Sizes DEF Property
  <2> QED BY <2>1, <2>2 DEF PropertyTypeOK, Lists
<1>4. ASSUME NEW number, PutPropRefused(number)
      PROVE  PropertyTypeOK'
  <2>1. bytes' = bytes /\ outcome' = [put |-> 0, value |-> 0]
    BY <1>4 DEF PutPropRefused
  <2> QED BY <2>1, Sizes DEF PropertyTypeOK
<1> QED BY <1>2, <1>3, <1>4 DEF PropertyNext

LEMMA ListTyped == PropertySpec => []PropertyTypeOK
<1>1. PropertyInit => PropertyTypeOK
  BY Sizes DEF PropertyInit, PropertyTypeOK
<1>2. PropertyTypeOK /\ [PropertyNext]_propertyVars => PropertyTypeOK'
  BY ListKept
<1> QED BY <1>1, <1>2, PTL DEF PropertySpec

\* No byte of an entry lies among the data of another one.
LEMMA DataApart ==
  ASSUME NEW b \in Lists, NEW w, NEW n, Listed(b, w, n),
         NEW k \in 0 .. n - 1, NEW j \in 0 .. n,
         NEW q \in w[j] .. IF j < n THEN w[j] + LengthOf(b[w[j]]) ELSE w[j],
         j # k \/ q = w[k]
  PROVE  q \notin w[k] + 1 .. w[k] + LengthOf(b[w[k]]) /\ q \in Position
<1>1. n \in Nat /\ k \in Nat /\ j \in Nat
  BY Sizes DEF Listed
<1>2. PICK at, to, here, length : /\ at = w[k] /\ length = LengthOf(b[w[k]]) /\ here = w[j]
                                  /\ to = LengthOf(b[w[j]])
  OBVIOUS
<1>3. /\ at \in Nat /\ length \in Nat \ {0} /\ here \in Nat /\ here < StorySize
      /\ j < n => to \in Nat \ {0} /\ here + to < StorySize
  <2>1. at \in Nat /\ length \in Nat \ {0}
    BY <1>2 DEF Listed
  <2>2. CASE j < n
    <3>1. j \in 0 .. n - 1
      BY <1>1, <2>2
    <3>2. here \in Nat /\ to \in Nat \ {0} /\ here + to < StorySize
      BY <1>2, <3>1 DEF Listed
    <3> QED BY <2>1, <3>2, Sizes
  <2>3. CASE j = n
    BY <1>1, <1>2, <2>1, <2>3 DEF Listed, End
  <2> QED BY <1>1, <2>2, <2>3
<1>4. q \in Nat /\ here <= q /\ q < StorySize /\ (j < n => q <= here + to)
  BY <1>1, <1>2, <1>3, Sizes
<1>5. q \in Position
  BY <1>4, Sizes DEF Position
<1>6. ~(at + 1 <= q /\ q <= at + length)
  <2>1. CASE j < k
    <3>1. j \in 0 .. k - 1 /\ k \in 0 .. n /\ j < n
      BY <1>1, <2>1
    <3>2. here + to < at
      BY <1>2, <3>1, EntriesApart
    <3>3. to \in Nat /\ q <= here + to
      BY <1>3, <1>4, <3>1
    <3> QED BY <1>3, <1>4, <3>2, <3>3
  <2>2. CASE k < j
    <3>1. k \in 0 .. j - 1
      BY <1>1, <2>2
    <3>2. at + length < here
      BY <1>2, <3>1, EntriesApart
    <3> QED BY <1>3, <1>4, <3>2
  <2>3. CASE j = k
    <3>1. q = at
      BY <1>2, <2>3
    <3> QED BY <1>3, <3>1
  <2> QED BY <1>1, <2>1, <2>2, <2>3
<1>7. q \notin at + 1 .. at + length
  BY <1>6
<1> QED BY <1>2, <1>5, <1>7

\* Entries that are the same are found the same.
LEMMA FindKept ==
  ASSUME bytes \in Lists, NEW number, outcome'.put = number,
         ~Find(number).fault, Find(number).entry # NoEntry,
         Entries' = Entries, \A j \in Entries : Entry(j)' = Entry(j)
  PROVE  Find(outcome.put)' = Find(number)
<1> DEFINE having == {k \in Entries : Entry(k).number = number}
           After(k) == [ number |-> NumberOf(bytes'[Walk'[k]]),
                        length |-> LengthOf(bytes'[Walk'[k]]), data |-> Walk'[k] + 1 ]
           then == {k \in Entries' : After(k).number = outcome'.put}
           Least(k) == \A j \in having : k <= j
           first == CHOOSE k \in having : Least(k)
<1>1. \A k \in Entries : After(k) = Entry(k)
  <2> SUFFICES ASSUME NEW k \in Entries
               PROVE  After(k) = Entry(k)
    OBVIOUS
  <2>1. Entry(k)' = Entry(k)
    OBVIOUS
  <2>2. Entry(k)' = After(k)
    BY DEF Entry
  <2> QED BY <2>1, <2>2
<1>2. Find(number) = IF having # {} THEN [fault |-> FALSE, entry |-> Entry(first)]
                     ELSE [fault |-> ~EndsWell, entry |-> NoEntry]
  BY DEF Find
<1>3. Find(outcome.put)' =
        IF then # {}
        THEN [fault |-> FALSE, entry |-> After(CHOOSE k \in then : \A j \in then : k <= j)]
        ELSE [fault |-> ~EndsWell', entry |-> NoEntry]
  BY DEF Find, Entry, NoEntry
<1>4. Find(outcome.put)' =
        IF having # {}
        THEN [fault |-> FALSE, entry |-> After(first)]
        ELSE [fault |-> ~EndsWell', entry |-> NoEntry]
  <2>1. then = having
    <3> HIDE DEF After
    <3> QED BY <1>1
  <2> HIDE DEF After, then, having
  <2> QED BY <1>3, <2>1
<1>5. having # {}
  <2> HIDE DEF having, first
  <2> QED BY <1>2
<1>6. first \in Entries
  <2>1. having \subseteq Nat
    BY Sizes DEF Entries
  <2> HIDE DEF having
  <2>2. \E k \in having : Least(k)
    BY <1>5, <2>1, LeastNumber
  <2> HIDE DEF Least
  <2>3. first \in having
    BY <2>2
  <2> HIDE DEF first
  <2> QED BY <2>3 DEF having
<1> HIDE DEF having, first, After
<1> QED BY <1>1, <1>2, <1>4, <1>5, <1>6

\* A put into one of the entries of a list that ends leaves all entries, and the
\* one that it is put into is found again.
LEMMA EntriesKept ==
  ASSUME bytes \in Lists, bytes' \in Lists, NEW n, Listed(bytes, Walk, n),
         First' = First, \A k \in 0 .. n : bytes'[Walk[k]] = bytes[Walk[k]]
  PROVE  Entries' = Entries /\ \A j \in Entries : Entry(j)' = Entry(j)
<1>1. Walks(bytes, Walk) /\ Walks(bytes', Walk')
  BY WalkHere, WalkThen
<1>2. Walk'[0] = Walk[0]
  BY <1>1 DEF Walks, First
<1>3. (\A k \in 0 .. n : Walk'[k] = Walk[k]) /\ Listed(bytes', Walk', n)
  BY <1>1, <1>2, WalkKept
<1>4. EntriesOf(bytes, Walk) = 0 .. n - 1 /\ EntriesOf(bytes', Walk') = 0 .. n - 1
  BY <1>1, <1>3, EntriesAre
<1>5. Entries = EntriesOf(bytes, Walk)
  BY DEF Entries, IsEntryOf, Visited, IsBad, IsEnd, EntriesOf, Bad, End
<1>6. Entries' = EntriesOf(bytes', Walk')
  BY DEF Entries, IsEntryOf, Visited, IsBad, IsEnd, EntriesOf, Bad, End
<1>7. ASSUME NEW j \in Entries
      PROVE  Entry(j)' = Entry(j)
  <2>1. j \in 0 .. n
    BY <1>4, <1>5, Sizes DEF Listed
  <2>2. Walk'[j] = Walk[j] /\ bytes'[Walk[j]] = bytes[Walk[j]]
    BY <1>3, <2>1
  <2> QED BY <2>2 DEF Entry
<1> QED BY <1>4, <1>5, <1>6, <1>7

\* put_prop on a list that ends and descends, of any length and for any names:
\* what it stores is one value, which get_prop then reads back; no size byte, no
\* part of the name and no other property's data changes (property.go).
THEOREM PutsChangeOneValue == PropertySpec => PutChangesOneValue
<1> DEFINE Kept ==
             /\ \A p \in Position : p < First => bytes'[p] = bytes[p]
             /\ \A k \in 0 .. Length : bytes'[Walk[k]] = bytes[Walk[k]]
             /\ \A k \in 0 .. Length - 1 : NumberAt(k) # outcome'.put =>
                   \A i \in 1 .. LengthOf(bytes[Walk[k]]) :
                      bytes'[Walk[k] + i] = bytes[Walk[k] + i]
           Stored ==
             outcome'.put # 0 =>
                GetProp(outcome.put, 0)' =
                   Value(IF Find(outcome'.put).entry.length = 1
                         THEN outcome'.value % ByteLimit
                         ELSE outcome'.value)
           P == WellFormed => Kept /\ Stored
<1>1. ASSUME PropertyTypeOK, PropertyNext, WellFormed
      PROVE  Kept /\ Stored
  <2>1. bytes \in Lists
    BY <1>1 DEF PropertyTypeOK, Lists
  <2>2. PICK n : n = Length
    OBVIOUS
  <2>3. Listed(bytes, Walk, n)
    BY <1>1, <2>1, <2>2, ListWellFormed
  <2>4. n \in Nat /\ First = Walk[0] /\ First \in Nat \ {0} /\ Walks(bytes, Walk)
    <3>1. Walks(bytes, Walk)
      BY <2>1, WalkHere
    <3>2. n \in Nat /\ 0 \in 0 .. MaxProperty
      BY <2>3, Sizes DEF Listed
    <3>3. Walk[0] = First
      BY <3>1 DEF Walks, First
    <3>4. bytes[0] \in Nat
      BY <2>1, Sizes DEF Lists, Position, Byte
    <3>5. bytes[0] * NameScale \in Nat
      BY <3>4, Sizes
    <3>6. First \in Nat \ {0}
      BY <3>5 DEF First
    <3> QED BY <3>1, <3>2, <3>3, <3>6
  <2>5. CASE bytes' = bytes /\ outcome'.put = 0
    BY <2>5
  <2>6. ASSUME NEW number, NEW value \in {1, ByteLimit * ByteLimit - 1}, PutProp(number, value)
        PROVE  Kept /\ Stored
    <3>1. /\ bytes' \in Lists /\ number \in Property
          /\ outcome' = [put |-> number, value |-> value]
      BY <2>1, <2>6, PutWrites
    <3>2. PICK k, d, length :
               /\ k \in Entries /\ NumberAt(k) = number
               /\ Find(number) = [fault |-> FALSE, entry |-> Entry(k)]
               /\ d = Walk[k] + 1 /\ length = LengthOf(bytes[Walk[k]])
               /\ \A p \in Position : p \notin d .. d + length - 1 => bytes'[p] = bytes[p]
               /\ \/ length = 1 /\ bytes'[d] = value % ByteLimit
                  \/ /\ length = 2
                     /\ bytes'[d] * ByteLimit + bytes'[d + 1] = value
      BY <2>1, <2>6, PutWrites
    <3>3. k \in 0 .. n - 1
      <4>1. Entries = EntriesOf(bytes, Walk)
        BY DEF Entries, IsEntryOf, Visited, IsBad, IsEnd, EntriesOf, Bad, End
      <4> QED BY <2>1, <2>3, <2>4, <3>2, <4>1, EntriesAre
    <3>4. Walk[k] \in Nat /\ length \in Nat \ {0} /\ Walk[k] + length < StorySize
      BY <2>3, <3>2, <3>3 DEF Listed
    <3>5. d .. d + length - 1 = Walk[k] + 1 .. Walk[k] + length
      BY <3>2, <3>4
    <3>6. \A p \in Position : p \notin Walk[k] + 1 .. Walk[k] + length => bytes'[p] = bytes[p]
      BY <3>2, <3>5
    <3>7. ASSUME NEW p \in Position, p < First
          PROVE  bytes'[p] = bytes[p]
      <4>1. First <= Walk[k]
        <5>1. CASE k = 0
          BY <2>4, <3>4, <5>1
        <5>2. CASE k # 0
          <6>1. k \in 0 .. n /\ 0 \in 0 .. k - 1 /\ 0 \in 0 .. n - 1
            BY <2>4, <3>3, <5>2
          <6>2. Walk[0] + LengthOf(bytes[Walk[0]]) < Walk[k] /\ LengthOf(bytes[Walk[0]]) \in Nat
            BY <2>1, <2>3, <6>1, EntriesApart DEF Listed
          <6> QED BY <2>4, <3>4, <6>2
        <5> QED BY <5>1, <5>2
      <4>2. p \notin Walk[k] + 1 .. Walk[k] + length
        BY <2>4, <3>4, <3>7, <4>1 DEF Position
      <4> QED BY <3>6, <4>2
    <3>8. ASSUME NEW j \in 0 .. n
          PROVE  bytes'[Walk[j]] = bytes[Walk[j]]
      <4>1. PICK q : q = Walk[j]
        OBVIOUS
      <4>2. q \in q .. IF j < n THEN q + LengthOf(bytes[q]) ELSE q
        <5>1. q \in Nat
          BY <2>3, <2>4, <4>1 DEF Listed
        <5>2. j < n => LengthOf(bytes[q]) \in Nat
          BY <2>3, <2>4, <4>1 DEF Listed
        <5> QED BY <5>1, <5>2
      <4>3. q \notin Walk[k] + 1 .. Walk[k] + length /\ q \in Position
        BY <2>1, <2>3, <3>2, <3>3, <4>1, <4>2, DataApart
      <4> QED BY <3>6, <4>1, <4>3
    <3>9. ASSUME NEW j \in 0 .. n - 1, j # k, NEW i \in 1 .. LengthOf(bytes[Walk[j]])
          PROVE  bytes'[Walk[j] + i] = bytes[Walk[j] + i]
      <4>1. PICK q, l, p : p = Walk[j] /\ l = LengthOf(bytes[Walk[j]]) /\ q = p + i
        OBVIOUS
      <4>2. j \in 0 .. n /\ j < n /\ p \in Nat /\ l \in Nat /\ i \in 1 .. l
        BY <2>3, <2>4, <4>1 DEF Listed
      <4>3. q \in p .. IF j < n THEN p + l ELSE p
        BY <4>1, <4>2
      <4>4. q \notin Walk[k] + 1 .. Walk[k] + length /\ q \in Position
        BY <2>1, <2>3, <3>2, <3>3, <3>9, <4>1, <4>2, <4>3, DataApart
      <4> QED BY <3>6, <4>1, <4>4
    <3>10. Kept
      <4>1. \A j \in 0 .. n - 1 : NumberAt(j) # outcome'.put => j # k
        BY <3>1, <3>2
      <4> QED BY <2>2, <3>7, <3>8, <3>9, <4>1
    <3>11. Entries' = Entries /\ \A j \in Entries : Entry(j)' = Entry(j)
      <4>1. 0 \in Position /\ 0 < First
        BY <2>4, Sizes DEF Position
      <4>2. bytes'[0] = bytes[0]
        BY <3>7, <4>1
      <4>3. First' = First
        BY <4>2 DEF First
      <4> QED BY <2>1, <2>3, <3>1, <3>8, <4>3, EntriesKept
    <3>12. PICK e : e = Entry(k)
      OBVIOUS
    <3>13. e.length = length /\ e.data = d
      BY <3>2, <3>12 DEF Entry
    <3>14. ~Find(number).fault /\ Find(number).entry = e /\ e # NoEntry
      BY <3>2, <3>4, <3>12, <3>13 DEF NoEntry
    <3>15. Find(outcome.put)' = [fault |-> FALSE, entry |-> e]
      BY <2>1, <3>1, <3>2, <3>11, <3>12, <3>14, FindKept
    <3>16. PICK none, wide : none = NoEntry /\ wide = ByteLimit
      OBVIOUS
    <3>17. GetProp(outcome.put, 0)' =
             CASE FALSE -> Fault
               [] e = none -> IF outcome'.put \in Property THEN Value(0) ELSE Fault
               [] e # none /\ e.length = 1 -> Value(bytes'[e.data])
               [] e # none /\ e.length = 2 -> Value(bytes'[e.data] * wide + bytes'[e.data + 1])
               [] OTHER -> Fault
      BY <3>15, <3>16 DEF GetProp, NoEntry, Value, Fault, ByteLimit, Property
    <3>18. Stored
      <4>1. CASE length = 1 /\ bytes'[d] = value % ByteLimit
        <5>1. GetProp(outcome.put, 0)' = Value(bytes'[d])
          BY <3>13, <3>14, <3>16, <3>17, <4>1
        <5> QED BY <3>1, <3>13, <3>14, <4>1, <5>1
      <4>2. CASE length = 2 /\ bytes'[d] * ByteLimit + bytes'[d + 1] = value
        <5>1. GetProp(outcome.put, 0)' = Value(bytes'[d] * ByteLimit + bytes'[d + 1])
          BY <3>13, <3>14, <3>16, <3>17, <4>2
        <5> QED BY <3>1, <3>13, <3>14, <4>2, <5>1
      <4> QED BY <3>2, <4>1, <4>2
    <3> QED BY <3>10, <3>18
  <2>7. ASSUME NEW number, PutPropRefused(number)
        PROVE  bytes' = bytes /\ outcome'.put = 0
    BY <2>7 DEF PutPropRefused
  <2> HIDE DEF Kept, Stored
  <2> QED BY <1>1, <2>5, <2>6, <2>7 DEF PropertyNext
<1>2. PropertyTypeOK /\ [PropertyNext]_propertyVars => [P]_propertyVars
  <2> HIDE DEF Kept, Stored
  <2> QED BY <1>1
<1> QED BY <1>2, ListTyped, PTL DEF PropertySpec, PutChangesOneValue

-----------------------------------------------------------------------------
\* Going through a list that ends before the walk does.
LEMMA ShortList ==
  ASSUME bytes \in Lists, WellFormed, NEW n, n = Length, n < MaxProperty
  PROVE  /\ n \in Nat /\ Listed(bytes, Walk, n) /\ Entries = 0 .. n - 1 /\ EndsWell
         /\ \A k \in 0 .. n : IsEntry(k) <=> k < n
         /\ \A k \in 0 .. n - 1 : NumberAt(k) \in Property
         /\ \A j, k \in 0 .. n - 1 : NumberAt(j) = NumberAt(k) => j = k
<1>1. /\ Listed(bytes, Walk, n)
      /\ \A j, k \in 0 .. n - 1 : j < k => NumberAt(j) > NumberAt(k)
  BY ListWellFormed
<1>2. n \in Nat /\ Walk[n] \in Nat /\ End(bytes, Walk[n]) /\ MaxProperty \in Nat
  BY <1>1, Sizes DEF Listed
<1>3. Entries = EntriesOf(bytes, Walk)
  BY DEF Entries, IsEntryOf, Visited, IsBad, IsEnd, EntriesOf, Bad, End
<1>4. Entries = 0 .. n - 1
  BY <1>1, <1>3, WalkHere, EntriesAre
<1>5. EndsWell
  <2>1. n \in 0 .. MaxProperty - 1 /\ Walk[n] # -1
    BY <1>2
  <2> QED BY <1>2, <2>1 DEF EndsWell, Visited, IsEnd, End
<1>6. ASSUME NEW k \in 0 .. n
      PROVE  IsEntry(k) <=> k < n
  <2>1. k \in 0 .. MaxProperty - 1 /\ (k \in 0 .. n - 1 <=> k < n)
    BY <1>2
  <2>2. k \in Entries <=> IsEntry(k)
    BY <2>1 DEF Entries, IsEntry
  <2> QED BY <1>4, <2>1, <2>2
<1>7. \A k \in 0 .. n - 1 : NumberAt(k) \in Property
  BY <1>1 DEF Listed, NumberAt
<1>8. ASSUME NEW j \in 0 .. n - 1, NEW k \in 0 .. n - 1, NumberAt(j) = NumberAt(k)
      PROVE  j = k
  <2>1. PICK x, y : x = NumberAt(j) /\ y = NumberAt(k)
    OBVIOUS
  <2>2. x \in Int /\ y \in Int /\ x = y /\ j \in Int /\ k \in Int
    BY <1>2, <1>7, <1>8, <2>1, Sizes DEF Property
  <2>3. (j < k => x > y) /\ (k < j => y > x)
    BY <1>1, <2>1
  <2> QED BY <2>2, <2>3
<1> QED BY <1>1, <1>2, <1>4, <1>5, <1>6, <1>7, <1>8

\* get_next_prop gives the next entry, or 0 after the last one.
LEMMA NextProperty ==
  ASSUME bytes \in Lists, WellFormed, NEW n, n = Length, n < MaxProperty,
         NEW number, NEW j \in -1 .. n - 1,
         number = IF j = -1 THEN 0 ELSE NumberAt(j)
  PROVE  GetNextProp(number) = Value(IF j + 1 < n THEN NumberAt(j + 1) ELSE 0)
<1> DEFINE having == {k \in Entries : Entry(k).number = number}
           place == IF number = 0 THEN -1 ELSE CHOOSE k \in having : \A i \in having : k <= i
<1>1. /\ n \in Nat /\ Listed(bytes, Walk, n) /\ Entries = 0 .. n - 1 /\ EndsWell
      /\ \A k \in 0 .. n : IsEntry(k) <=> k < n
      /\ \A k \in 0 .. n - 1 : NumberAt(k) \in Property
      /\ \A i, k \in 0 .. n - 1 : NumberAt(i) = NumberAt(k) => i = k
  BY ShortList
<1>2. \A k : Entry(k).number = NumberAt(k)
  BY DEF Entry, NumberAt
<1>3. place = j /\ (number # 0 => having # {})
  <2>1. CASE j = -1
    BY <2>1
  <2>2. CASE j # -1
    <3>1. j \in 0 .. n - 1 /\ number = NumberAt(j) /\ number \in Property
      BY <1>1, <2>2
    <3>2. number # 0 /\ j \in Int
      BY <1>1, <3>1 DEF Property
    <3>3. having = {j}
      BY <1>1, <1>2, <3>1
    <3>4. (CHOOSE k \in having : \A i \in having : k <= i) = j
      <4> HIDE DEF having
      <4> QED BY <3>2, <3>3
    <3> HIDE DEF having
    <3> QED BY <3>2, <3>3, <3>4
  <2> QED BY <2>1, <2>2
<1>4. GetNextProp(number) =
        IF number # 0 /\ having = {}
        THEN Fault
        ELSE CASE IsEntry(place + 1) -> Value(Entry(place + 1).number)
               [] ~IsEntry(place + 1) /\ EndsWell -> Value(0)
               [] OTHER -> Fault
  BY DEF GetNextProp
<1> HIDE DEF having, place
<1>5. GetNextProp(number) =
        CASE IsEntry(j + 1) -> Value(NumberAt(j + 1))
          [] ~IsEntry(j + 1) /\ EndsWell -> Value(0)
          [] OTHER -> Fault
  BY <1>2, <1>3, <1>4
<1>6. IsEntry(j + 1) <=> j + 1 < n
  <2>1. j + 1 \in 0 .. n
    BY <1>1
  <2> QED BY <1>1, <2>1
<1> QED BY <1>1, <1>5, <1>6

\* get_prop_addr gives each property the address from which get_prop_len comes
\* back to its length, and no address to a property that is not there.
LEMMA AddressOfProperty ==
  ASSUME bytes \in Lists, WellFormed, NEW n, n = Length, n < MaxProperty
  PROVE  /\ \A k \in 0 .. n - 1 :
               LET address == GetPropAddr(NumberAt(k))
               IN  IF Walk[k] + 1 < NameableSize
                   THEN GetPropLen(address.value) = Value(LengthOf(bytes[Walk[k]]))
                   ELSE address = Fault
         /\ \A number : number \notin {NumberAt(k) : k \in 0 .. n - 1} =>
               GetPropAddr(number) = Value(0)
<1>1. /\ n \in Nat /\ Listed(bytes, Walk, n) /\ Entries = 0 .. n - 1 /\ EndsWell
      /\ \A i, k \in 0 .. n - 1 : NumberAt(i) = NumberAt(k) => i = k
  BY ShortList
<1>2. NameableSize \in 1 .. StorySize /\ StorySize \in Nat /\ NameableSize \in Nat
  BY PropertyAssumption
<1>3. ASSUME NEW k \in 0 .. n - 1
      PROVE  LET address == GetPropAddr(NumberAt(k))
             IN  IF Walk[k] + 1 < NameableSize
                 THEN GetPropLen(address.value) = Value(LengthOf(bytes[Walk[k]]))
                 ELSE address = Fault
  <2>1. PICK p, l : p = Walk[k] /\ l = LengthOf(bytes[p])
    OBVIOUS
  <2>2. p \in Nat /\ p < StorySize /\ bytes[p] # 0
    <3>1. p \in Nat /\ l \in Nat /\ p + l < StorySize /\ ~End(bytes, p)
      BY <1>1, <2>1 DEF Listed
    <3> QED BY <1>2, <3>1 DEF End
  <2>3. Find(NumberAt(k)) = [fault |-> FALSE, entry |-> Entry(k)]
    BY <1>1, FindFinds
  <2>4. ~Find(NumberAt(k)).fault /\ Find(NumberAt(k)).entry.data = p + 1
    BY <2>1, <2>3 DEF Entry
  <2>5. CASE p + 1 < NameableSize
    <3>1. GetPropAddr(NumberAt(k)) = Value(p + 1)
      BY <1>2, <2>2, <2>4, <2>5 DEF GetPropAddr
    <3>2. PICK address : address = p + 1
      OBVIOUS
    <3>3. address # 0 /\ ~(address > StorySize) /\ bytes[address - 1] = bytes[p]
      BY <1>2, <2>2, <3>2
    <3>4. GetPropLen(address) = Value(LengthOf(bytes[address - 1]))
      BY <2>2, <3>3 DEF GetPropLen
    <3> QED BY <2>1, <2>5, <3>1, <3>2, <3>3, <3>4 DEF Value
  <2>6. CASE ~(p + 1 < NameableSize)
    <3>1. p + 1 >= NameableSize
      BY <1>2, <2>2, <2>6
    <3> QED BY <2>1, <2>4, <2>6, <3>1 DEF GetPropAddr
  <2> QED BY <2>5, <2>6
<1>4. ASSUME NEW number, number \notin {NumberAt(k) : k \in 0 .. n - 1}
      PROVE  GetPropAddr(number) = Value(0)
  <2>1. {k \in Entries : NumberAt(k) = number} = {}
    BY <1>1, <1>4
  <2>2. Find(number) = [fault |-> ~EndsWell, entry |-> NoEntry]
    BY <2>1, FindFinds
  <2>3. ~Find(number).fault
    <3>1. (~EndsWell) = FALSE
      BY <1>1
    <3>2. Find(number).fault = (~EndsWell)
      BY <2>2
    <3> QED BY <3>1, <3>2
  <2>4. Find(number).entry.data = 0
    BY <2>2 DEF NoEntry
  <2> QED BY <1>2, <2>3, <2>4 DEF GetPropAddr
<1> QED BY <1>3, <1>4

\* In a well-formed list of fewer than 31 properties, of whatever numbers and
\* lengths and wherever it ends in memory, get_next_prop comes to every property
\* and to the end, and get_prop_addr and get_prop_len belong together.
THEOREM ShortListsAlwaysEnumerable == PropertySpec => []ShortListsEnumerable
<1>1. ASSUME PropertyTypeOK, WellFormed, Length < MaxProperty
      PROVE  Enumerable
  <2>1. bytes \in Lists
    BY <1>1 DEF PropertyTypeOK, Lists
  <2>2. PICK n : n = Length
    OBVIOUS
  <2>3. n \in Nat
    BY <1>1, <2>1, <2>2, ShortList
  <2>4. ASSUME NEW k \in 0 .. n - 1
        PROVE  GetNextProp(IF k = 0 THEN 0 ELSE NumberAt(k - 1)) = Value(NumberAt(k))
    <3>1. PICK j, number : j = k - 1 /\ number = IF k = 0 THEN 0 ELSE NumberAt(k - 1)
      OBVIOUS
    <3>2. j \in -1 .. n - 1 /\ j + 1 = k /\ (j = -1 <=> k = 0) /\ k < n
      BY <2>3, <3>1
    <3>3. number = IF j = -1 THEN 0 ELSE NumberAt(j)
      BY <3>1, <3>2
    <3>4. GetNextProp(number) = Value(IF j + 1 < n THEN NumberAt(j + 1) ELSE 0)
      BY <1>1, <2>1, <2>2, <3>2, <3>3, NextProperty
    <3> QED BY <3>1, <3>2, <3>4
  <2>5. GetNextProp(IF n = 0 THEN 0 ELSE NumberAt(n - 1)) = Value(0)
    <3>1. PICK j, number : j = n - 1 /\ number = IF n = 0 THEN 0 ELSE NumberAt(n - 1)
      OBVIOUS
    <3>2. j \in -1 .. n - 1 /\ ~(j + 1 < n) /\ (j = -1 <=> n = 0)
      BY <2>3, <3>1
    <3>3. number = IF j = -1 THEN 0 ELSE NumberAt(j)
      BY <3>1, <3>2
    <3>4. GetNextProp(number) = Value(IF j + 1 < n THEN NumberAt(j + 1) ELSE 0)
      BY <1>1, <2>1, <2>2, <3>2, <3>3, NextProperty
    <3> QED BY <3>1, <3>2, <3>4
  <2> QED BY <1>1, <2>1, <2>2, <2>4, <2>5, AddressOfProperty DEF Enumerable
<1>2. PropertyTypeOK => ShortListsEnumerable
  BY <1>1 DEF ShortListsEnumerable
<1> QED BY <1>2, ListTyped, PTL

-----------------------------------------------------------------------------
(* Attributes.  The bits of a byte and of the flags of an object as powers *)
(* of two.                                                                 *)

LEMMA FlagSizes ==
  /\ FlagsPerByte \in Nat \ {0} /\ FlagBytes \in Nat \ {0} /\ EntrySize \in Nat \ {0}
  /\ FlagBytes < EntrySize /\ MaxObject \in Nat /\ TableSize \in Nat
  /\ FlagCount \in Nat /\ FlagsPerByte <= FlagCount
  /\ FlagCount = FlagBytes * FlagsPerByte
<1>1. /\ FlagsPerByte \in Nat \ {0} /\ FlagBytes \in Nat \ {0} /\ EntrySize \in Nat \ {0}
      /\ FlagBytes < EntrySize /\ MaxObject \in Nat /\ TableSize \in Nat
  BY FlagsAssumption
<1>2. PICK b, n : b = FlagsPerByte /\ n = FlagBytes
  OBVIOUS
<1>3. b * n \in Nat /\ b * (n - 1) >= 0 /\ b * (n - 1) = b * n - b /\ n * b = b * n
  BY <1>1, <1>2
<1> QED BY <1>1, <1>2, <1>3 DEF FlagCount

LEMMA BitSteps ==
  /\ Bit[0] = 1
  /\ \A k \in 1 .. FlagCount : Bit[k] = 2 * Bit[k - 1]
  /\ \A k \in 0 .. FlagCount : Bit[k] \in Nat \ {0}
<1> DEFINE n == FlagCount
           A == Nat \ {0}
           step == [kx \in Nat \X A |-> 2 * kx[2]]
           Steps(f) == [k \in 0 .. n |-> IF k = 0 THEN 1 ELSE 2 * f[k - 1]]
<1>1. n \in Nat
  BY FlagSizes
<1> HIDE DEF n
<1>2. step \in [Nat \X A -> A] /\ 1 \in A /\ \A k \in Nat, x \in A : step[<<k, x>>] = 2 * x
  OBVIOUS
<1> HIDE DEF step, A
<1>3. PICK f : Unfolds(f, A, n, 1, step)
  BY <1>1, <1>2, RecursionExists
<1>4. /\ f[0] = 1 /\ f \in [0 .. n -> A]
      /\ \A k \in 1 .. n : f[k] = step[<<k, f[k - 1]>>]
  BY <1>3 DEF Unfolds
<1>5. \A k \in 1 .. n : f[k] = 2 * f[k - 1]
  <2> SUFFICES ASSUME NEW k \in 1 .. n
               PROVE  f[k] = 2 * f[k - 1]
    OBVIOUS
  <2>1. k \in Nat /\ k - 1 \in 0 .. n
    BY <1>1
  <2> QED BY <1>2, <1>4, <2>1
<1>6. f = Steps(f)
  <2>1. \A k \in 0 .. n : Steps(f)[k] = f[k]
    <3> SUFFICES ASSUME NEW k \in 0 .. n
                 PROVE  Steps(f)[k] = f[k]
      OBVIOUS
    <3>1. k # 0 => k \in 1 .. n
      BY <1>1
    <3> QED BY <1>4, <1>5, <3>1
  <2>2. Steps(f) = [k \in 0 .. n |-> Steps(f)[k]] /\ f = [k \in 0 .. n |-> f[k]]
    BY <1>4
  <2> HIDE DEF Steps
  <2> QED BY <2>1, <2>2
<1>7. PICK w : w = CHOOSE at : at = Steps(at)
  OBVIOUS
<1>8. Bit = w
  BY <1>7 DEF Bit, n
<1>9. w = Steps(w)
  <2> HIDE DEF Steps
  <2> QED BY <1>6, <1>7
<1>10. w[0] = 1 /\ \A k \in 1 .. n : w[k] = 2 * w[k - 1]
  <2>1. 0 \in 0 .. n /\ \A k \in 1 .. n : k \in 0 .. n /\ k # 0
    BY <1>1
  <2> QED BY <1>9, <2>1
<1> DEFINE S == {k \in Nat : k <= n => w[k] \in A}
<1>11. 0 \in S
  BY <1>2, <1>10
<1>12. ASSUME NEW k \in Nat, k \in S
       PROVE  k + 1 \in S
  <2> SUFFICES ASSUME k + 1 <= n
               PROVE  w[k + 1] \in A
    OBVIOUS
  <2>1. k + 1 \in 1 .. n /\ (k + 1) - 1 = k /\ k <= n
    BY <1>1
  <2>2. w[k + 1] = 2 * w[k] /\ w[k] \in A
    BY <1>10, <1>12, <2>1
  <2> QED BY <2>2 DEF A
<1> HIDE DEF S
<1>13. Nat \subseteq S
  BY <1>11, <1>12, SetInduction
<1>14. \A k \in 0 .. n : w[k] \in A
  BY <1>1, <1>13 DEF S
<1> QED BY <1>8, <1>10, <1>14 DEF n, A

LEMMA BitsMultiply ==
  ASSUME NEW j \in Nat, NEW k \in Nat, j + k <= FlagCount
  PROVE  Bit[j + k] = Bit[j] * Bit[k]
<1> DEFINE S == {l \in Nat : j + l <= FlagCount => Bit[j + l] = Bit[j] * Bit[l]}
<1>1. FlagCount \in Nat
  BY FlagSizes
<1>2. 0 \in S
  <2> SUFFICES ASSUME j + 0 <= FlagCount
               PROVE  Bit[j + 0] = Bit[j] * Bit[0]
    OBVIOUS
  <2>1. j + 0 = j /\ Bit[j] \in Nat /\ Bit[0] = 1
    BY <1>1, BitSteps
  <2> QED BY <2>1
<1>3. ASSUME NEW l \in Nat, l \in S
      PROVE  l + 1 \in S
  <2> SUFFICES ASSUME j + (l + 1) <= FlagCount
               PROVE  Bit[j + (l + 1)] = Bit[j] * Bit[l + 1]
    OBVIOUS
  <2>1. PICK i, x, y, z : i = j + l /\ x = Bit[j] /\ y = Bit[l] /\ z = Bit[i]
    OBVIOUS
  <2>2. /\ i \in Nat /\ i <= FlagCount /\ j + (l + 1) = i + 1
        /\ i + 1 \in 1 .. FlagCount /\ (i + 1) - 1 = i
        /\ l + 1 \in 1 .. FlagCount /\ (l + 1) - 1 = l
        /\ j \in 0 .. FlagCount /\ l \in 0 .. FlagCount
    BY <1>1, <2>1
  <2>3. Bit[i + 1] = 2 * z /\ Bit[l + 1] = 2 * y /\ x \in Nat /\ y \in Nat
    BY <2>1, <2>2, BitSteps
  <2>4. z = x * y
    BY <1>3, <2>1, <2>2
  <2>5. 2 * (x * y) = x * (2 * y)
    BY <2>3
  <2> QED BY <2>1, <2>2, <2>3, <2>4, <2>5
<1> HIDE DEF S
<1>4. Nat \subseteq S
  BY <1>2, <1>3, SetInduction
<1> QED BY <1>4 DEF S

\* The quotient by a product is taken one factor after the other.
LEMMA NestedQuotient ==
  ASSUME NEW x \in Nat, NEW m \in Nat \ {0}, NEW k \in Nat \ {0}
  PROVE  x \div (m * k) = (x \div m) \div k /\ x \div m \in Nat
<1>1. PICK p, r : p = x \div m /\ r = x % m
  OBVIOUS
<1>2. p \in Nat /\ r \in 0 .. m - 1 /\ x = m * p + r
  <2>1. x \in Int /\ x >= 0
    OBVIOUS
  <2>2. x = m * (x \div m) + (x % m) /\ x % m \in 0 .. m - 1 /\ x \div m \in Nat
    BY <2>1, DivisionParts
  <2> QED BY <1>1, <2>2, Zenon
<1>3. PICK q, s : q = p \div k /\ s = p % k
  OBVIOUS
<1>4. q \in Nat /\ s \in 0 .. k - 1 /\ p = k * q + s
  <2>1. p \in Int /\ p >= 0
    BY <1>2
  <2>2. p = k * (p \div k) + (p % k) /\ p % k \in 0 .. k - 1 /\ p \div k \in Nat
    BY <2>1, DivisionParts
  <2> QED BY <1>3, <2>2, Zenon
<1>5. m * p = m * (k * q) + m * s /\ m * (k * q) = (m * k) * q
  <2>1. PICK t : t = k * q
    OBVIOUS
  <2>2. t \in Nat /\ p = t + s
    BY <1>4, <2>1
  <2>3. m * p = m * t + m * s
    BY <1>4, <2>2
  <2>4. m * (k * q) = (m * k) * q
    BY <1>4
  <2> QED BY <2>1, <2>3, <2>4
<1>6. m * s + r \in 0 .. m * k - 1 /\ m * k \in Nat \ {0}
  <2>1. m * s \in Nat /\ m * k \in Nat \ {0} /\ m * s + m <= m * k
    BY <1>4, MultiplesApart
  <2> QED BY <1>2, <2>1
<1>7. x = (m * k) * q + (m * s + r)
  <2>1. PICK a, b : a = m * (k * q) /\ b = m * s
    OBVIOUS
  <2>2. a \in Nat /\ b \in Nat /\ m * p = a + b
    BY <1>4, <1>5, <2>1
  <2> QED BY <1>2, <1>5, <2>1, <2>2
<1>8. x \div (m * k) = q
  BY <1>4, <1>6, <1>7, DivisionOf
<1> QED BY <1>1, <1>2, <1>3, <1>8

LEMMA Parity ==
  ASSUME NEW z \in Nat, NEW k \in Nat
  PROVE  /\ (z + 2 * k) % 2 = z % 2 /\ z % 2 \in {0, 1}
         /\ (2 * k) % 2 = 0 /\ (2 * k + 1) % 2 = 1
         /\ (2 * k) \div 2 = k /\ (2 * k + 1) \div 2 = k
OBVIOUS

\* A bit that is clear is set by adding it: no other bit changes, and none is
\* carried.
LEMMA BitRaised ==
  ASSUME NEW s \in 0 .. FlagsPerByte - 1, NEW x \in Nat, NEW y, y = x + Bit[s],
         (x \div Bit[s]) % 2 = 0
  PROVE  /\ y \in Nat /\ (y \div Bit[s]) % 2 = 1
         /\ \A t \in (0 .. FlagsPerByte - 1) \ {s} : (y \div Bit[t]) % 2 = (x \div Bit[t]) % 2
         /\ x < Bit[FlagsPerByte] => y < Bit[FlagsPerByte]
<1>1. /\ FlagsPerByte \in Nat /\ FlagCount \in Nat /\ FlagsPerByte <= FlagCount
      /\ s \in Nat /\ s < FlagsPerByte /\ s \in 0 .. FlagCount
  BY FlagSizes
<1>2. PICK m : m = Bit[s]
  OBVIOUS
<1>3. m \in Nat \ {0}
  BY <1>1, <1>2, BitSteps
<1>4. PICK p, d : p = x \div m /\ d = x % m
  OBVIOUS
<1>5. p \in Nat /\ d \in 0 .. m - 1 /\ x = m * p + d
  <2>1. x \in Int /\ x >= 0
    OBVIOUS
  <2>2. x = m * (x \div m) + (x % m) /\ x % m \in 0 .. m - 1 /\ x \div m \in Nat
    BY <1>3, <2>1, DivisionParts
  <2> QED BY <1>4, <2>2, Zenon
<1>6. PICK c \in Nat : p = 2 * c
  <2>1. p % 2 = 0
    BY <1>2, <1>4
  <2>2. p = 2 * (p \div 2) /\ p \div 2 \in Nat
    BY <1>5, <2>1
  <2> QED BY <2>2
<1>7. y = m * (p + 1) + d /\ y \in Nat
  <2>1. m * (p + 1) = m * p + m /\ m * p \in Nat
    BY <1>3, <1>5
  <2> QED BY <1>2, <1>3, <1>5, <2>1
<1>8. y \div m = p + 1
  BY <1>3, <1>5, <1>7, DivisionOf
<1>9. (y \div m) % 2 = 1
  BY <1>6, <1>8, Parity
<1>10. ASSUME NEW t \in 0 .. s - 1
       PROVE  (y \div Bit[t]) % 2 = (x \div Bit[t]) % 2
  <2>1. PICK a, k : a = Bit[t] /\ k = Bit[s - t - 1]
    OBVIOUS
  <2>2. /\ t \in Nat /\ s - t \in Nat /\ t + (s - t) = s /\ t \in 0 .. FlagCount
        /\ s - t - 1 \in 0 .. FlagCount /\ s - t \in 1 .. FlagCount
        /\ t + (s - t) <= FlagCount
    BY <1>1
  <2>3. a \in Nat \ {0} /\ k \in Nat \ {0}
    BY <2>1, <2>2, BitSteps
  <2>4. Bit[s - t] = 2 * k
    BY <2>1, <2>2, BitSteps
  <2>5. m = a * (2 * k)
    BY <1>2, <2>1, <2>2, <2>4, BitsMultiply
  <2>6. PICK z, w : z = x \div a /\ w = x % a
    OBVIOUS
  <2>7. z \in Nat /\ w \in 0 .. a - 1 /\ x = a * z + w
    <3>1. x \in Int /\ x >= 0
      OBVIOUS
    <3>2. x = a * (x \div a) + (x % a) /\ x % a \in 0 .. a - 1 /\ x \div a \in Nat
      BY <2>3, <3>1, DivisionParts
    <3> QED BY <2>6, <3>2, Zenon
  <2>8. a * (z + 2 * k) = a * z + a * (2 * k)
    BY <2>3, <2>7
  <2>9. y = a * (z + 2 * k) + w /\ z + 2 * k \in Int
    <3>1. a * z \in Nat /\ m \in Nat
      BY <1>3, <2>3, <2>7
    <3>2. y = x + m
      BY <1>2
    <3> QED BY <2>3, <2>5, <2>7, <2>8, <3>1, <3>2
  <2>10. y \div a = z + 2 * k
    BY <1>7, <2>3, <2>7, <2>9, DivisionOf
  <2> QED BY <2>1, <2>3, <2>6, <2>7, <2>10, Parity
<1>11. ASSUME NEW t \in s + 1 .. FlagCount
       PROVE  y \div Bit[t] = x \div Bit[t] /\ Bit[t] \in Nat \ {0}
  <2>1. PICK k : k = Bit[t - s - 1]
    OBVIOUS
  <2>2. /\ t - s \in Nat /\ s + (t - s) = t /\ t \in 0 .. FlagCount
        /\ t - s - 1 \in 0 .. FlagCount /\ t - s \in 1 .. FlagCount
        /\ s + (t - s) <= FlagCount
    BY <1>1
  <2>3. k \in Nat \ {0} /\ Bit[t - s] = 2 * k /\ Bit[t] \in Nat \ {0}
    BY <2>1, <2>2, BitSteps
  <2>4. Bit[t] = m * (2 * k)
    BY <1>1, <1>2, <2>2, <2>3, BitsMultiply
  <2>5. 2 * k \in Nat \ {0}
    BY <2>3
  <2>6. x \div (m * (2 * k)) = (x \div m) \div (2 * k)
    BY <1>3, <2>5, NestedQuotient
  <2>7. y \div (m * (2 * k)) = (y \div m) \div (2 * k)
    BY <1>3, <1>7, <2>5, NestedQuotient
  <2>8. \A n \in Nat : n \div (2 * k) = (n \div 2) \div k
    <3>1. PICK two : two = 2
      OBVIOUS
    <3>2. two \in Nat \ {0}
      BY <3>1
    <3>3. \A n \in Nat : n \div (two * k) = (n \div two) \div k
      BY <2>3, <3>2, NestedQuotient
    <3> QED BY <3>1, <3>3, Zenon
  <2>9. p \in Nat /\ p + 1 \in Nat
    BY <1>5
  <2>10. p \div 2 = c /\ (p + 1) \div 2 = c
    BY <1>6, Parity
  <2> QED BY <1>4, <1>8, <2>3, <2>4, <2>6, <2>7, <2>8, <2>9, <2>10
<1>12. ASSUME x < Bit[FlagsPerByte]
       PROVE  y < Bit[FlagsPerByte]
  <2>1. FlagsPerByte \in s + 1 .. FlagCount
    BY <1>1
  <2>2. PICK w : w = Bit[FlagsPerByte]
    OBVIOUS
  <2>3. y \div w = x \div w /\ w \in Nat \ {0}
    BY <1>11, <2>1, <2>2
  <2>4. x \in 0 .. w - 1
    BY <1>12, <2>2, <2>3
  <2>5. x \div w = 0
    BY <2>3, <2>4, RemainderOfSmall
  <2>6. y \in Int
    BY <1>7
  <2>7. y = w * (y \div w) + (y % w) /\ y % w \in 0 .. w - 1
    BY <2>3, <2>6, DivisionParts
  <2>8. y = w * 0 + (y % w)
    BY <2>3, <2>5, <2>7
  <2>9. y < w
    <3>1. PICK r : r = y % w
      OBVIOUS
    <3>2. r \in 0 .. w - 1 /\ y = w * 0 + r
      BY <2>7, <2>8, <3>1
    <3>3. w * 0 = 0
      BY <2>3
    <3> QED BY <2>3, <3>2, <3>3
  <2> QED BY <2>2, <2>9
<1>13. ASSUME NEW t \in (0 .. FlagsPerByte - 1) \ {s}
       PROVE  (y \div Bit[t]) % 2 = (x \div Bit[t]) % 2
  <2>1. t \in 0 .. s - 1 \/ t \in s + 1 .. FlagCount
    BY <1>1
  <2> QED BY <1>10, <1>11, <2>1
<1> QED BY <1>2, <1>7, <1>9, <1>12, <1>13

-----------------------------------------------------------------------------
(* The flags of an object as one number.                                   *)

Tables == [Offset -> 0 .. Bit[FlagsPerByte] - 1]

LEMMA ByteSize == Bit[FlagsPerByte] \in Nat \ {0}
<1>1. FlagsPerByte \in 0 .. FlagCount
  BY FlagSizes
<1> QED BY <1>1, BitSteps

LEMMA EntryPlace ==
  ASSUME NEW o, HasEntry(o)
  PROVE  /\ o \in Nat \ {0} /\ EntryBegin(o) \in Nat
         /\ \A i \in 0 .. EntrySize - 1 : EntryBegin(o) + i \in Offset
<1>1. o \in Nat \ {0} /\ EntryBegin(o) + EntrySize <= TableSize
  BY FlagSizes DEF HasEntry
<1>2. EntryBegin(o) \in Nat
  <2>1. o - 1 \in Nat /\ EntrySize \in Nat
    BY <1>1, FlagSizes
  <2>2. (o - 1) * EntrySize \in Nat
    BY <2>1
  <2> QED BY <2>2 DEF EntryBegin
<1>3. PICK e : e = EntryBegin(o)
  OBVIOUS
<1>4. \A i \in 0 .. EntrySize - 1 : e + i \in Offset
  BY <1>1, <1>2, <1>3, FlagSizes DEF Offset
<1> QED BY <1>1, <1>2, <1>3, <1>4

\* f is the number after each flag byte of b at e.
WordOf(f, b, e) ==
    /\ \A i \in 0 .. FlagBytes : f[i] \in Nat
    /\ f[0] = 0
    /\ \A i \in 1 .. FlagBytes : f[i] = f[i - 1] * Bit[FlagsPerByte] + b[e + i - 1]

LEMMA WordComputed ==
  ASSUME NEW b \in Tables, NEW o, HasEntry(o)
  PROVE  \E f : WordOf(f, b, EntryBegin(o)) /\ FlagWord(b, o) = f[FlagBytes]
<1> DEFINE n == FlagBytes
           Size == Bit[FlagsPerByte]
           e == EntryBegin(o)
           Digit(k) == IF k \in 1 .. n THEN b[e + k - 1] ELSE 0
           step == [kx \in Nat \X Nat |-> kx[2] * Size + Digit(kx[1])]
           Steps(f) == [i \in 0 .. n |-> IF i = 0 THEN 0 ELSE f[i - 1] * Size + b[e + i - 1]]
<1>1. n \in Nat /\ Size \in Nat
  BY FlagSizes, ByteSize
<1>2. \A k \in Nat : Digit(k) \in Nat
  <2> SUFFICES ASSUME NEW k \in 1 .. n
               PROVE  b[e + k - 1] \in Nat
    OBVIOUS
  <2>1. PICK i : i = k - 1
    OBVIOUS
  <2>2. i \in 0 .. EntrySize - 1 /\ e + k - 1 = e + i
    BY <2>1, FlagSizes, EntryPlace
  <2>3. e + i \in Offset
    BY <2>2, EntryPlace
  <2> QED BY <1>1, <2>2, <2>3 DEF Tables
<1> HIDE DEF n, Size, e, Digit
<1>3. step \in [Nat \X Nat -> Nat] /\ \A k, x \in Nat : step[<<k, x>>] = x * Size + Digit(k)
  <2>1. \A k, x \in Nat : x * Size + Digit(k) \in Nat
    <3> SUFFICES ASSUME NEW k \in Nat, NEW x \in Nat
                 PROVE  x * Size + Digit(k) \in Nat
      OBVIOUS
    <3>1. x * Size \in Nat /\ Digit(k) \in Nat
      BY <1>1, <1>2
    <3> QED BY <3>1
  <2>2. \A kx \in Nat \X Nat : kx[1] \in Nat /\ kx[2] \in Nat
    OBVIOUS
  <2> QED BY <2>1, <2>2
<1> HIDE DEF step
<1>4. PICK f : Unfolds(f, Nat, n, 0, step)
  BY <1>1, <1>3, RecursionExists
<1>5. /\ f[0] = 0 /\ f \in [0 .. n -> Nat]
      /\ \A k \in 1 .. n : f[k] = step[<<k, f[k - 1]>>]
  BY <1>4 DEF Unfolds
<1>6. \A k \in 1 .. n : f[k] = f[k - 1] * Size + b[e + k - 1]
  <2> SUFFICES ASSUME NEW k \in 1 .. n
               PROVE  f[k] = f[k - 1] * Size + b[e + k - 1]
    OBVIOUS
  <2>1. k \in Nat /\ f[k - 1] \in Nat /\ Digit(k) = b[e + k - 1]
    BY <1>1, <1>5 DEF Digit
  <2> QED BY <1>3, <1>5, <2>1
<1>7. f = Steps(f)
  <2>1. \A k \in 0 .. n : Steps(f)[k] = f[k]
    <3> SUFFICES ASSUME NEW k \in 0 .. n
                 PROVE  Steps(f)[k] = f[k]
      OBVIOUS
    <3>1. k # 0 => k \in 1 .. n
      BY <1>1
    <3> QED BY <1>5, <1>6, <3>1
  <2>2. Steps(f) = [k \in 0 .. n |-> Steps(f)[k]] /\ f = [k \in 0 .. n |-> f[k]]
    BY <1>5
  <2> HIDE DEF Steps
  <2> QED BY <2>1, <2>2
<1>8. PICK w : w = CHOOSE at : at = Steps(at)
  OBVIOUS
<1>9. FlagWord(b, o) = w[n]
  BY <1>8 DEF FlagWord, n, Size, e
<1>10. w = Steps(w)
  <2> HIDE DEF Steps
  <2> QED BY <1>7, <1>8
<1>11. w[0] = 0 /\ \A k \in 1 .. n : w[k] = w[k - 1] * Size + b[e + k - 1]
  <2>1. 0 \in 0 .. n /\ \A k \in 1 .. n : k \in 0 .. n /\ k # 0
    BY <1>1
  <2> QED BY <1>10, <2>1
<1> DEFINE S == {k \in Nat : k <= n => w[k] \in Nat}
<1>12. 0 \in S
  BY <1>11
<1>13. ASSUME NEW k \in Nat, k \in S
       PROVE  k + 1 \in S
  <2> SUFFICES ASSUME k + 1 <= n
               PROVE  w[k + 1] \in Nat
    OBVIOUS
  <2>1. k + 1 \in 1 .. n /\ (k + 1) - 1 = k /\ k <= n
    BY <1>1
  <2>2. w[k + 1] = w[k] * Size + Digit(k + 1) /\ w[k] \in Nat
    BY <1>11, <1>13, <2>1 DEF Digit
  <2>3. Digit(k + 1) \in Nat /\ w[k] * Size \in Nat
    BY <1>1, <1>2, <2>2
  <2> QED BY <2>2, <2>3
<1> HIDE DEF S
<1>14. Nat \subseteq S
  BY <1>12, <1>13, SetInduction
<1>15. \A k \in 0 .. n : w[k] \in Nat
  BY <1>1, <1>14 DEF S
<1>16. WordOf(w, b, e)
  BY <1>11, <1>15 DEF WordOf, n, Size
<1> QED BY <1>9, <1>16 DEF n, e

\* The last j bytes of the number are a remainder.
LEMMA WordSplit ==
  ASSUME NEW b \in Tables, NEW e \in Nat, NEW f, WordOf(f, b, e),
         \A i \in 0 .. EntrySize - 1 : e + i \in Offset,
         NEW j \in 0 .. FlagBytes
  PROVE  /\ j * FlagsPerByte \in 0 .. FlagCount
         /\ \E rest \in 0 .. Bit[j * FlagsPerByte] - 1 :
               f[FlagBytes] = Bit[j * FlagsPerByte] * f[FlagBytes - j] + rest
<1> DEFINE n == FlagBytes
           w == FlagsPerByte
           S == {k \in Nat : k <= n =>
                   /\ k * w \in 0 .. FlagCount
                   /\ \E rest \in 0 .. Bit[k * w] - 1 : f[n] = Bit[k * w] * f[n - k] + rest}
<1>1. n \in Nat /\ w \in Nat \ {0} /\ FlagCount \in Nat /\ FlagCount = n * w
  BY FlagSizes
<1>2. \A i \in 0 .. n : f[i] \in Nat
  BY DEF WordOf
<1>3. \A i \in 1 .. n : f[i] = f[i - 1] * Bit[w] + b[e + i - 1]
  BY DEF WordOf
<1>4. \A i \in 1 .. n : b[e + i - 1] \in 0 .. Bit[w] - 1
  <2> SUFFICES ASSUME NEW i \in 1 .. n
               PROVE  b[e + i - 1] \in 0 .. Bit[w] - 1
    OBVIOUS
  <2>1. i - 1 \in 0 .. EntrySize - 1 /\ e + (i - 1) = e + i - 1
    BY FlagSizes
  <2>2. e + (i - 1) \in Offset
    BY <2>1
  <2> QED BY <2>1, <2>2 DEF Tables
<1> HIDE DEF n, w
<1>5. 0 \in S
  <2>1. 0 * w = 0 /\ n - 0 = n /\ n \in 0 .. n
    BY <1>1
  <2>2. Bit[0 * w] = 1
    BY <2>1, BitSteps
  <2>3. f[n] \in Nat /\ f[n] = 1 * f[n - 0] + 0
    BY <1>2, <2>1
  <2> QED BY <1>1, <2>1, <2>2, <2>3
<1>6. ASSUME NEW k \in Nat, k \in S
      PROVE  k + 1 \in S
  <2> SUFFICES ASSUME k + 1 <= n
               PROVE  /\ (k + 1) * w \in 0 .. FlagCount
                      /\ \E rest \in 0 .. Bit[(k + 1) * w] - 1 :
                            f[n] = Bit[(k + 1) * w] * f[n - (k + 1)] + rest
    OBVIOUS
  <2>1. PICK i, g, h, x, p, q :
           /\ i = n - k /\ g = f[i] /\ h = f[i - 1] /\ x = b[e + i - 1]
           /\ p = Bit[k * w] /\ q = Bit[w]
    OBVIOUS
  <2>2. /\ i \in 1 .. n /\ i - 1 = n - (k + 1) /\ i \in 0 .. n /\ i - 1 \in 0 .. n /\ k <= n
    BY <1>1, <2>1
  <2>3. g = h * q + x /\ x \in 0 .. q - 1 /\ h \in Nat
    BY <1>2, <1>3, <1>4, <2>1, <2>2
  <2>4. PICK rest \in 0 .. p - 1 : f[n] = p * g + rest
    BY <1>6, <2>1, <2>2
  <2>5. k * w \in 0 .. FlagCount /\ k * w \in Nat /\ (k + 1) * w = k * w + w
    BY <1>1, <1>6, <2>2
  <2>6. k * w + w <= FlagCount
    <3>1. w * k + w <= w * n
      BY <1>1, <2>2, MultiplesApart
    <3>2. w * k = k * w /\ w * n = n * w
      BY <1>1
    <3> QED BY <1>1, <3>1, <3>2
  <2>7. p \in Nat \ {0} /\ q \in Nat \ {0}
    BY <2>1, <2>5, BitSteps, ByteSize DEF w
  <2>8. Bit[(k + 1) * w] = p * q
    BY <1>1, <2>1, <2>5, <2>6, BitsMultiply
  <2>9. p * x + rest \in 0 .. p * q - 1
    <3>1. p * x + p <= p * q
      BY <2>3, <2>7, MultiplesApart
    <3>2. p * x \in Nat /\ p * q \in Nat
      BY <2>3, <2>7
    <3> QED BY <2>4, <2>7, <3>1, <3>2
  <2>10. f[n] = (p * q) * h + (p * x + rest)
    <3>1. p * g = p * (h * q) + p * x
      BY <2>3, <2>7
    <3>2. p * (h * q) = (p * q) * h
      BY <2>3, <2>7
    <3>3. p * x \in Nat /\ (p * q) * h \in Nat
      BY <2>3, <2>7
    <3> QED BY <2>4, <3>1, <3>2, <3>3
  <2> QED BY <1>1, <2>1, <2>2, <2>5, <2>6, <2>8, <2>9, <2>10
<1> HIDE DEF S
<1>7. Nat \subseteq S
  BY <1>5, <1>6, SetInduction
<1>8. j \in Nat /\ j <= n
  BY FlagSizes DEF n
<1> QED BY <1>7, <1>8 DEF S, n, w

\* Where an attribute's bit is, in its byte and in the number.
LEMMA AttributePlace ==
  ASSUME NEW a \in 0 .. FlagCount - 1
  PROVE  /\ a \div FlagsPerByte \in 0 .. FlagBytes - 1
         /\ a % FlagsPerByte \in 0 .. FlagsPerByte - 1
         /\ a = FlagsPerByte * (a \div FlagsPerByte) + (a % FlagsPerByte)
<1>1. PICK q, r, w, n :
         q = a \div FlagsPerByte /\ r = a % FlagsPerByte /\ w = FlagsPerByte /\ n = FlagBytes
  OBVIOUS
<1>2. w \in Nat \ {0} /\ n \in Nat \ {0} /\ FlagCount = n * w /\ FlagCount \in Nat
  BY <1>1, FlagSizes
<1>3. q \in Nat /\ r \in 0 .. w - 1 /\ a = w * q + r
  <2>1. a \in Int /\ a >= 0
    BY <1>2
  <2>2. /\ a = w * (a \div w) + (a % w) /\ a % w \in 0 .. w - 1 /\ a \div w \in Nat
    BY <1>2, <2>1, DivisionParts
  <2> QED BY <1>1, <2>2, Zenon
<1>4. q < n
  <2> SUFFICES ASSUME n < q + 1
               PROVE  FALSE
    BY <1>2, <1>3
  <2>1. w * n + w <= w * (q + 1)
    BY <1>2, <1>3, MultiplesApart
  <2>2. w * (q + 1) = w * q + w /\ w * n = n * w /\ w * q \in Nat
    BY <1>2, <1>3
  <2> QED BY <1>2, <1>3, <2>1, <2>2
<1> QED BY <1>1, <1>2, <1>3, <1>4

\* test_attr reads the bit that the numbering from the top means.
LEMMA InWord ==
  ASSUME NEW b \in Tables, NEW o, HasEntry(o), NEW a \in 0 .. FlagCount - 1
  PROVE  InFlagWord(FlagWord(b, o), a) <=> ObjectAttribute(b, o, a)
<1>1. PICK q, r, w, n, e :
         /\ q = a \div FlagsPerByte /\ r = a % FlagsPerByte
         /\ w = FlagsPerByte /\ n = FlagBytes /\ e = EntryBegin(o)
  OBVIOUS
<1>2. /\ w \in Nat \ {0} /\ n \in Nat \ {0} /\ FlagCount = n * w /\ FlagCount \in Nat
      /\ q \in 0 .. n - 1 /\ r \in 0 .. w - 1 /\ a = w * q + r /\ w <= FlagCount
      /\ n < EntrySize /\ EntrySize \in Nat
  BY <1>1, FlagSizes, AttributePlace
<1>3. e \in Nat /\ \A i \in 0 .. EntrySize - 1 : e + i \in Offset
  BY <1>1, EntryPlace
<1>4. PICK f : WordOf(f, b, e) /\ FlagWord(b, o) = f[n]
  BY <1>1, WordComputed
<1>5. PICK j, s : j = n - q - 1 /\ s = w - 1 - r
  OBVIOUS
<1>6. j \in 0 .. n - 1 /\ s \in 0 .. w - 1 /\ n - j = q + 1
  BY <1>2, <1>5
<1>7. FlagCount - 1 - a = j * w + s /\ j * w \in Nat
  <2>1. j * w = n * w - w * q - w
    BY <1>2, <1>5
  <2>2. j * w \in Nat /\ n * w \in Nat /\ w * q \in Nat
    BY <1>2, <1>6
  <2> QED BY <1>2, <1>5, <2>1, <2>2
<1>8. PICK p, m, u : p = Bit[j * w] /\ m = Bit[s] /\ u = Bit[r]
  OBVIOUS
<1>9. PICK g, h, x : g = f[q + 1] /\ h = f[q] /\ x = b[e + q]
  OBVIOUS
<1>10. /\ j * w \in 0 .. FlagCount
       /\ \E rest \in 0 .. p - 1 : f[n] = p * g + rest
  <2>1. j \in 0 .. FlagBytes
    BY <1>1, <1>2, <1>6
  <2>2. /\ j * FlagsPerByte \in 0 .. FlagCount
        /\ \E rest \in 0 .. Bit[j * FlagsPerByte] - 1 :
              f[FlagBytes] = Bit[j * FlagsPerByte] * f[FlagBytes - j] + rest
    BY <1>3, <1>4, <2>1, WordSplit
  <2> QED BY <1>1, <1>6, <1>8, <1>9, <2>2, Zenon
<1>11. p \in Nat \ {0} /\ m \in Nat \ {0} /\ u \in Nat \ {0}
  <2>1. s \in 0 .. FlagCount /\ r \in 0 .. FlagCount
    BY <1>2, <1>6
  <2> QED BY <1>8, <1>10, <2>1, BitSteps
<1>12. g \in Nat /\ h \in Nat /\ f[n] \in Nat
  <2>1. q + 1 \in 0 .. n /\ q \in 0 .. n /\ n \in 0 .. n
    BY <1>2
  <2> QED BY <1>1, <1>4, <1>9, <2>1 DEF WordOf
<1>13. f[n] \div p = g
  BY <1>10, <1>11, <1>12, DivisionOf
<1>14. Bit[FlagCount - 1 - a] = p * m
  <2>1. j * w + s <= FlagCount
    BY <1>2, <1>7
  <2>2. s \in Nat
    BY <1>6
  <2>3. Bit[j * w + s] = p * m
    BY <1>7, <1>8, <2>1, <2>2, BitsMultiply
  <2> QED BY <1>7, <2>3, Zenon
<1>15. f[n] \div (p * m) = g \div m
  <2>1. f[n] \div (p * m) = (f[n] \div p) \div m
    BY <1>11, <1>12, NestedQuotient
  <2> QED BY <1>13, <2>1, Zenon
<1>16. InFlagWord(FlagWord(b, o), a) <=> (g \div m) % 2 = 1
  BY <1>4, <1>14, <1>15, Zenon DEF InFlagWord
<1>17. ObjectAttribute(b, o, a) <=> (x \div m) % 2 = 1
  BY <1>1, <1>5, <1>8, <1>9, Zenon DEF ObjectAttribute, FlagByte, Mask
<1>18. x \in Nat
  <2>1. q \in 0 .. EntrySize - 1
    BY <1>2
  <2>2. e + q \in Offset
    BY <1>3, <2>1
  <2>3. x \in 0 .. Bit[FlagsPerByte] - 1
    BY <1>9, <2>2 DEF Tables
  <2> QED BY <2>3, ByteSize
<1>19. Bit[w] = m * (2 * u)
  <2>1. s \in Nat /\ r + 1 \in Nat /\ s + (r + 1) = w /\ s + (r + 1) <= FlagCount
    BY <1>2, <1>5, <1>6
  <2>2. Bit[s + (r + 1)] = Bit[s] * Bit[r + 1]
    BY <2>1, BitsMultiply
  <2>3. r + 1 \in 1 .. FlagCount /\ (r + 1) - 1 = r
    BY <1>2
  <2>4. Bit[r + 1] = 2 * u
    BY <1>8, <2>3, BitSteps
  <2> QED BY <1>8, <2>1, <2>2, <2>4, Zenon
<1>20. g = h * (m * (2 * u)) + x
  <2>1. q + 1 \in 1 .. n /\ (q + 1) - 1 = q /\ e + (q + 1) - 1 = e + q
    BY <1>2, <1>3
  <2>2. f[q + 1] = f[(q + 1) - 1] * Bit[FlagsPerByte] + b[e + (q + 1) - 1]
    BY <1>1, <1>4, <2>1 DEF WordOf
  <2> QED BY <1>1, <1>9, <1>19, <2>1, <2>2, Zenon
<1>21. PICK y, z : y = x \div m /\ z = x % m
  OBVIOUS
<1>22. y \in Nat /\ z \in 0 .. m - 1 /\ x = m * y + z
  <2>1. x \in Int /\ x >= 0
    BY <1>18
  <2>2. x = m * (x \div m) + (x % m) /\ x % m \in 0 .. m - 1 /\ x \div m \in Nat
    BY <1>11, <2>1, DivisionParts
  <2> QED BY <1>21, <2>2, Zenon
<1>23. PICK k : k = h * u
  OBVIOUS
<1>24. k \in Nat /\ g = m * (y + 2 * k) + z
  <2>1. k \in Nat
    BY <1>11, <1>12, <1>23
  <2>2. h * (m * (2 * u)) = m * (2 * k)
    BY <1>11, <1>12, <1>23
  <2>3. m * (y + 2 * k) = m * y + m * (2 * k)
    BY <1>11, <1>22, <2>1
  <2>4. m * y \in Nat /\ m * (2 * k) \in Nat
    BY <1>11, <1>22, <2>1
  <2> QED BY <1>20, <1>22, <2>1, <2>2, <2>3, <2>4
<1>25. g \div m = y + 2 * k
  <2>1. PICK c : c = y + 2 * k
    OBVIOUS
  <2>2. c \in Int /\ g \in Int /\ g = m * c + z
    BY <1>12, <1>22, <1>24, <2>1
  <2>3. g \div m = c
    BY <1>11, <1>22, <2>2, DivisionOf
  <2> QED BY <2>1, <2>3, Zenon
<1>26. (y + 2 * k) % 2 = y % 2
  BY <1>22, <1>24, Parity
<1> QED BY <1>16, <1>17, <1>21, <1>25, <1>26, Zenon

-----------------------------------------------------------------------------
(* One bit of one byte is written.                                         *)

LEMMA BitWritten ==
  ASSUME NEW s \in 0 .. FlagsPerByte - 1, NEW x \in 0 .. Bit[FlagsPerByte] - 1, NEW y,
         \/ (x \div Bit[s]) % 2 = 0 /\ y = x + Bit[s]
         \/ (x \div Bit[s]) % 2 = 1 /\ y = x - Bit[s]
  PROVE  /\ y \in 0 .. Bit[FlagsPerByte] - 1
         /\ (y \div Bit[s]) % 2 = 1 <=> (x \div Bit[s]) % 2 # 1
         /\ \A t \in (0 .. FlagsPerByte - 1) \ {s} : (y \div Bit[t]) % 2 = (x \div Bit[t]) % 2
<1>1. x \in Nat /\ x < Bit[FlagsPerByte] /\ Bit[FlagsPerByte] \in Nat
  BY ByteSize
<1>2. CASE (x \div Bit[s]) % 2 = 0 /\ y = x + Bit[s]
  <2>1. /\ y \in Nat /\ (y \div Bit[s]) % 2 = 1
        /\ \A t \in (0 .. FlagsPerByte - 1) \ {s} : (y \div Bit[t]) % 2 = (x \div Bit[t]) % 2
        /\ x < Bit[FlagsPerByte] => y < Bit[FlagsPerByte]
    BY <1>1, <1>2, BitRaised
  <2>2. y \in 0 .. Bit[FlagsPerByte] - 1
    BY <1>1, <2>1
  <2>3. (x \div Bit[s]) % 2 # 1
    BY <1>2
  <2> QED BY <2>1, <2>2, <2>3
<1>3. CASE (x \div Bit[s]) % 2 = 1 /\ y = x - Bit[s]
  <2>1. PICK m : m = Bit[s]
    OBVIOUS
  <2>2. m \in Nat \ {0}
    <3>1. s \in 0 .. FlagCount
      BY FlagSizes
    <3> QED BY <2>1, <3>1, BitSteps
  <2>3. PICK p, d : p = x \div m /\ d = x % m
    OBVIOUS
  <2>4. p \in Nat /\ d \in 0 .. m - 1 /\ x = m * p + d
    <3>1. x \in Int /\ x >= 0
      BY <1>1
    <3>2. x = m * (x \div m) + (x % m) /\ x % m \in 0 .. m - 1 /\ x \div m \in Nat
      BY <2>2, <3>1, DivisionParts
    <3> QED BY <2>3, <3>2, Zenon
  <2>5. PICK c \in Nat : p = 2 * c + 1
    <3>1. p % 2 = 1
      BY <1>3, <2>1, <2>3
    <3>2. p = 2 * (p \div 2) + 1 /\ p \div 2 \in Nat
      BY <2>4, <3>1
    <3> QED BY <3>2
  <2>6. PICK k : k = 2 * c
    OBVIOUS
  <2>7. y = m * k + d /\ k \in Nat /\ m * k \in Nat
    <3>1. k \in Nat /\ p = k + 1
      BY <2>5, <2>6
    <3>2. m * p = m * k + m /\ m * k \in Nat
      BY <2>2, <3>1
    <3> QED BY <1>3, <2>1, <2>2, <2>4, <3>1, <3>2
  <2>8. y \in Nat /\ y <= x
    BY <1>1, <1>3, <2>1, <2>2, <2>4, <2>7
  <2>9. y \div m = k
    <3>1. y \in Int /\ k \in Int /\ y = m * k + d
      BY <2>7, <2>8
    <3> QED BY <2>2, <2>4, <3>1, DivisionOf
  <2>10. (y \div Bit[s]) % 2 = 0
    <3>1. (2 * c) % 2 = 0
      BY <2>5, Parity
    <3> QED BY <2>1, <2>6, <2>9, <3>1, Zenon
  <2>11. x = y + Bit[s]
    BY <1>1, <1>3, <2>1, <2>2
  <2>12. \A t \in (0 .. FlagsPerByte - 1) \ {s} : (x \div Bit[t]) % 2 = (y \div Bit[t]) % 2
    BY <2>8, <2>10, <2>11, BitRaised
  <2>13. y \in 0 .. Bit[FlagsPerByte] - 1
    BY <1>1, <2>8
  <2> QED BY <1>3, <2>10, <2>12, <2>13
<1> QED BY <1>2, <1>3

\* set_attr and clear_attr write at most the byte of the attribute, and of its
\* bits at most the attribute's.
LEMMA FlagWritten ==
  ASSUME entries \in Tables, NEW o, HasEntry(o), NEW a \in 0 .. FlagCount - 1,
         NEW on \in BOOLEAN, NEW c, c = SetObjectAttribute(o, a, on)
  PROVE  /\ c \in Tables
         /\ \A i \in Offset : i # FlagByte(o, a) => c[i] = entries[i]
         /\ ObjectAttribute(c, o, a) <=> on
         /\ \A d \in 0 .. FlagCount - 1 :
               d # a /\ d \div FlagsPerByte = a \div FlagsPerByte =>
                  (ObjectAttribute(c, o, d) <=> ObjectAttribute(entries, o, d))
<1>1. CASE ObjectAttribute(entries, o, a) = on
  <2>1. c = entries
    BY <1>1 DEF SetObjectAttribute
  <2> QED BY <1>1, <2>1
<1>2. CASE ObjectAttribute(entries, o, a) # on
  <2>0. ObjectAttribute(entries, o, a) <=> ~on
    BY <1>2 DEF ObjectAttribute
  <2>1. PICK i, s, x, y :
          /\ i = FlagByte(o, a) /\ s = FlagsPerByte - 1 - (a % FlagsPerByte)
          /\ x = entries[i] /\ y = IF on THEN x + Bit[s] ELSE x - Bit[s]
    OBVIOUS
  <2>2. i \in Offset /\ s \in 0 .. FlagsPerByte - 1
    <3>1. PICK q : q = a \div FlagsPerByte
      OBVIOUS
    <3>2. q \in 0 .. FlagBytes - 1 /\ a % FlagsPerByte \in 0 .. FlagsPerByte - 1
      BY <3>1, AttributePlace
    <3>3. q \in 0 .. EntrySize - 1
      BY <3>2, FlagSizes
    <3>4. EntryBegin(o) + q \in Offset
      BY <3>3, EntryPlace
    <3>5. s \in 0 .. FlagsPerByte - 1
      BY <2>1, <3>2, FlagSizes
    <3> QED BY <2>1, <3>1, <3>4, <3>5 DEF FlagByte
  <2>3. c = [entries EXCEPT ![i] = y]
    BY <1>2, <2>1 DEF SetObjectAttribute, Mask
  <2>4. x \in 0 .. Bit[FlagsPerByte] - 1
    BY <2>1, <2>2 DEF Tables
  <2>5. ObjectAttribute(entries, o, a) <=> (x \div Bit[s]) % 2 = 1
    BY <2>1, Zenon DEF ObjectAttribute, Mask
  <2>6. x \div Bit[s] \in Nat
    <3>1. s \in 0 .. FlagCount /\ x \in Nat
      BY <2>2, <2>4, FlagSizes, ByteSize
    <3>2. Bit[s] \in Nat \ {0}
      BY <3>1, BitSteps
    <3>3. x \in Int /\ x >= 0
      BY <3>1
    <3> QED BY <3>2, <3>3, DivisionParts
  <2>7. \/ (x \div Bit[s]) % 2 = 0 /\ y = x + Bit[s]
        \/ (x \div Bit[s]) % 2 = 1 /\ y = x - Bit[s]
    <3>1. (x \div Bit[s]) % 2 \in {0, 1}
      BY <2>6, Parity
    <3>2. CASE on
      <4>1. (x \div Bit[s]) % 2 # 1
        BY <2>0, <2>5, <3>2
      <4> QED BY <2>1, <3>1, <3>2, <4>1
    <3>3. CASE ~on
      <4>1. (x \div Bit[s]) % 2 = 1
        BY <2>0, <2>5, <3>3
      <4> QED BY <2>1, <3>3, <4>1
    <3> QED BY <3>2, <3>3
  <2>8. /\ y \in 0 .. Bit[FlagsPerByte] - 1
        /\ (y \div Bit[s]) % 2 = 1 <=> (x \div Bit[s]) % 2 # 1
        /\ \A t \in (0 .. FlagsPerByte - 1) \ {s} : (y \div Bit[t]) % 2 = (x \div Bit[t]) % 2
    BY <2>2, <2>4, <2>7, BitWritten
  <2>9. c \in Tables /\ c[i] = y /\ \A l \in Offset : l # i => c[l] = entries[l]
    BY <2>2, <2>3, <2>8 DEF Tables
  <2>10. ObjectAttribute(c, o, a) <=> (y \div Bit[s]) % 2 = 1
    BY <2>1, <2>9, Zenon DEF ObjectAttribute, Mask
  <2>11. ObjectAttribute(c, o, a) <=> on
    BY <2>0, <2>5, <2>8, <2>10
  <2>12. ASSUME NEW d \in 0 .. FlagCount - 1, d # a,
                d \div FlagsPerByte = a \div FlagsPerByte
         PROVE  ObjectAttribute(c, o, d) <=> ObjectAttribute(entries, o, d)
    <3>1. PICK t : t = FlagsPerByte - 1 - (d % FlagsPerByte)
      OBVIOUS
    <3>2. FlagByte(o, d) = i
      BY <2>1, <2>12 DEF FlagByte
    <3>3. d % FlagsPerByte # a % FlagsPerByte
      <4>1. /\ d = FlagsPerByte * (d \div FlagsPerByte) + (d % FlagsPerByte)
            /\ a = FlagsPerByte * (a \div FlagsPerByte) + (a % FlagsPerByte)
        BY AttributePlace
      <4> QED BY <2>12, <4>1, Zenon
    <3>4. t \in (0 .. FlagsPerByte - 1) \ {s}
      BY <2>1, <3>1, <3>3, AttributePlace, FlagSizes
    <3>5. (y \div Bit[t]) % 2 = (x \div Bit[t]) % 2
      BY <2>8, <3>4
    <3>6. ObjectAttribute(c, o, d) <=> (y \div Bit[t]) % 2 = 1
      BY <2>9, <3>1, <3>2, Zenon DEF ObjectAttribute, Mask
    <3>7. ObjectAttribute(entries, o, d) <=> (x \div Bit[t]) % 2 = 1
      BY <2>1, <3>1, <3>2, Zenon DEF ObjectAttribute, Mask
    <3> QED BY <3>5, <3>6, <3>7
  <2> QED BY <2>1, <2>9, <2>11, <2>12
<1> QED BY <1>1, <1>2

\* A flag byte belongs to one entry of the whole entries, and no two bytes of
\* flags fall together.
LEMMA FlagBytesApart ==
  ASSUME NEW o, HasEntry(o), NEW a \in 0 .. FlagCount - 1
  PROVE  /\ FlagByte(o, a) \in Offset /\ FlagByte(o, a) % EntrySize < FlagBytes
         /\ FlagByte(o, a) < TableSize - (TableSize % EntrySize)
         /\ \A p, d : /\ HasEntry(p) /\ d \in 0 .. FlagCount - 1
                      /\ FlagByte(p, d) = FlagByte(o, a)
                      => p = o /\ d \div FlagsPerByte = a \div FlagsPerByte
<1> DEFINE E == EntrySize
<1>1. E \in Nat \ {0} /\ FlagBytes \in Nat /\ FlagBytes < E /\ TableSize \in Nat
  BY FlagSizes
<1>2. \A p, d : HasEntry(p) /\ d \in 0 .. FlagCount - 1 =>
        /\ p - 1 \in Int /\ p \in Nat /\ d \div FlagsPerByte \in 0 .. FlagBytes - 1
        /\ FlagByte(p, d) = E * (p - 1) + d \div FlagsPerByte
  <2> SUFFICES ASSUME NEW p, NEW d, HasEntry(p), d \in 0 .. FlagCount - 1
               PROVE  /\ p - 1 \in Int /\ p \in Nat /\ d \div FlagsPerByte \in 0 .. FlagBytes - 1
                      /\ FlagByte(p, d) = E * (p - 1) + d \div FlagsPerByte
    OBVIOUS
  <2>1. p \in Nat \ {0} /\ d \div FlagsPerByte \in 0 .. FlagBytes - 1
    BY EntryPlace, AttributePlace
  <2>2. (p - 1) * E = E * (p - 1) /\ p - 1 \in Int
    BY <1>1, <2>1
  <2> QED BY <2>1, <2>2 DEF FlagByte, EntryBegin
<1>3. PICK i, q : i = FlagByte(o, a) /\ q = a \div FlagsPerByte
  OBVIOUS
<1>4. /\ o \in Nat /\ o - 1 \in Int /\ q \in 0 .. FlagBytes - 1 /\ q \in 0 .. E - 1
      /\ i = E * (o - 1) + q
  BY <1>1, <1>2, <1>3
<1>5. i \in Offset
  <2>1. EntryBegin(o) + q \in Offset
    BY <1>4, EntryPlace
  <2> QED BY <1>3, <2>1 DEF FlagByte
<1>6. i % E = q
  <2>1. i \in Int
    BY <1>1, <1>5 DEF Offset
  <2> QED BY <1>1, <1>4, <2>1, DivisionOf
<1>7. i < TableSize - (TableSize % E)
  <2>1. PICK t, r : t = TableSize \div E /\ r = TableSize % E
    OBVIOUS
  <2>2. t \in Nat /\ r \in 0 .. E - 1 /\ TableSize = E * t + r
    <3>1. TableSize \in Int /\ TableSize >= 0
      BY <1>1
    <3>2. /\ TableSize = E * (TableSize \div E) + (TableSize % E)
          /\ TableSize % E \in 0 .. E - 1 /\ TableSize \div E \in Nat
      BY <1>1, <3>1, DivisionParts
    <3> QED BY <2>1, <3>2, Zenon
  <2>3. E * (o - 1) + E <= TableSize
    <3>1. EntryBegin(o) + E <= TableSize
      BY DEF HasEntry
    <3>2. (o - 1) * E = E * (o - 1)
      BY <1>1, <1>4
    <3> QED BY <3>1, <3>2 DEF EntryBegin
  <2>4. o - 1 < t
    <3> SUFFICES ASSUME t < o
                 PROVE  FALSE
      BY <1>4, <2>2
    <3>1. E * t + E <= E * o
      BY <1>1, <1>4, <2>2, MultiplesApart
    <3>2. E * (o - 1) + E = E * o /\ E * o \in Nat /\ E * t \in Nat
      BY <1>1, <1>4, <2>2
    <3> QED BY <1>1, <2>2, <2>3, <3>1, <3>2
  <2>5. E * (o - 1) + E <= E * t
    BY <1>1, <1>4, <2>2, <2>4, MultiplesApart
  <2>6. E * (o - 1) \in Int /\ E * t \in Int
    BY <1>1, <1>4, <2>2
  <2> QED BY <1>1, <1>4, <2>1, <2>2, <2>5, <2>6
<1>8. ASSUME NEW p, NEW d, HasEntry(p), d \in 0 .. FlagCount - 1, FlagByte(p, d) = i
      PROVE  p = o /\ d \div FlagsPerByte = q
  <2>1. PICK k, l : k = p - 1 /\ l = d \div FlagsPerByte
    OBVIOUS
  <2>2. p \in Nat /\ k \in Int /\ l \in 0 .. E - 1 /\ E * k + l = i
    BY <1>1, <1>2, <1>8, <2>1
  <2>3. PICK h : h = o - 1
    OBVIOUS
  <2>4. h \in Int /\ E * k + l = E * h + q
    BY <1>4, <2>2, <2>3
  <2>5. k = h /\ l = q
    BY <1>1, <1>4, <2>2, <2>4, DivisionUnique
  <2> QED BY <1>4, <2>1, <2>2, <2>3, <2>5
<1>9. \A p, d : /\ HasEntry(p) /\ d \in 0 .. FlagCount - 1
                /\ FlagByte(p, d) = FlagByte(o, a)
                => p = o /\ d \div FlagsPerByte = a \div FlagsPerByte
  <2> SUFFICES ASSUME NEW p, NEW d, HasEntry(p), d \in 0 .. FlagCount - 1,
                      FlagByte(p, d) = FlagByte(o, a)
               PROVE  p = o /\ d \div FlagsPerByte = a \div FlagsPerByte
    OBVIOUS
  <2>1. FlagByte(p, d) = i
    BY <1>3
  <2>2. p = o /\ d \div FlagsPerByte = q
    BY <1>8, <2>1
  <2> QED BY <1>3, <2>2
<1>10. q < FlagBytes
  BY <1>1, <1>4
<1> QED BY <1>3, <1>5, <1>6, <1>7, <1>9, <1>10

LEMMA FlagsKept ==
  ASSUME FlagsTypeOK, [FlagsNext]_flagVars
  PROVE  FlagsTypeOK'
<1>1. ASSUME NEW o \in 0 .. MaxObject + 1, NEW a \in 0 .. FlagCount, NEW on \in BOOLEAN,
             ChangeAttr(o, a, on)
      PROVE  FlagsTypeOK'
  <2>1. flagged'.object = o /\ flagged'.flag = a
    BY <1>1 DEF ChangeAttr
  <2>2. entries \in Tables
    BY DEF FlagsTypeOK, Tables
  <2>3. entries' \in Tables
    <3>1. CASE o # 0 /\ CanFlag(o, a)
      <4>1. HasEntry(o) /\ a \in 0 .. FlagCount - 1
        BY <3>1, FlagSizes DEF CanFlag
      <4>2. entries' = SetObjectAttribute(o, a, on)
        BY <1>1, <3>1 DEF ChangeAttr
      <4> QED BY <2>2, <4>1, <4>2, FlagWritten
    <3>2. CASE ~(o # 0 /\ CanFlag(o, a))
      <4>1. entries' = entries
        BY <1>1, <3>2, Zenon DEF ChangeAttr
      <4> QED BY <2>2, <4>1
    <3> QED BY <3>1, <3>2
  <2> QED BY <1>1, <2>1, <2>3 DEF FlagsTypeOK, Tables
<1>2. CASE UNCHANGED flagVars
  BY <1>2 DEF FlagsTypeOK, flagVars
<1> QED BY <1>1, <1>2 DEF FlagsNext

LEMMA FlagsTyped == FlagsSpec => []FlagsTypeOK
<1>1. FlagsInit => FlagsTypeOK
  BY FlagSizes DEF FlagsInit, FlagsTypeOK
<1>2. FlagsTypeOK /\ [FlagsNext]_flagVars => FlagsTypeOK'
  BY FlagsKept
<1> QED BY <1>1, <1>2, PTL DEF FlagsSpec

\* set_attr and clear_attr change the one bit they are about, whichever object
\* and attribute, and however long the entries and the table are.
THEOREM OneFlagAlwaysChanges == FlagsSpec => OneFlagChanges
<1> DEFINE Rightly ==
             \A o \in {p \in 1 .. MaxObject : HasEntry(p)} :
                LET before == FlagWord(entries, o)
                    after == FlagWord(entries', o)
                IN  \A a \in 0 .. FlagCount - 1 :
                       LET wanted == IF o = flagged'.object /\ a = flagged'.flag
                                     THEN flagged'.on
                                     ELSE InFlagWord(before, a)
                       IN  InFlagWord(after, a) = wanted /\ ObjectAttribute(entries', o, a) = wanted
           Others ==
             \A p \in Offset :
                p % EntrySize >= FlagBytes \/ p >= TableSize - (TableSize % EntrySize)
                   => entries'[p] = entries[p]
           P == IF flagged'.object = 0
                THEN entries' = entries
                ELSE /\ Rightly
                     /\ Others
<1>1. ASSUME FlagsTypeOK, FlagsTypeOK', FlagsNext
      PROVE  P
  <2>1. PICK o \in 0 .. MaxObject + 1, a \in 0 .. FlagCount, on \in BOOLEAN :
           ChangeAttr(o, a, on)
    BY <1>1 DEF FlagsNext
  <2>2. flagged'.object = o /\ flagged'.flag = a /\ flagged'.on = on
    BY <2>1 DEF ChangeAttr
  <2>3. entries \in Tables /\ entries' \in Tables
    BY <1>1 DEF FlagsTypeOK, Tables
  <2>4. PICK c : c = entries'
    OBVIOUS
  <2>5. CanFlag(o, a) /\ o # 0 =>
           /\ HasEntry(o) /\ a \in 0 .. FlagCount - 1
           /\ c = SetObjectAttribute(o, a, on)
    BY <2>1, <2>4, FlagSizes DEF ChangeAttr, CanFlag
  <2>6. ~(CanFlag(o, a) /\ o # 0) => c = entries
    BY <2>1, <2>4, Zenon DEF ChangeAttr
  <2>7. ASSUME NEW p, HasEntry(p), NEW d \in 0 .. FlagCount - 1
        PROVE  ObjectAttribute(c, p, d) <=>
                  IF p = o /\ d = a THEN on ELSE ObjectAttribute(entries, p, d)
    <3>1. CASE CanFlag(o, a) /\ o # 0
      <4>1. /\ \A i \in Offset : i # FlagByte(o, a) => c[i] = entries[i]
            /\ ObjectAttribute(c, o, a) <=> on
            /\ \A e \in 0 .. FlagCount - 1 :
                  e # a /\ e \div FlagsPerByte = a \div FlagsPerByte =>
                     (ObjectAttribute(c, o, e) <=> ObjectAttribute(entries, o, e))
        BY <2>3, <2>5, <3>1, FlagWritten
      <4>2. CASE p = o /\ d \div FlagsPerByte = a \div FlagsPerByte
        BY <4>1, <4>2
      <4>3. CASE ~(p = o /\ d \div FlagsPerByte = a \div FlagsPerByte)
        <5>1. FlagByte(p, d) # FlagByte(o, a) /\ FlagByte(p, d) \in Offset
          BY <2>5, <2>7, <3>1, <4>3, FlagBytesApart
        <5>2. c[FlagByte(p, d)] = entries[FlagByte(p, d)]
          BY <4>1, <5>1
        <5>3. ObjectAttribute(c, p, d) <=> ObjectAttribute(entries, p, d)
          BY <5>2, Zenon DEF ObjectAttribute
        <5> QED BY <4>3, <5>3
      <4> QED BY <4>2, <4>3
    <3>2. CASE ~(CanFlag(o, a) /\ o # 0)
      <4>1. ~(p = o /\ d = a)
        <5> SUFFICES ASSUME p = o, d = a
                     PROVE  FALSE
          OBVIOUS
        <5>1. CanFlag(o, a) /\ o # 0
          BY <2>7, EntryPlace, FlagSizes DEF CanFlag
        <5> QED BY <3>2, <5>1
      <4> QED BY <2>6, <3>2, <4>1
    <3> QED BY <3>1, <3>2
  <2>8. Rightly
    <3> SUFFICES ASSUME NEW p \in 1 .. MaxObject, HasEntry(p), NEW d \in 0 .. FlagCount - 1
                 PROVE  LET wanted == IF p = o /\ d = a
                                      THEN on
                                      ELSE InFlagWord(FlagWord(entries, p), d)
                        IN  /\ InFlagWord(FlagWord(entries', p), d) = wanted
                            /\ ObjectAttribute(entries', p, d) = wanted
      BY <2>2, Zenon
    <3>1. InFlagWord(FlagWord(entries, p), d) <=> ObjectAttribute(entries, p, d)
      BY <2>3, InWord
    <3>2. InFlagWord(FlagWord(c, p), d) <=> ObjectAttribute(c, p, d)
      BY <2>3, <2>4, InWord
    <3>3. /\ InFlagWord(FlagWord(c, p), d) \in BOOLEAN /\ ObjectAttribute(c, p, d) \in BOOLEAN
          /\ InFlagWord(FlagWord(entries, p), d) \in BOOLEAN
      BY DEF InFlagWord, ObjectAttribute
    <3> QED BY <2>4, <2>7, <3>1, <3>2, <3>3, Zenon
  <2>9. Others
    <3> SUFFICES ASSUME NEW p \in Offset,
                        \/ p % EntrySize >= FlagBytes
                        \/ p >= TableSize - (TableSize % EntrySize)
                 PROVE  c[p] = entries[p]
      BY <2>4, Zenon
    <3>1. CASE CanFlag(o, a) /\ o # 0
      <4>1. \A i \in Offset : i # FlagByte(o, a) => c[i] = entries[i]
        BY <2>3, <2>5, <3>1, FlagWritten
      <4>2. /\ FlagByte(o, a) \in Offset /\ FlagByte(o, a) % EntrySize < FlagBytes
            /\ FlagByte(o, a) < TableSize - (TableSize % EntrySize)
        BY <2>5, <3>1, FlagBytesApart
      <4>3. p # FlagByte(o, a)
        <5> SUFFICES ASSUME p = FlagByte(o, a)
                     PROVE  FALSE
          OBVIOUS
        <5>1. PICK r, t : r = p % EntrySize /\ t = TableSize % EntrySize
          OBVIOUS
        <5>2. r \in Int /\ t \in Int /\ p \in Int /\ FlagBytes \in Int /\ TableSize \in Int
          BY <5>1, FlagSizes DEF Offset
        <5>3. r < FlagBytes /\ p < TableSize - t /\ (r >= FlagBytes \/ p >= TableSize - t)
          BY <4>2, <5>1, Zenon
        <5> QED BY <5>2, <5>3
      <4> QED BY <4>1, <4>3
    <3>2. CASE ~(CanFlag(o, a) /\ o # 0)
      BY <2>6, <3>2
    <3> QED BY <3>1, <3>2
  <2>10. flagged'.object = 0 => entries' = entries
    BY <2>2, <2>4, <2>6
  <2> HIDE DEF Rightly, Others
  <2> QED BY <2>8, <2>9, <2>10
<1>2. FlagsTypeOK /\ FlagsTypeOK' /\ [FlagsNext]_flagVars => [P]_flagVars
  BY <1>1
<1> QED BY <1>2, FlagsTyped, PTL DEF FlagsSpec, OneFlagChanges


-----------------------------------------------------------------------------
(* All of the parts.                                                       *)

InputsTyped ==
    /\ pair \in Words \X Words
    /\ zchars \in Seq(ZChar) /\ typed \in Seq(TypedCodes)

PartsInv ==
    /\ InputsTyped
    /\ DecoderInv
    /\ Twins /\ BothSound
    /\ Apart /\ SharedTypeOK
    /\ FlagsTypeOK
    /\ PropertyTypeOK

LEMMA InitInputs ==
  ASSUME PartsInit
  PROVE  InputsTyped
<1>1. pair = <<0, 0>> /\ zchars = <<>> /\ typed = <<>>
  BY DEF PartsInit
<1>2. 0 \in Words
  BY WordAssumption DEF Words
<1> QED BY <1>1, <1>2, EmptySeq DEF InputsTyped

LEMMA InitGenerators ==
  ASSUME NoGenerators
  PROVE  Twins /\ BothSound
<1>1. PICK g : g = Generator("pcg", NoSeed, StateLimit)
  OBVIOUS
<1>2. 0 \in 0 .. CounterLimit - 1 /\ 0 \in DOMAIN PcgNumbers
  BY Limits, RandomAssumption
<1>3. g \in GeneratorState /\ g.limit = StateLimit /\ g.interval = 0 /\ g.a = 1 /\ g.from = 0 /\ g.seed = NoSeed
  BY <1>1, <1>2 DEF Generator, GeneratorState, GeneratorKind
<1>4. Sound(g) /\ InCycle(g)
  BY <1>2, <1>3, Remains DEF Sound, InCycle
<1>5. twins = <<g, g>> /\ together = FALSE
  BY <1>1 DEF NoGenerators
<1>6. twins \in [{1, 2} -> GeneratorState] /\ twins[1] = g /\ twins[2] = g
  BY <1>3, <1>5, Pair
<1> QED BY <1>3, <1>4, <1>5, <1>6 DEF Twins, BothSound

LEMMA InitArrays ==
  ASSUME SharedInit \/ NoArrays
  PROVE  Apart /\ SharedTypeOK
<1>1. SharedInit
  <2>1. 0 \in Values
    BY PartsAssumption
  <2> QED BY <2>1 DEF SharedInit, NoArrays, Positions
<1>2. InUse \subseteq {1, None}
  BY <1>1 DEF SharedInit, InUse
<1>3. DOMAIN arrays = {1} /\ arrays[1] \in [Positions -> Values]
  BY <1>1 DEF SharedInit
<1> QED BY <1>1, <1>2, <1>3, InitApart DEF SharedTypeOK

LEMMA InitFlags ==
  ASSUME FlagsInit \/ NoFlags
  PROVE  FlagsTypeOK
<1>1. 0 \in 0 .. Bit[FlagsPerByte] - 1
  BY ByteSize
<1>2. entries \in [Offset -> 0 .. Bit[FlagsPerByte] - 1]
  BY <1>1 DEF FlagsInit, NoFlags
<1>3. flagged.object = 0 /\ flagged.flag = 0
  BY DEF FlagsInit, NoFlags
<1>4. FlagCount \in Nat /\ MaxObject \in Nat
  BY FlagsAssumption DEF FlagCount
<1> QED BY <1>2, <1>3, <1>4 DEF FlagsTypeOK

LEMMA InitProperties ==
  ASSUME PropertyInit \/ NoBytes
  PROVE  PropertyTypeOK
<1>1. CASE PropertyInit
  BY <1>1, PropertyAssumption DEF PropertyInit, PropertyTypeOK
<1>2. CASE NoBytes
  <2>1. MaxProperty + 1 \in Byte
    <3>1. MaxProperty + 1 \in Nat /\ (MaxProperty + 1) * MaxLength >= (MaxProperty + 1) * 2
      BY PropertyAssumption
    <3> QED BY <3>1, PropertyAssumption DEF Byte, ByteLimit
  <2> QED BY <1>2, <2>1, PropertyAssumption DEF NoBytes, PropertyTypeOK
<1> QED BY <1>1, <1>2

LEMMA InitParts ==
  ASSUME PartsInit
  PROVE  PartsInv
<1>1. DecoderInv
  BY DecoderStarts DEF PartsInit
<1>2. Twins /\ BothSound
  BY InitTwins, InitSound, InitGenerators DEF PartsInit
<1>3. Apart /\ SharedTypeOK
  BY InitArrays DEF PartsInit
<1>4. FlagsTypeOK
  BY InitFlags DEF PartsInit
<1>5. PropertyTypeOK
  BY InitProperties DEF PartsInit
<1> QED BY <1>1, <1>2, <1>3, <1>4, <1>5, InitInputs DEF PartsInv

LEMMA InputsKept ==
  ASSUME InputsTyped, [PartsNext]_partsVars
  PROVE  InputsTyped'
<1>1. CASE Pairs
  <2>1. pair' \in (0 .. WordLimit - 1) \X (0 .. WordLimit - 1) /\ UNCHANGED Text
    BY <1>1 DEF Pairs
  <2> QED BY <2>1 DEF InputsTyped, Text, Words
<1>2. CASE TextGrows
  <2>1. zchars' = <<>> \/ \E z \in ZChar : zchars' = Append(zchars, z)
    BY <1>2 DEF TextGrows
  <2>2. zchars' \in Seq(ZChar)
    <3>1. zchars \in Seq(ZChar) /\ <<>> \in Seq(ZChar)
      BY EmptySeq DEF InputsTyped
    <3>2. \A x \in ZChar : Append(zchars, x) \in Seq(ZChar)
      BY <3>1, AppendProperties
    <3> QED BY <2>1, <3>1, <3>2
  <2> QED BY <1>2, <2>2 DEF TextGrows, InputsTyped
<1>3. CASE WordGrows
  <2>1. typed' = <<>> \/ \E c \in TypedCodes : typed' = Append(typed, c)
    BY <1>3 DEF WordGrows
  <2>2. typed' \in Seq(TypedCodes)
    <3>1. typed \in Seq(TypedCodes) /\ <<>> \in Seq(TypedCodes)
      BY EmptySeq DEF InputsTyped
    <3>2. \A x \in TypedCodes : Append(typed, x) \in Seq(TypedCodes)
      BY <3>1, AppendProperties
    <3> QED BY <2>1, <3>1, <3>2
  <2> QED BY <1>3, <2>2 DEF WordGrows, InputsTyped
<1>4. CASE UNCHANGED <<pair, Text>>
  BY <1>4 DEF InputsTyped, Text
<1>5. \/ Pairs \/ TextGrows \/ WordGrows \/ UNCHANGED <<pair, Text>>
  BY DEF PartsNext, Decodes, Draws, Shares, Flags, Properties, partsVars
<1> QED BY <1>1, <1>2, <1>3, <1>4, <1>5

\* A step is a step of one component, and none of the others.
LEMMA OneComponentSteps ==
  ASSUME [PartsNext]_partsVars
  PROVE  /\ DecoderNext \/ UNCHANGED decoderVars
         /\ [RandomNext]_randomVars /\ [SharedNext]_sharedVars
         /\ [FlagsNext]_flagVars /\ [PropertyNext]_propertyVars
BY DEF PartsNext, partsVars, Pairs, TextGrows, WordGrows, Decodes, Draws, Shares, Flags, Properties

LEMMA PartsKept ==
  ASSUME PartsInv, [PartsNext]_partsVars
  PROVE  PartsInv'
<1>1. DecoderInv'
  <2>1. CASE DecoderNext
    BY <2>1, DecoderKept DEF PartsInv
  <2>2. CASE UNCHANGED decoderVars
    BY <2>2 DEF PartsInv, DecoderInv, decoderVars
  <2> QED BY <2>1, <2>2, OneComponentSteps
<1>2. Twins' /\ BothSound'
  BY OneComponentSteps, TwinsKept, SoundKept DEF PartsInv
<1>3. Apart' /\ SharedTypeOK'
  BY OneComponentSteps, ReferencesApart, ArraysKept DEF PartsInv
<1>4. FlagsTypeOK'
  BY OneComponentSteps, FlagsKept DEF PartsInv
<1>5. PropertyTypeOK'
  BY OneComponentSteps, ListKept DEF PartsInv
<1>6. InputsTyped'
  BY InputsKept DEF PartsInv
<1> QED BY <1>1, <1>2, <1>3, <1>4, <1>5, <1>6 DEF PartsInv

LEMMA AlwaysParts == PartsSpec => []PartsInv
<1>1. PartsInit => PartsInv
  BY InitParts
<1>2. PartsInv /\ [PartsNext]_partsVars => PartsInv'
  BY PartsKept
<1> QED BY <1>1, <1>2, PTL DEF PartsSpec

\* What every component keeps has its type, whatever is done to it: above all, a
\* Frotz generator never leaves the width of its state, PCG always has a place
\* to draw from (New, SeedWith, UnmarshalState of internal/prng), and no array
\* that a machine, the story or the host refers to is lost (story.go, memory.go).
THEOREM PartsAlwaysTyped == PartsSpec => []PartsTypeOK
<1>1. PartsInv => PartsTypeOK
  BY DecoderMeans, TwinsTyped DEF PartsInv, PartsTypeOK
<1> QED BY <1>1, AlwaysParts, PTL

\* Every instruction that decode takes apart, of the bytes that it may meet, is
\* one that an assembler writes as those bytes and no others, and a branch has
\* the offset that its form has room for (decode.go).
THEOREM DecodedAlwaysEncodesBack == PartsSpec => []EncodesBack
<1>1. PartsInv => EncodesBack
  BY DecoderMeans DEF PartsInv
<1> QED BY <1>1, AlwaysParts, PTL

\* div and mod of whatever words belong together (executeDiv and executeMod,
\* opcode_2op.go).
THEOREM QuotientAlwaysLeaves == PartsSpec => []QuotientAndRemainder
<1>1. PartsInv => QuotientAndRemainder
  <2> SUFFICES ASSUME PartsInv PROVE QuotientAndRemainder
    OBVIOUS
  <2>1. pair[1] \in Words /\ pair[2] \in Words
    BY DEF PartsInv, InputsTyped
  <2> QED BY <2>1, DivisionAlwaysLeaves DEF QuotientAndRemainder
<1> QED BY <1>1, AlwaysParts, PTL

\* Every text is printed as the grammar of S 3 says, and refused where it says
\* nothing (text.go); and what a compiler lays down in memory, as a text by
\* itself, as the name of an object (object.go) or as an abbreviation, is read to
\* its end and no further, wherever there is room for it.
THEOREM TextsAlwaysAsSpecified == PartsSpec => []TextsAsSpecified
<1>1. ASSUME PartsInv, Len(zchars) <= MaxLaid
      PROVE  /\ ReadAsLaid(TextImage, zchars, TextAt)
             /\ \A index \in LaidIndices :
                   ReadAsAbbreviation(TextImage, zchars, TextAt, AbbreviationTable, index)
  <2>1. zchars \in Seq(ZChar) /\ Len(zchars) \in Nat
    BY <1>1, LenProperties DEF PartsInv, InputsTyped
  <2>2. PICK text \in Seq(ZChar) : text = zchars
    BY <2>1
  <2>3. /\ DOMAIN TextImage = 0 .. TextImageSize - 1 /\ TextImageSize \in Nat
        /\ TextAt \in Nat \ {0} /\ AbbreviationTable \in Nat \ {0}
        /\ TextAt % AddressScale = 0 /\ TextAt \div AddressScale < TextByteLimit * TextByteLimit
    BY PartsAssumption
  <2>4. TextAt + 2 * WordsOf(text) <= TextImageSize
    <3>1. PICK room : room = (MaxLaid + 2) \div 3
      OBVIOUS
    <3>2. room \in Nat /\ TextAt + 2 * room <= TextImageSize /\ TextAt + 2 <= TextImageSize
      BY <3>1, PartsAssumption
    <3>3. WordsOf(text) = 1 \/ WordsOf(text) <= room
      BY <1>1, <2>1, <2>2, <3>1, PartsAssumption DEF WordsOf
    <3>4. WordsOf(text) \in Nat
      BY PaddedIs
    <3> QED BY <2>3, <3>2, <3>3, <3>4
  <2>5. ReadAsLaid(TextImage, text, TextAt)
    BY <2>3, <2>4, AlwaysReadAsLaid
  <2>6. ASSUME NEW index \in LaidIndices
        PROVE  ReadAsAbbreviation(TextImage, text, TextAt, AbbreviationTable, index)
    <3>1. index \in Nat /\ AbbreviationTable + 2 * index + 2 <= TextAt
      BY PartsAssumption
    <3> QED BY <2>3, <2>4, <3>1, AlwaysReadAsAbbreviation
  <2> QED BY <2>2, <2>5, <2>6
<1>2. PartsInv => TextAsSpecified(zchars)
  BY TextsAlwaysMean DEF PartsInv, InputsTyped
<1>3. PartsInv => TextsAsSpecified
  BY <1>1, <1>2 DEF TextsAsSpecified
<1> QED BY <1>3, AlwaysParts, PTL

\* An entry of the dictionary, made of whatever a player types, decodes to as
\* much of the word as fits, in lower case, and its bytes hold the Z-characters
\* it was made of (encodeDictionaryWord, dictionary.go).
THEOREM EncodingAlwaysInverse == PartsSpec => []EncodingInverse
<1>1. ASSUME PartsInv
      PROVE  EncodingInverse
  <2>1. PICK word \in Seq(TypedCodes) : word = typed
    BY <1>1 DEF PartsInv, InputsTyped
  <2>2. /\ TypedCodes \subseteq Code /\ LowerCase(Space) = Space
        /\ \A c \in TypedCodes : LowerCase(c) \in OutputCodes
    BY PartsAssumption
  <2>3. word \in TypedWords
    <3>1. Len(word) \in Nat /\ \A i \in 1 .. Len(word) : word[i] \in TypedCodes
      BY LenProperties, ElementOfSeq
    <3>2. word \in Seq(Code)
      <4>1. \A i \in 1 .. Len(word) : word[i] \in Code
        BY <2>2, <3>1
      <4> QED BY <3>1, <4>1
    <3> QED BY <2>2, <3>1, <3>2 DEF TypedWords
  <2>4. EncodingDecodes(word)
    BY <2>2, <2>3, EncodingAlwaysDecodes
  <2>5. PICK zs : zs = EncodeDictionaryWord(word)
    OBVIOUS
  <2>6. PICK m \in Nat \ {0} : DictionaryZChars = 3 * m
    <3>1. PICK d \in Nat \ {0} : d = DictionaryZChars /\ d % 3 = 0
      BY TextAssumption, PartsAssumption
    <3>2. d \div 3 \in Nat \ {0} /\ d = 3 * (d \div 3)
      BY <3>1
    <3> QED BY <3>1, <3>2
  <2>7. zs \in Seq(ZChar) /\ Len(zs) = 3 * m
    <3>1. word \in Seq(Code)
      BY <2>3 DEF TypedWords
    <3>2. PICK f : Letters(f, word)
      BY <2>2, <3>1, LettersExist
    <3> QED BY <2>2, <2>5, <2>6, <3>1, <3>2, EntryIs
  <2>8. PICK entry : entry = Packed(zs)
    OBVIOUS
  <2>9. Len(entry) = 2 * m
    BY <2>7, <2>8, PackedIs
  <2>10. PICK view : view = [a \in 0 .. Len(entry) - 1 |-> entry[a + 1]]
    OBVIOUS
  <2>11. LaidAt(view, 0, zs, m)
    <3>1. ASSUME NEW i \in 1 .. 2 * m
          PROVE  view[0 + i - 1] = Packed(zs)[i]
      <4>1. PICK a : a = 0 + i - 1
        OBVIOUS
      <4>2. a \in 0 .. Len(entry) - 1 /\ a + 1 = i
        BY <2>9, <4>1
      <4> QED BY <2>8, <2>10, <4>1, <4>2
    <3> QED BY <3>1 DEF LaidAt
  <2>12. PICK read : read = ReadZChars(view, Len(entry), 0)
    OBVIOUS
  <2>13. read = [fault |-> FALSE, zchars |-> zs, next |-> 0 + 2 * m]
    <3>1. PICK size \in Nat : size = Len(entry) /\ 0 + 2 * m <= size
      BY <2>9
    <3>2. 0 \in Nat
      OBVIOUS
    <3> QED BY <2>7, <2>11, <2>12, <3>1, <3>2, LaidRead
  <2>14. read.zchars = zs
    BY <2>13
  <2> QED BY <2>1, <2>4, <2>5, <2>8, <2>10, <2>12, <2>14 DEF EncodingInverse
<1> QED BY <1>1, AlwaysParts, PTL

=============================================================================
