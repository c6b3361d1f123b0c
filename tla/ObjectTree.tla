----------------------------- MODULE ObjectTree -----------------------------
(***************************************************************************)
(* The tree of objects as the object table holds it (object.go): a parent, *)
(* a sibling and a child byte per object, which insert_obj and remove_obj  *)
(* rewrite and which the story may also store into directly, the table     *)
(* being in dynamic memory.                                                *)
(***************************************************************************)
EXTENDS Naturals, Sequences

CONSTANTS
    MaxObject,      \* 255: the largest number an object byte can hold
    Held,           \* the objects whose entries lie in dynamic memory
    ChainLimit,     \* 255: the steps a walk along siblings may take
    MaxTampering    \* a bound: how often the story stores into the table

ASSUME ObjectTreeAssumption ==
    /\ MaxObject \in Nat
    /\ Held \in 1 .. MaxObject
    /\ ChainLimit \in Nat /\ Held <= ChainLimit
    /\ MaxTampering \in Nat

VARIABLES
    tree,           \* the three links of every object
    ending,         \* how the last object instruction ended
    looped,         \* has an object been put into one it holds itself
    tampered        \* how often the story has stored into the table

vars == <<tree, ending, looped, tampered>>

Nothing == 0

Number == 0 .. MaxObject

Object == 1 .. Held

Tree ==
    [parent : [Object -> Number], sibling : [Object -> Number], child : [Object -> Number]]

Ending ==
    {"done", "no such object", "into itself", "chain too long", "not in chain"}

-----------------------------------------------------------------------------
\* A step of an instruction: how it ended, and the tree it left.
Done(t) == [ending |-> "done", tree |-> t]

Failed(how, t) == [ending |-> how, tree |-> t]

\* The objects met along a chain of siblings, "first" being the zeroth.
Walk(t, first) ==
    LET at[k \in 0 .. ChainLimit] ==
            IF k = 0 THEN first
            ELSE IF at[k - 1] \in Object THEN t.sibling[at[k - 1]] ELSE Nothing
    IN  at

\* A mutant: too few steps for the list of an object that holds all the others.
OutOfStepsEarly(k) == k + 3 >= ChainLimit

OutOfSteps(k) == k >= ChainLimit

\* The step at which the search for the predecessor of "number" ends.
SearchEnd(t, first, number) ==
    LET at == Walk(t, first)
        ends(k) == \/ at[k] \notin Object \/ OutOfSteps(k)
                   \/ t.sibling[at[k]] = number
    IN  CHOOSE k \in 0 .. ChainLimit : ends(k) /\ \A j \in 0 .. k - 1 : ~ends(j)

Unlinked(t, p, number, successor) ==
    LET k == SearchEnd(t, t.child[p], number)
        current == Walk(t, t.child[p])[k]
    IN  CASE p \notin Object -> Failed("no such object", t)
          [] p \in Object /\ t.child[p] = number -> Done([t EXCEPT !.child[p] = successor])
          [] OTHER ->
               CASE current = Nothing -> Failed("not in chain", t)
                 [] current # Nothing /\ OutOfSteps(k) -> Failed("chain too long", t)
                 [] current # Nothing /\ ~OutOfSteps(k) /\ current \notin Object ->
                      Failed("no such object", t)
                 [] OTHER -> Done([t EXCEPT !.sibling[current] = successor])

\* A mutant: the object keeps the sibling it had.
DetachedKeepingSibling(t, number) == [t EXCEPT !.parent[number] = Nothing]

\* A mutant: "no object" is the number after the last one.
DetachedBeyond(t, number) ==
    [t EXCEPT !.parent[number] = MaxObject + 1, !.sibling[number] = Nothing]

Detached(t, number) ==
    [t EXCEPT !.parent[number] = Nothing, !.sibling[number] = Nothing]

Removed(t, number) ==
    IF number \notin Object
    THEN Failed("no such object", t)
    ELSE LET step == IF t.parent[number] = Nothing
                     THEN Done(t)
                     ELSE Unlinked(t, t.parent[number], number, t.sibling[number])
         IN  IF step.ending = "done" THEN Done(Detached(step.tree, number)) ELSE step

\* A mutant: the previous first child is not made the sibling.
AttachedAlone(t, number, p) ==
    [t EXCEPT !.child[p] = number, !.parent[number] = p]

Attached(t, number, p) ==
    [t EXCEPT !.sibling[number] = t.child[p], !.child[p] = number, !.parent[number] = p]

\* A mutant: the destination is looked at once the object has been taken out.
InsertedLateCheck(t, number, p) ==
    LET step == Removed(t, number)
    IN  CASE step.ending # "done" -> step
          [] step.ending = "done" /\ p \notin Object -> Failed("no such object", step.tree)
          [] step.ending = "done" /\ number = p -> Failed("into itself", step.tree)
          [] OTHER -> Done(Attached(step.tree, number, p))

Inserted(t, number, p) ==
    CASE number \notin Object \/ p \notin Object -> Failed("no such object", t)
      [] number = p /\ p \in Object -> Failed("into itself", t)
      [] OTHER -> LET step == Removed(t, number)
                  IN  IF step.ending = "done"
                      THEN Done(Attached(step.tree, number, p))
                      ELSE step

\* Is "above" number itself, or an object that holds it, directly or not?
Ancestors(t, number) ==
    LET up[k \in 0 .. Held] ==
            IF k = 0 THEN {number}
            ELSE up[k - 1] \cup {t.parent[o] : o \in up[k - 1] \cap Object}
    IN  up[Held]

-----------------------------------------------------------------------------
Init ==
    /\ tree = [ parent  |-> [o \in Object |-> Nothing],
                sibling |-> [o \in Object |-> Nothing],
                child   |-> [o \in Object |-> Nothing] ]
    /\ ending = "done"
    /\ looped = FALSE
    /\ tampered = 0

Perform(step) == tree' = step.tree /\ ending' = step.ending

\* An instruction on object 0 is logged and does nothing.
InsertObj ==
    \E number, p \in Number \ {Nothing} :
       /\ Perform(Inserted(tree, number, p))
       /\ looped' = (looped \/ /\ number \in Object /\ p \in Object /\ number # p
                               /\ number \in Ancestors(tree, p))
       /\ UNCHANGED tampered

RemoveObj ==
    \E number \in Number \ {Nothing} :
       /\ Perform(Removed(tree, number))
       /\ UNCHANGED <<looped, tampered>>

\* storeb into the object table.
StoreIntoTable ==
    /\ tampered < MaxTampering
    /\ tampered' = tampered + 1
    /\ \E o \in Object, link \in {"parent", "sibling", "child"}, value \in Number :
          tree' = [tree EXCEPT ![link][o] = value]
    /\ ending' = "done"
    /\ UNCHANGED looped

Next == InsertObj \/ RemoveObj \/ StoreIntoTable

Spec == Init /\ [][Next]_vars

-----------------------------------------------------------------------------
TypeOK ==
    /\ tree \in Tree
    /\ ending \in Ending
    /\ looped \in BOOLEAN
    /\ tampered \in 0 .. MaxTampering

\* The list that the child of an object begins.
Children(p) ==
    LET at == Walk(tree, tree.child[p])
        length == CHOOSE k \in 0 .. ChainLimit :
                     at[k] = Nothing /\ \A j \in 0 .. k - 1 : at[j] # Nothing
    IN  [i \in 1 .. length |-> at[i - 1]]

\* S 12.5, as object.go relies on it: an object with a sibling has a parent; an
\* object is the parent of exactly those in the list of its child, each once;
\* and nothing holds itself, unless the story has put an object into one that
\* it holds, which insertObject does not refuse.
WellFounded ==
    tampered = 0 =>
       /\ \A o \in Object : tree.sibling[o] # Nothing => tree.parent[o] # Nothing
       /\ \A p, o \in Object :
             LET places == {i \in 1 .. Len(Children(p)) : Children(p)[i] = o}
             IN  IF tree.parent[o] = p THEN \E i \in places : places = {i} ELSE places = {}
       /\ ~looped => \A o \in Object :
             tree.parent[o] # Nothing => o \notin Ancestors(tree, tree.parent[o])

\* The two faults of a damaged tree are raised for a damaged tree only: in one
\* that the object instructions have made, loops included, an object is found
\* in its parent's list before the walk gives up.
DamageIsReal ==
    tampered = 0 => ending \notin {"chain too long", "not in chain"}

\* A refused insert_obj or remove_obj leaves the tree as it was, damaged or not
\* ("a bad object number cannot leave the tree half-modified", object.go).
RefusalsChangeNothing == [][ending' # "done" => tree' = tree]_vars

Forest ==
    INSTANCE ObjectForest WITH
        Objects  <- Object,
        children <- [p \in Object |-> IF tampered = 0 THEN Children(p) ELSE <<>>],
        intact   <- tampered = 0

\* Three links per object implement the lists of ObjectForest: what was first
\* in the destination's list follows the object that was inserted, and the list
\* it left closes over the gap.
ImplementsForest == Forest!Spec

=============================================================================
