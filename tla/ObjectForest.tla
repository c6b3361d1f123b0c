---------------------------- MODULE ObjectForest ----------------------------
(***************************************************************************)
(* What insert_obj and remove_obj promise a story about its objects (S 15  *)
(* and S 12.5, as object.go cites them): every object holds a list of      *)
(* others, none is in two lists, and an object moves to the front of its   *)
(* new holder's list together with everything it holds itself.  A story    *)
(* that stores into the object table by hand is promised nothing further.  *)
(***************************************************************************)
EXTENDS Naturals, Sequences

CONSTANT Objects

VARIABLES
    children,       \* the list of the objects each object holds
    intact          \* has the story kept its hands off the table

vars == <<children, intact>>

Emptied == [p \in Objects |-> <<>>]

\* The list s closed over the gap that o leaves, if o was in it.
ClosedOver(s, o) ==
    IF \E i \in 1 .. Len(s) : s[i] = o
    THEN LET i == CHOOSE i \in 1 .. Len(s) : s[i] = o
         IN  SubSeq(s, 1, i - 1) \o SubSeq(s, i + 1, Len(s))
    ELSE s

Without(o) == [p \in Objects |-> ClosedOver(children[p], o)]

Init == children = Emptied /\ intact = TRUE

Insert(o, p) ==
    /\ intact /\ o # p
    /\ children' = [Without(o) EXCEPT ![p] = <<o>> \o @]
    /\ UNCHANGED intact

Remove(o) ==
    /\ intact
    /\ children' = Without(o)
    /\ UNCHANGED intact

Tamper ==
    /\ intact' = FALSE
    /\ children' = Emptied

Next ==
    \/ \E o, p \in Objects : Insert(o, p)
    \/ \E o \in Objects : Remove(o)
    \/ Tamper

Spec == Init /\ [][Next]_vars

=============================================================================
