---------------------------- MODULE Activations ----------------------------
(***************************************************************************)
(* What the call chain and the evaluation stack of Routines promise: every *)
(* activation of a routine has a stack of its own, empty when the routine  *)
(* is entered and gone when it is left (S 6.3.1 and S 6.3.2 of the         *)
(* Z-machine standard, which routine.go and stack.go quote).  An           *)
(* instruction works on the innermost activation only; there is no shared  *)
(* stack and there are no watermarks.                                      *)
(***************************************************************************)
EXTENDS Integers, Sequences

CONSTANTS
    Data,           \* the words
    Names,          \* the numbers of the locals
    Addresses,      \* the program counters
    DepthLimit,     \* how many activations there may be
    Root            \* the activation the story starts in

VARIABLES
    activations,    \* innermost last
    at              \* where execution continues

vars == <<activations, at>>

Activation ==
    [resume : Addresses, locals : [Names -> Data], own : Seq(Data)]

Innermost == activations[Len(activations)]

Init ==
    /\ activations = <<Root>>
    /\ at = Root.resume

\* The innermost activation changes its own stack and locals, and nothing else.
Work ==
    /\ Len(activations') = Len(activations)
    /\ LET n == Len(activations)
       IN  /\ activations'[n] \in Activation
           /\ activations'[n].resume = activations[n].resume
           /\ activations' = [activations EXCEPT ![n] = activations'[n]]
    /\ at' \in Addresses

\* A new activation starts with nothing on its stack; evaluating the call has
\* taken some words off the caller's.
Enter ==
    /\ Len(activations) < DepthLimit
    /\ \E left \in 0 .. Len(Innermost.own), locals \in [Names -> Data], return \in Addresses :
          activations' = Append(
              [activations EXCEPT ![Len(activations)].own = SubSeq(@, 1, left)],
              [resume |-> return, locals |-> locals, own |-> <<>>])
    /\ at' \in Addresses

\* The innermost activation ends, and its result reaches its caller's stack or
\* locals, or neither.
Leave ==
    /\ Len(activations) > 1
    /\ at' = Innermost.resume
    /\ LET caller == Len(activations) - 1
           rest == SubSeq(activations, 1, caller)
       IN  \/ activations' = rest
           \/ \E value \in Data :
                 activations' = [rest EXCEPT ![caller].own = Append(@, value)]
           \/ \E value \in Data, name \in Names :
                 activations' = [rest EXCEPT ![caller].locals[name] = value]

Next == Work \/ Enter \/ Leave

Spec == Init /\ [][Next]_vars

=============================================================================
