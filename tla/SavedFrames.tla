---------------------------- MODULE SavedFrames ----------------------------
(***************************************************************************)
(* How the call chain and the evaluation stack travel through a saved      *)
(* state (saveFrames, restoredFrames and checkRestoredPC of state.go).     *)
(* The machine keeps one stack cut up by watermarks; a Quetzal file keeps  *)
(* a stack per frame and no watermarks.  A machine here begins either as   *)
(* New makes it or as Restore makes it from a file anyone may have         *)
(* written; Restore replaces the chain, the stack, dynamic memory and the  *)
(* program counter, so what it was before is of no consequence.            *)
(***************************************************************************)
EXTENDS Routines

CONSTANTS
    HeaderSize          \* 64: no instruction lies below it

ASSUME SavedFramesAssumption == HeaderSize \in Nat

SequencesUpTo(S, n) == UNION {[1 .. k -> S] : k \in 0 .. n}

\* One more local and one more word than the limits admit stand for all more.
SavedFrame ==
    [ returnPC   : Address,
      discard    : BOOLEAN,                 \* is the result thrown away
      result     : Variable,
      arguments  : SUBSET (1 .. MaxArguments),
      locals     : SequencesUpTo(Word, MaxLocals + 1),
      evaluation : SequencesUpTo(Word, MaxStack + 1) ]

DummyFrame(words) ==
    [ returnPC |-> 0, discard |-> FALSE, result |-> 0, arguments |-> {},
      locals |-> <<>>, evaluation |-> words ]

IsDummy(f) == f = DummyFrame(f.evaluation)

-----------------------------------------------------------------------------
\* A mutant: every frame is given the stack up to the top.
OwnedToTop(i) == SubSeq(stack, OwnedFrom(i), Len(stack))

Evaluation(i) == SubSeq(stack, OwnedFrom(i), OwnedTo(i))

SaveFrame(i) ==
    IF i = 1
    THEN DummyFrame(Evaluation(1))
    ELSE [ returnPC   |-> frames[i].returnPC,
           discard    |-> ~frames[i].hasStore,
           result     |-> frames[i].store,
           arguments  |-> 1 .. frames[i].argCount,
           locals     |-> [l \in 1 .. frames[i].numLocals |-> frames[i].locals[l]],
           evaluation |-> Evaluation(i) ]

SaveFrames == [i \in 1 .. Len(frames) |-> SaveFrame(i)]

\* Where the evaluation stack of saved frame i begins once all are joined.
Watermark(saved) ==
    LET below[i \in 1 .. Len(saved)] ==
            IF i = 1 THEN 0 ELSE below[i - 1] + Len(saved[i - 1].evaluation)
    IN  below

StackWords(saved) ==
    Watermark(saved)[Len(saved)] + Len(saved[Len(saved)].evaluation)

\* A mutant: the limit is applied to every frame and not to their sum.
FitsFrameByFrame(saved) ==
    \A i \in 1 .. Len(saved) : Len(saved[i].evaluation) <= MaxStack

FitsStack(saved) == StackWords(saved) <= MaxStack

AcceptsFrames(saved) ==
    /\ Len(saved) \in 1 .. MaxDepth
    /\ IsDummy(saved[1])
    /\ FitsStack(saved)
    /\ \A i \in 1 .. Len(saved) : Len(saved[i].locals) <= MaxLocals
    /\ \A i \in 2 .. Len(saved) : Readable(saved[i].returnPC)

AcceptsPC(address) == HeaderSize <= address /\ Readable(address)

RestoredFrame(saved, i) ==
    IF i = 1
    THEN BaseFrame
    ELSE [ returnPC  |-> saved[i].returnPC,
           locals    |-> [l \in Local |->
                             IF l <= Len(saved[i].locals) THEN saved[i].locals[l] ELSE 0],
           numLocals |-> Len(saved[i].locals),
           argCount  |-> Cardinality(saved[i].arguments),
           stackBase |-> Watermark(saved)[i],
           store     |-> saved[i].result,
           hasStore  |-> ~saved[i].discard ]

RestoredFrames(saved) == [i \in 1 .. Len(saved) |-> RestoredFrame(saved, i)]

RestoredStack(saved) ==
    LET joined[i \in 0 .. Len(saved)] ==
            IF i = 0 THEN <<>> ELSE joined[i - 1] \o saved[i].evaluation
    IN  joined[Len(saved)]

-----------------------------------------------------------------------------
\* Any file; those that do not begin with the dummy frame or hold more frames
\* than the limit are left out, as none of them is accepted.
Chains ==
    LET dummies == {DummyFrame(words) : words \in SequencesUpTo(Word, MaxStack + 1)}
    IN  UNION {{<<d>> \o rest : d \in dummies, rest \in [1 .. n -> SavedFrame]} :
                  n \in 0 .. MaxDepth - 1}

InitRestored ==
    \E saved \in Chains :
       /\ AcceptsFrames(saved)
       /\ frames = RestoredFrames(saved)
       /\ stack = RestoredStack(saved)
       /\ mem \in [Cell -> Word]
       /\ pc \in Address /\ AcceptsPC(pc)
       /\ outcome = "continue"

RestoredSpec == (Init \/ InitRestored) /\ [][Instruction]_machineVars

-----------------------------------------------------------------------------
\* The program counter can be that of a line-input instruction, which is the
\* only place a state is saved at.  The decoder reads one wherever the story
\* has a byte, inside the header too.
AtBoundary == outcome = "continue" /\ Readable(pc)

ReturnsInside == \A i \in 2 .. Len(frames) : Readable(frames[i].returnPC)

\* A state saved at an input boundary is accepted by a machine with the same
\* limits, and the chain and the stack come back exactly: the watermarks are
\* the sums of what lies below, no local that was declared is lost, none that
\* was not is invented, and the argument counts survive their detour through a
\* mask.  Excepted is a routine that returns to the end of the story.
FramesSurvive ==
    AtBoundary /\ ReturnsInside =>
       /\ AcceptsFrames(SaveFrames)
       /\ RestoredFrames(SaveFrames) = frames
       /\ RestoredStack(SaveFrames) = stack

\* "A state stays restorable as long as the story file does not change"
\* (README): without the exception.
OwnStateAccepted == AtBoundary => AcceptsFrames(SaveFrames)

=============================================================================
