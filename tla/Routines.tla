------------------------------ MODULE Routines ------------------------------
(***************************************************************************)
(* The processor of the Z-machine as the execution loop drives it: the     *)
(* program counter, the chain of routine frames and the one evaluation     *)
(* stack they share (execute.go, routine.go, stack.go, variable.go and the *)
(* instructions of opcode_*.go that touch them).                           *)
(*                                                                         *)
(* The story is arbitrary.  An action executes one whole instruction: it   *)
(* chooses the instruction the decoder found at the program counter (its   *)
(* operands, store byte and branch), evaluates the operands in order and   *)
(* carries the instruction out, with every way in which it can be refused  *)
(* and whatever the refused instruction has done by then.  A fault does    *)
(* not stop the machine for good: the host may call Run again, and         *)
(* execution continues from the program counter the fault left.            *)
(*                                                                         *)
(* restart is Init again and quit changes nothing here; when the machine   *)
(* suspends, and what restart keeps, is the subject of Machine, and the    *)
(* frames a saved state brings back that of SavedFrames.                   *)
(***************************************************************************)
EXTENDS Memory, Sequences, FiniteSets

CONSTANTS
    MaxLocals,      \* 15: the locals a Version 3 routine may declare
    MaxDepth,       \* the limit on the length of the call chain
    MaxStack,       \* the limit on the height of the evaluation stack
    MaxOperands,    \* 4: the operands a Version 3 instruction may have
    MaxArguments,   \* 7: the arguments of a call that a frame can record
    InitialPC       \* the story's initial program counter

ASSUME RoutinesAssumption ==
    /\ MaxLocals \in Nat \ {0}
    /\ MaxDepth \in Nat \ {0}
    /\ MaxStack \in Nat
    /\ MaxOperands \in Nat \ {0}
    /\ MaxArguments \in Nat /\ MaxOperands <= MaxArguments + 1
    /\ InitialPC \in Address /\ Readable(InitialPC)

VARIABLES
    pc,             \* the program counter
    frames,         \* the call chain, oldest first; frame 1 is the initial one
    stack,          \* the evaluation stack, shared by all the frames
    outcome         \* how the last instruction ended: "continue" or "fault"

machineVars == <<mem, pc, frames, stack, outcome>>

-----------------------------------------------------------------------------
\* Variable numbers: 0 is the stack, then the locals, then the globals.

StackPointer == 0

Local == 1 .. MaxLocals

VariableCount == 1 + MaxLocals + GlobalCount

Variable == 0 .. VariableCount - 1

GlobalAddress(number) == GlobalBase + number - MaxLocals - 1

\* The number an operand names in an indirect reference: its low byte.
Reference(value) == value % VariableCount

Frame ==
    [ returnPC  : Address,
      locals    : [Local -> Word],
      numLocals : 0 .. MaxLocals,
      argCount  : 0 .. MaxArguments,
      stackBase : 0 .. MaxStack,
      store     : Variable,
      hasStore  : BOOLEAN ]

BaseFrame ==
    [ returnPC |-> InitialPC, locals |-> [l \in Local |-> 0], numLocals |-> 0,
      argCount |-> 0, stackBase |-> 0, store |-> 0, hasStore |-> FALSE ]

-----------------------------------------------------------------------------
\* What one instruction works on.  The helpers of the code that change it one
\* after the other (pop, then return, then store the result) are functions on
\* this record, each with the condition under which the code performs it.

Storage == [frames : Seq(Frame), stack : Seq(Word), mem : [Cell -> Word]]

Current == [frames |-> frames, stack |-> stack, mem |-> mem]

Top(s) == s.frames[Len(s.frames)]

Depth(s) == Len(s.stack) - Top(s).stackBase

\* The top n entries taken off the stack.
Dropped(s, n) == [s EXCEPT !.stack = SubSeq(@, 1, Len(@) - n)]

Declared(number, s) == number <= Top(s).numLocals

SetLocal(number, value, s) ==
    [s EXCEPT !.frames[Len(s.frames)].locals[number] = value]

SetGlobal(number, value, s) == [s EXCEPT !.mem[GlobalAddress(number)] = value]

CanWriteVariable(number, s) ==
    /\ number = StackPointer => Len(s.stack) < MaxStack
    /\ number \in Local => Declared(number, s)

WriteVariable(number, value, s) ==
    CASE number = StackPointer -> [s EXCEPT !.stack = Append(@, value)]
      [] number \in Local      -> SetLocal(number, value, s)
      [] OTHER                 -> SetGlobal(number, value, s)

\* A mutant: the underflow check of peek and replaceTop ignores the watermark.
CanReachIndirectBelow(number, s) ==
    /\ number = StackPointer => Len(s.stack) > 0
    /\ number \in Local => Declared(number, s)

\* An indirect reference reads or replaces the top of the stack in place.
CanReachIndirect(number, s) ==
    /\ number = StackPointer => Depth(s) > 0
    /\ number \in Local => Declared(number, s)

ReadIndirect(number, s) ==
    CASE number = StackPointer -> s.stack[Len(s.stack)]
      [] number \in Local      -> Top(s).locals[number]
      [] OTHER                 -> s.mem[GlobalAddress(number)]

WriteIndirect(number, value, s) ==
    CASE number = StackPointer -> [s EXCEPT !.stack[Len(s.stack)] = value]
      [] number \in Local      -> SetLocal(number, value, s)
      [] OTHER                 -> SetGlobal(number, value, s)

\* A mutant: the frame is discarded and its stack is not.
ReturnedWithStack(s) == [s EXCEPT !.frames = SubSeq(@, 1, Len(@) - 1)]

\* Leaving the current routine discards what it pushed.
CanReturn(s) == Len(s.frames) > 1

Returned(s) ==
    [s EXCEPT !.frames = SubSeq(@, 1, Len(@) - 1),
              !.stack  = SubSeq(@, 1, Top(s).stackBase)]

\* A mutant: arguments are written as far as they go, declared or not.
CalledWithEveryArgument(s, args, returnPC, store, count, initial) ==
    [s EXCEPT !.frames = Append(@,
        [ returnPC  |-> returnPC,
          locals    |-> [l \in Local |->
                            IF l <= Len(args) THEN args[l]
                            ELSE IF l <= count THEN initial[l] ELSE 0],
          numLocals |-> count,
          argCount  |-> Len(args),
          stackBase |-> Len(s.stack),
          store     |-> store,
          hasStore  |-> TRUE ])]

\* Entering a routine: the locals take their initial values from the routine
\* header, and the arguments are written over them as far as both go.
Called(s, args, returnPC, store, count, initial) ==
    [s EXCEPT !.frames = Append(@,
        [ returnPC  |-> returnPC,
          locals    |-> [l \in Local |->
                            IF l > count THEN 0
                            ELSE IF l <= Len(args) THEN args[l] ELSE initial[l]],
          numLocals |-> count,
          argCount  |-> Len(args),
          stackBase |-> Len(s.stack),
          store     |-> store,
          hasStore  |-> TRUE ])]

-----------------------------------------------------------------------------
\* Operands are evaluated in order, and a variable operand that names the stack
\* pops it, so what an operand is worth depends on those before it.

Operand ==
    [kind : {"constant"}, value : Word] \cup [kind : {"variable"}, value : Variable]

Operands(least, most) == UNION {[1 .. n -> Operand] : n \in least .. most}

NamesStack(operand) == operand = [kind |-> "variable", value |-> StackPointer]

\* How many of the first n operands pop the stack.
Pops(operands, n) == Cardinality({i \in 1 .. n : NamesStack(operands[i])})

\* Operand i can be read if those before it could: there is a word left to pop
\* for it, if it pops one, and it is no local the routine has not declared.
Available(operands, i) ==
    /\ Pops(operands, i) <= Depth(Current)
    /\ operands[i].kind = "variable" /\ operands[i].value \in Local =>
           Declared(operands[i].value, Current)

CanEvaluate(operands) == \A i \in 1 .. Len(operands) : Available(operands, i)

OperandValue(operands, i) ==
    LET o == operands[i]
    IN  CASE o.kind = "constant" -> o.value
          [] NamesStack(o) -> stack[Len(stack) - Pops(operands, i) + 1]
          [] OTHER -> ReadIndirect(o.value, Current)

\* What is left when the first n operands have been evaluated.
AfterOperands(operands, n) == Dropped(Current, Pops(operands, n))

Evaluated(operands) == AfterOperands(operands, Len(operands))

-----------------------------------------------------------------------------
\* How an instruction ends.

Commit(s) == frames' = s.frames /\ stack' = s.stack /\ mem' = s.mem

Continue(s, address) ==
    Commit(s) /\ pc' = address /\ outcome' = "continue"

Refuse(s, address) ==
    Commit(s) /\ pc' = address /\ outcome' = "fault"

StoreVariable(number, value, s, address) ==
    \/ CanWriteVariable(number, s) /\ Continue(WriteVariable(number, value, s), address)
    \/ ~CanWriteVariable(number, s) /\ Refuse(s, address)

CallRoutine(args, s, returnPC, store) ==
    \* Depth limit, unreadable routine header or too many locals.
    \/ Refuse(s, returnPC)
    \/ /\ Len(s.frames) < MaxDepth
       /\ \E count \in 0 .. MaxLocals, initial \in [Local -> Word], entry \in 1 .. StorySize :
             Continue(Called(s, args, returnPC, store, count, initial), entry)

ReturnFromRoutine(value, s, address) ==
    \/ ~CanReturn(s) /\ Refuse(s, address)
    \/ /\ CanReturn(s)
       /\ IF Top(s).hasStore
          THEN StoreVariable(Top(s).store, value, Returned(s), Top(s).returnPC)
          ELSE Continue(Returned(s), Top(s).returnPC)

\* The condition of a branch is the story's data, so it may go either way.
Branch(s, address) ==
    \/ Continue(s, address)
    \/ \E value \in {0, 1} : ReturnFromRoutine(value, s, address)
    \/ \E target \in Target : Continue(s, target)
    \/ Refuse(s, address)

-----------------------------------------------------------------------------
\* The instructions.  The address of the following instruction is already in
\* the program counter when one is carried out.

FollowingAddress == pc + 1 .. StorySize

Init ==
    /\ mem \in [Cell -> Word]
    /\ pc = InitialPC
    /\ frames = <<BaseFrame>>
    /\ stack = <<>>
    /\ outcome = "continue"

\* The bytes at the program counter are no instruction: nothing has changed.
DecodeFault == Refuse(Current, pc)

\* An operand cannot be read: those before it have been.
OperandFault ==
    \E next \in FollowingAddress, operands \in Operands(1, MaxOperands) :
       \E i \in 1 .. Len(operands) :
          /\ ~Available(operands, i)
          /\ \A j \in 1 .. i - 1 : Available(operands, j)
          /\ Refuse(AfterOperands(operands, i - 1), next)

\* Refused after its operands: a wrong number of them, a division by zero, a
\* load or store outside memory, an object the story does not have.
IllegalInstruction ==
    \E next \in FollowingAddress, operands \in Operands(0, MaxOperands) :
       CanEvaluate(operands) /\ Refuse(Evaluated(operands), next)

Call ==
    \E next \in FollowingAddress, operands \in Operands(1, MaxOperands), store \in Variable :
       LET routine == OperandValue(operands, 1)
           args == [i \in 1 .. Len(operands) - 1 |-> OperandValue(operands, i + 1)]
       IN  /\ CanEvaluate(operands)
           /\ \/ routine = 0 /\ StoreVariable(store, 0, Evaluated(operands), next)
              \/ routine # 0 /\ CallRoutine(args, Evaluated(operands), next, store)

\* ret, and rtrue and rfalse, which return a constant.
Ret ==
    \E next \in FollowingAddress, operands \in Operands(1, 1) :
       /\ CanEvaluate(operands)
       /\ ReturnFromRoutine(OperandValue(operands, 1), Evaluated(operands), next)

\* print_ret returns true once its text is out; a selected table takes the text
\* into memory, as far as it fits.
PrintRet ==
    \E next \in FollowingAddress, contents \in [Cell -> Word] :
       LET s == [Current EXCEPT !.mem = contents]
       IN  Refuse(s, next) \/ ReturnFromRoutine(1, s, next)

RetPopped ==
    \E next \in FollowingAddress :
       \/ Depth(Current) = 0 /\ Refuse(Current, next)
       \/ /\ Depth(Current) > 0
          /\ ReturnFromRoutine(stack[Len(stack)], Dropped(Current, 1), next)

Push ==
    \E next \in FollowingAddress, operands \in Operands(1, 1) :
       /\ CanEvaluate(operands)
       /\ StoreVariable(StackPointer, OperandValue(operands, 1), Evaluated(operands), next)

Pop ==
    \E next \in FollowingAddress :
       \/ Depth(Current) = 0 /\ Refuse(Current, next)
       \/ Depth(Current) > 0 /\ Continue(Dropped(Current, 1), next)

\* pull takes the value off the stack before it looks at where to put it.
Pull ==
    \E next \in FollowingAddress, operands \in Operands(1, 1) :
       LET s == Evaluated(operands)
           popped == Dropped(s, 1)
           number == Reference(OperandValue(operands, 1))
       IN  /\ CanEvaluate(operands)
           /\ \/ Depth(s) = 0 /\ Refuse(s, next)
              \/ /\ Depth(s) > 0
                 /\ CanReachIndirect(number, popped)
                 /\ Continue(WriteIndirect(number, s.stack[Len(s.stack)], popped), next)
              \/ Depth(s) > 0 /\ ~CanReachIndirect(number, popped) /\ Refuse(popped, next)

Load ==
    \E next \in FollowingAddress, operands \in Operands(1, 1), store \in Variable :
       LET s == Evaluated(operands)
           number == Reference(OperandValue(operands, 1))
       IN  /\ CanEvaluate(operands)
           /\ \/ ~CanReachIndirect(number, s) /\ Refuse(s, next)
              \/ /\ CanReachIndirect(number, s)
                 /\ StoreVariable(store, ReadIndirect(number, s), s, next)

Store ==
    \E next \in FollowingAddress, operands \in Operands(2, 2) :
       LET s == Evaluated(operands)
           number == Reference(OperandValue(operands, 1))
       IN  /\ CanEvaluate(operands)
           /\ \/ ~CanReachIndirect(number, s) /\ Refuse(s, next)
              \/ /\ CanReachIndirect(number, s)
                 /\ Continue(WriteIndirect(number, OperandValue(operands, 2), s), next)

\* inc and dec, and with a second operand inc_chk and dec_chk, which branch.
Adjust ==
    \E next \in FollowingAddress, operands \in Operands(1, 2), delta \in {-1, 1} :
       LET s == Evaluated(operands)
           number == Reference(OperandValue(operands, 1))
           updated == WriteIndirect(number, Wrap(ReadIndirect(number, s) + delta), s)
       IN  /\ CanEvaluate(operands)
           /\ \/ ~CanReachIndirect(number, s) /\ Refuse(s, next)
              \/ /\ CanReachIndirect(number, s)
                 /\ IF Len(operands) = 1
                    THEN Continue(updated, next)
                    ELSE Branch(updated, next)

\* Arithmetic, logic, loads from memory, the object and property queries.
Compute ==
    \E next \in FollowingAddress, operands \in Operands(1, MaxOperands),
       store \in Variable, value \in Word :
          /\ CanEvaluate(operands)
          /\ StoreVariable(store, value, Evaluated(operands), next)

\* get_sibling and get_child store the object they found and then branch on it.
ComputeAndBranch ==
    \E next \in FollowingAddress, operands \in Operands(1, 1),
       store \in Variable, value \in Word :
          LET s == Evaluated(operands)
          IN  /\ CanEvaluate(operands)
              /\ CanWriteVariable(store, s)
              /\ Branch(WriteVariable(store, value, s), next)

\* The conditional branches; save and restore, which always report failure.
Test ==
    \E next \in FollowingAddress, operands \in Operands(0, MaxOperands) :
       CanEvaluate(operands) /\ Branch(Evaluated(operands), next)

Jump ==
    \E next \in FollowingAddress, operands \in Operands(1, 1), target \in Target :
       CanEvaluate(operands) /\ Continue(Evaluated(operands), target)

\* storew, storeb, put_prop, the instructions that move objects and set
\* attributes, the line sread writes and the text a selected table takes: a story
\* keeps its tables anywhere in dynamic memory, the table of globals included.
\* What was written before the instruction is refused stays written.
UpdateMemory ==
    \E next \in FollowingAddress, operands \in Operands(0, MaxOperands), contents \in [Cell -> Word] :
       LET s == [Evaluated(operands) EXCEPT !.mem = contents]
       IN  CanEvaluate(operands) /\ (Continue(s, next) \/ Refuse(s, next))

Instruction ==
    \/ DecodeFault \/ OperandFault \/ IllegalInstruction
    \/ Call \/ Ret \/ PrintRet \/ RetPopped
    \/ Push \/ Pop \/ Pull \/ Load \/ Store \/ Adjust
    \/ Compute \/ ComputeAndBranch \/ Test \/ Jump \/ UpdateMemory

Spec == Init /\ [][Instruction]_machineVars

-----------------------------------------------------------------------------
\* Every variable holds a value of the type the code declares for it, within
\* the limits the machine was created with.
TypeOK ==
    /\ MemoryTypeOK
    /\ pc \in Address
    /\ frames \in Seq(Frame)
    /\ stack \in Seq(Word)
    /\ outcome \in {"continue", "fault"}

\* The watermarks the frames record cut the one evaluation stack into the
\* stretches the routines own: they rise along the chain from the bottom of the
\* stack and none lies above its top, so a stack access by the current routine
\* is always inside the slice the code indexes; the initial frame is never left
\* or changed; neither limit is exceeded; and a local that the routine did not
\* declare still holds the zero it was created with, which is what lets a saved
\* state leave it out.  Reached through every instruction, also the refused ones.
FramesNested ==
    /\ Len(frames) \in 1 .. MaxDepth
    /\ Len(stack) <= MaxStack
    /\ frames[1] = BaseFrame
    /\ \A i \in 1 .. Len(frames) : frames[i].stackBase <= Len(stack)
    /\ \A i, j \in 1 .. Len(frames) :
          i <= j => frames[i].stackBase <= frames[j].stackBase
    /\ \A i \in 1 .. Len(frames) : \A l \in Local :
          l > frames[i].numLocals => frames[i].locals[l] = 0

\* "A routine can neither read nor discard a value belonging to its caller"
\* (stack.go), whatever the instruction does before it is refused: what the
\* callers of the current routine have on the stack stays there, their frames
\* stay as they are, and at most the immediate caller sees a local change, when
\* the current routine returns into it.
CallerUntouched ==
    /\ SubSeq(stack', 1, Top(Current).stackBase) =
          SubSeq(stack, 1, Top(Current).stackBase)
    /\ Len(frames') >= Len(frames) - 1
    /\ \A i \in 1 .. Len(frames) - 1 :
          /\ i < Len(frames') => frames'[i] = frames[i]
          /\ [frames'[i] EXCEPT !.locals = frames[i].locals] = frames[i]

CallersUntouched == [][CallerUntouched]_machineVars

-----------------------------------------------------------------------------
\* The stretch of the evaluation stack that belongs to frame i.
OwnedFrom(i) == frames[i].stackBase + 1

OwnedTo(i) == IF i = Len(frames) THEN Len(stack) ELSE frames[i + 1].stackBase

ActivationOf(i) ==
    [ resume |-> frames[i].returnPC,
      locals |-> frames[i].locals,
      own    |-> SubSeq(stack, OwnedFrom(i), OwnedTo(i)) ]

Abstract ==
    INSTANCE Activations WITH
        Data        <- Word,
        Names       <- Local,
        Addresses   <- Address,
        DepthLimit  <- MaxDepth,
        Root        <- [resume |-> InitialPC, locals |-> BaseFrame.locals, own |-> <<>>],
        activations <- [i \in 1 .. Len(frames) |-> ActivationOf(i)],
        at          <- pc

\* One stack cut up by watermarks gives every routine a stack of its own: the
\* processor implements Activations.  A call that left a word of its callee
\* behind, a return into the wrong place, or an operand popped twice would be a
\* step Activations does not have.
PrivateStacks == Abstract!Spec

=============================================================================
