--------------------------- MODULE RoutinesProofs ---------------------------
(***************************************************************************)
(* Proofs about Routines and SavedFrames, for every size of memory, every  *)
(* limit, every story and every saved state.  The invariant is stated once *)
(* for a storage record (the frames, the stack and dynamic memory an       *)
(* instruction works on), and one lemma for each helper of the code says   *)
(* that it keeps it; an instruction is a chain of those helpers.  What is  *)
(* said of a saved state (its watermarks and its joined stack are          *)
(* recursive functions) is shown by induction along the chain of its       *)
(* frames; the invariant then holds of a restored machine as of a new one. *)
(***************************************************************************)
EXTENDS SavedFrames, NumberFacts, SequenceTheorems, FiniteSetTheorems, TLAPS

\* TypeOK and FramesNested, of a storage record.
Sound(s) ==
    /\ s \in Storage
    /\ Len(s.frames) \in 1 .. MaxDepth
    /\ Len(s.stack) <= MaxStack
    /\ s.frames[1] = BaseFrame
    /\ \A i \in 1 .. Len(s.frames) : s.frames[i].stackBase <= Len(s.stack)
    /\ \A i, j \in 1 .. Len(s.frames) :
          i <= j => s.frames[i].stackBase <= s.frames[j].stackBase
    /\ \A i \in 1 .. Len(s.frames) : \A l \in Local :
          l > s.frames[i].numLocals => s.frames[i].locals[l] = 0

\* t differs from s only in what the current routine of s owns: its own words on
\* the stack, its locals, and memory.
Within(s, t) ==
    /\ Len(t.frames) = Len(s.frames)
    /\ \A i \in 1 .. Len(s.frames) - 1 : t.frames[i] = s.frames[i]
    /\ [Top(t) EXCEPT !.locals = Top(s).locals] = Top(s)
    /\ \A k \in 1 .. Top(s).stackBase : t.stack[k] = s.stack[k]

\* What the inductive invariant says, in terms of the variables.
LEMMA SoundCurrent ==
  Sound(Current) <=>
      /\ mem \in [Cell -> Word] /\ frames \in Seq(Frame) /\ stack \in Seq(Word)
      /\ FramesNested
BY DEF Sound, Current, Storage, FramesNested

\* The innermost frame is a frame, and its watermark is on the stack.
LEMMA TopOfSound ==
  ASSUME NEW s, Sound(s)
  PROVE  /\ s.frames \in Seq(Frame) /\ s.stack \in Seq(Word) /\ s.mem \in [Cell -> Word]
         /\ Len(s.frames) \in Nat /\ Len(s.frames) >= 1
         /\ Top(s) \in Frame
         /\ Top(s).stackBase \in 0 .. Len(s.stack)
         /\ Len(s.stack) \in 0 .. MaxStack
         /\ Depth(s) \in 0 .. Len(s.stack)
<1>1. s.frames \in Seq(Frame) /\ s.stack \in Seq(Word) /\ s.mem \in [Cell -> Word]
  BY DEF Sound, Storage
<1>2. Len(s.frames) \in Nat /\ Len(s.stack) \in Nat
  BY <1>1, LenProperties
<1>3. Len(s.frames) >= 1 /\ Len(s.frames) \in 1 .. Len(s.frames)
  BY <1>2, RoutinesAssumption DEF Sound
<1>4. Top(s) \in Frame
  BY <1>1, <1>3, ElementOfSeq DEF Top
<1>5. Top(s).stackBase \in 0 .. Len(s.stack)
  BY <1>2, <1>3, <1>4, RoutinesAssumption DEF Sound, Top, Frame
<1>6. Len(s.stack) \in 0 .. MaxStack
  BY <1>2, RoutinesAssumption DEF Sound
<1> QED BY <1>1, <1>2, <1>3, <1>4, <1>5, <1>6 DEF Depth

\* Every frame of the chain is a frame.
LEMMA FramesOfSound ==
  ASSUME NEW s, Sound(s), NEW i \in 1 .. Len(s.frames)
  PROVE  s.frames[i] \in Frame /\ s.frames[i].stackBase \in 0 .. Len(s.stack)
<1>1. s.frames[i] \in Frame
  BY TopOfSound, ElementOfSeq
<1>2. s.frames[i].stackBase \in Nat
  BY <1>1, RoutinesAssumption DEF Frame
<1> QED BY <1>1, <1>2, TopOfSound DEF Sound

\* Taking off words the current routine owns (pop, and operands that pop).
LEMMA DroppedSound ==
  ASSUME NEW s, Sound(s), NEW n \in 0 .. Depth(s)
  PROVE  /\ Sound(Dropped(s, n))
         /\ Dropped(s, n).frames = s.frames /\ Dropped(s, n).mem = s.mem
         /\ Len(Dropped(s, n).stack) = Len(s.stack) - n
         /\ \A k \in 1 .. Len(s.stack) - n : Dropped(s, n).stack[k] = s.stack[k]
<1> DEFINE t == Dropped(s, n)
<1>1. /\ Len(s.stack) \in Nat /\ Depth(s) \in 0 .. Len(s.stack)
      /\ s.stack \in Seq(Word) /\ s.frames \in Seq(Frame) /\ Len(s.frames) \in Nat
      /\ Len(s.frames) >= 1
  BY TopOfSound
<1>2. /\ t.frames = s.frames /\ t.mem = s.mem
      /\ t.stack = SubSeq(s.stack, 1, Len(s.stack) - n)
  BY DEF Dropped, Sound, Storage
<1>3. \A k \in 1 .. Len(s.stack) - n : s.stack[k] \in Word
  BY <1>1, ElementOfSeq
<1>4. /\ t.stack \in Seq(Word) /\ Len(t.stack) = Len(s.stack) - n
      /\ \A k \in 1 .. Len(s.stack) - n : t.stack[k] = s.stack[k]
  BY <1>1, <1>2, <1>3, SubSeqProperties
<1>5. t \in Storage
  BY <1>2, <1>4 DEF Sound, Storage, Dropped
<1>6. \A i \in 1 .. Len(s.frames) : s.frames[i].stackBase <= Top(s).stackBase
  BY <1>1 DEF Sound, Top
<1>7. \A i \in 1 .. Len(s.frames) : s.frames[i].stackBase \in Nat
  BY FramesOfSound
<1>8. Top(s).stackBase <= Len(s.stack) - n /\ Top(s).stackBase \in Nat
  BY <1>1, TopOfSound DEF Depth
<1>9. ASSUME NEW i \in 1 .. Len(s.frames)
      PROVE  s.frames[i].stackBase <= Len(t.stack)
  <2>1. s.frames[i].stackBase <= Top(s).stackBase /\ s.frames[i].stackBase \in Nat
    BY <1>6, <1>7
  <2> QED BY <2>1, <1>1, <1>4, <1>8
<1>10. Len(t.stack) <= MaxStack
  BY <1>1, <1>4, TopOfSound, RoutinesAssumption
<1>11. Sound(t)
  BY <1>2, <1>5, <1>9, <1>10 DEF Sound
<1> QED BY <1>2, <1>4, <1>11

LEMMA DroppedWithin ==
  ASSUME NEW s, Sound(s), NEW n \in 0 .. Depth(s)
  PROVE  Within(s, Dropped(s, n))
<1> DEFINE t == Dropped(s, n)
<1>1. /\ Top(s).stackBase \in Nat /\ Top(s).stackBase <= Len(s.stack) - n
      /\ Len(s.stack) \in Nat /\ Top(s) \in Frame
  BY TopOfSound DEF Depth
<1>2. [Top(s) EXCEPT !.locals = Top(s).locals] = Top(s)
  BY <1>1 DEF Frame
<1>3. /\ t.frames = s.frames
      /\ \A k \in 1 .. Len(s.stack) - n : t.stack[k] = s.stack[k]
  BY DroppedSound
<1> HIDE DEF t
<1>4. Top(t) = Top(s)
  BY <1>3 DEF Top
<1>5. \A k \in 1 .. Top(s).stackBase : t.stack[k] = s.stack[k]
  BY <1>1, <1>3
<1>6. Within(s, t)
  BY <1>2, <1>3, <1>4, <1>5 DEF Within
<1> QED BY <1>6 DEF t

\* A change of the locals of the current routine.
LEMMA SetLocalSound ==
  ASSUME NEW s, Sound(s), NEW number \in Local, Declared(number, s), NEW value \in Word
  PROVE  Sound(SetLocal(number, value, s)) /\ Within(s, SetLocal(number, value, s))
<1> DEFINE t == SetLocal(number, value, s)
           n == Len(s.frames)
           f == [Top(s) EXCEPT !.locals[number] = value]
<1>1. /\ s.frames \in Seq(Frame) /\ n \in Nat /\ n >= 1 /\ n \in 1 .. n /\ Top(s) \in Frame
      /\ Top(s).stackBase \in 0 .. Len(s.stack) /\ Top(s) = s.frames[n]
  BY TopOfSound DEF Top
<1>2. /\ t.frames = [s.frames EXCEPT ![n] = f]
      /\ t.stack = s.stack /\ t.mem = s.mem
  BY <1>1 DEF SetLocal, Sound, Storage
<1>3. /\ f \in Frame /\ f.stackBase = Top(s).stackBase /\ f.numLocals = Top(s).numLocals
      /\ [f EXCEPT !.locals = Top(s).locals] = Top(s)
      /\ \A l \in Local : l # number => f.locals[l] = Top(s).locals[l]
  BY <1>1 DEF Frame
<1>4. t \in Storage <=> t.frames \in Seq(Frame)
  BY DEF SetLocal, Sound, Storage
<1>5. /\ s.stack = t.stack /\ Len(s.frames) = n
      /\ n \in 1 .. MaxDepth /\ Len(s.stack) <= MaxStack
      /\ \A i \in 1 .. n : s.frames[i].stackBase <= Len(s.stack)
      /\ s.frames[1] = BaseFrame
  BY <1>2 DEF Sound
<1> HIDE DEF t, n, f
<1>6. /\ t.frames \in Seq(Frame) /\ Len(t.frames) = n
      /\ \A i \in 1 .. n : t.frames[i] = IF i = n THEN f ELSE s.frames[i]
  BY <1>1, <1>2, <1>3, <1>5, ExceptSeq
<1>7. Top(s).numLocals \in Nat /\ number <= Top(s).numLocals /\ number \in Nat \ {0}
  BY <1>1, RoutinesAssumption DEF Declared, Frame, Local
<1>8. t.frames[1] = BaseFrame
  <2>1. n # 1
    BY <1>1, <1>5, <1>7 DEF BaseFrame
  <2> QED BY <2>1, <1>1, <1>5, <1>6
<1>9. \A i \in 1 .. n : /\ t.frames[i].stackBase = s.frames[i].stackBase
                        /\ t.frames[i].numLocals = s.frames[i].numLocals
  BY <1>1, <1>3, <1>6
<1>10. ASSUME NEW i \in 1 .. n, NEW l \in Local, l > t.frames[i].numLocals
       PROVE  t.frames[i].locals[l] = 0
  <2>1. l > s.frames[i].numLocals /\ s.frames[i].locals[l] = 0
    BY <1>5, <1>9, <1>10 DEF Sound
  <2>2. CASE i = n
    <3>1. l # number
      BY <2>1, <2>2, <1>1, <1>7 DEF Local
    <3> QED BY <3>1, <2>1, <2>2, <1>1, <1>3, <1>6
  <2>3. CASE i # n
    BY <2>1, <2>3, <1>6
  <2> QED BY <2>2, <2>3
<1>11. \A i, j \in 1 .. n : i <= j => t.frames[i].stackBase <= t.frames[j].stackBase
  BY <1>5, <1>9 DEF Sound
<1>12. Sound(t)
  BY <1>2, <1>4, <1>5, <1>6, <1>8, <1>9, <1>10, <1>11 DEF Sound
<1>13. Within(s, t)
  <2>1. Top(t) = f
    BY <1>1, <1>6 DEF Top
  <2> QED BY <2>1, <1>1, <1>2, <1>3, <1>5, <1>6 DEF Within
<1> QED BY <1>12, <1>13 DEF t

\* A frame chain that stays as it is satisfies Within as soon as the callers'
\* words do.
LEMMA SameFramesWithin ==
  ASSUME NEW s, Sound(s), NEW t, t.frames = s.frames,
         \A k \in 1 .. Top(s).stackBase : t.stack[k] = s.stack[k]
  PROVE  Within(s, t)
<1>1. Top(s) \in Frame
  BY TopOfSound
<1>2. [Top(s) EXCEPT !.locals = Top(s).locals] = Top(s)
  BY <1>1 DEF Frame
<1>3. Top(t) = Top(s)
  BY DEF Top
<1> QED BY <1>2, <1>3 DEF Within

\* A change of the stack that the watermarks allow.
LEMMA NewStackSound ==
  ASSUME NEW s, Sound(s), NEW t, t \in Storage, t.frames = s.frames,
         Len(t.stack) <= MaxStack, Top(s).stackBase <= Len(t.stack)
  PROVE  Sound(t)
<1>1. /\ Top(s).stackBase \in Nat /\ Len(s.frames) \in Nat /\ Len(s.frames) >= 1
      /\ Len(t.stack) \in Nat
  BY TopOfSound, LenProperties DEF Storage
<1>2. ASSUME NEW i \in 1 .. Len(s.frames)
      PROVE  s.frames[i].stackBase <= Len(t.stack)
  <2>1. s.frames[i].stackBase \in Nat
    BY FramesOfSound
  <2>2. s.frames[i].stackBase <= Top(s).stackBase
    BY <1>1 DEF Sound, Top
  <2> QED BY <2>1, <2>2, <1>1
<1> QED BY <1>2 DEF Sound

\* A store to dynamic memory, the table of globals included.
LEMMA NewMemorySound ==
  ASSUME NEW s, Sound(s), NEW contents \in [Cell -> Word]
  PROVE  /\ Sound([s EXCEPT !.mem = contents])
         /\ Within(s, [s EXCEPT !.mem = contents])
<1> DEFINE t == [s EXCEPT !.mem = contents]
<1>1. t \in Storage /\ t.frames = s.frames /\ t.stack = s.stack
  BY DEF Sound, Storage
<1>2. Top(s).stackBase <= Len(s.stack) /\ Len(s.stack) <= MaxStack
  BY TopOfSound
<1> HIDE DEF t
<1>3. Sound(t)
  BY <1>1, <1>2, NewStackSound
<1>4. Within(s, t)
  BY <1>1, SameFramesWithin
<1> QED BY <1>3, <1>4 DEF t

LEMMA SetGlobalSound ==
  ASSUME NEW s, Sound(s), NEW number \in Variable, number > MaxLocals, NEW value \in Word
  PROVE  Sound(SetGlobal(number, value, s)) /\ Within(s, SetGlobal(number, value, s))
<1>1. GlobalAddress(number) \in Cell
  BY MemoryAssumption, RoutinesAssumption DEF GlobalAddress, Variable, VariableCount, Cell
<1>2. s.mem \in [Cell -> Word]
  BY TopOfSound
<1> DEFINE contents == [s.mem EXCEPT ![GlobalAddress(number)] = value]
<1>3. contents \in [Cell -> Word]
  BY <1>1, <1>2
<1>4. SetGlobal(number, value, s) = [s EXCEPT !.mem = contents]
  BY DEF SetGlobal
<1> HIDE DEF contents
<1>5. Sound([s EXCEPT !.mem = contents]) /\ Within(s, [s EXCEPT !.mem = contents])
  BY <1>3, NewMemorySound
<1> QED BY <1>4, <1>5

\* push, within the limit.
LEMMA PushSound ==
  ASSUME NEW s, Sound(s), NEW value \in Word, Len(s.stack) < MaxStack
  PROVE  /\ Sound([s EXCEPT !.stack = Append(@, value)])
         /\ Within(s, [s EXCEPT !.stack = Append(@, value)])
<1> DEFINE t == [s EXCEPT !.stack = Append(@, value)]
<1>1. /\ Top(s).stackBase \in 0 .. Len(s.stack) /\ Len(s.stack) \in 0 .. MaxStack
      /\ s.stack \in Seq(Word)
  BY TopOfSound
<1>2. t.frames = s.frames /\ t.stack = Append(s.stack, value) /\ t \in Storage
  BY <1>1, AppendProperties DEF Sound, Storage
<1>3. /\ Len(t.stack) = Len(s.stack) + 1
      /\ \A k \in 1 .. Len(s.stack) : t.stack[k] = s.stack[k]
  BY <1>1, <1>2, AppendProperties
<1> HIDE DEF t
<1>4. Sound(t)
  BY <1>1, <1>2, <1>3, NewStackSound, RoutinesAssumption
<1>5. Within(s, t)
  BY <1>1, <1>2, <1>3, SameFramesWithin
<1> QED BY <1>4, <1>5 DEF t

\* replaceTop, of a word the current routine owns.
LEMMA ReplaceTopSound ==
  ASSUME NEW s, Sound(s), NEW value \in Word, Depth(s) > 0
  PROVE  /\ Sound([s EXCEPT !.stack[Len(s.stack)] = value])
         /\ Within(s, [s EXCEPT !.stack[Len(s.stack)] = value])
<1> DEFINE t == [s EXCEPT !.stack[Len(s.stack)] = value]
<1>1. /\ Top(s).stackBase \in 0 .. Len(s.stack) /\ Len(s.stack) \in 0 .. MaxStack
      /\ s.stack \in Seq(Word) /\ Len(s.stack) > Top(s).stackBase
      /\ Len(s.stack) \in 1 .. Len(s.stack)
  BY TopOfSound, RoutinesAssumption DEF Depth
<1>2. t.frames = s.frames /\ t.stack = [s.stack EXCEPT ![Len(s.stack)] = value]
  BY DEF Sound, Storage
<1>3. /\ t.stack \in Seq(Word) /\ Len(t.stack) = Len(s.stack)
      /\ \A k \in 1 .. Len(s.stack) : k # Len(s.stack) => t.stack[k] = s.stack[k]
  BY <1>1, <1>2, ExceptSeq
<1>4. t \in Storage
  BY <1>2, <1>3 DEF Sound, Storage
<1> HIDE DEF t
<1>5. Sound(t)
  BY <1>1, <1>2, <1>3, <1>4, NewStackSound
<1>6. Within(s, t)
  BY <1>1, <1>2, <1>3, SameFramesWithin
<1> QED BY <1>5, <1>6 DEF t

\* writeVariable and writeVariableIndirect.
LEMMA WriteVariableSound ==
  ASSUME NEW s, Sound(s), NEW number \in Variable, NEW value \in Word,
         CanWriteVariable(number, s)
  PROVE  /\ Sound(WriteVariable(number, value, s))
         /\ Within(s, WriteVariable(number, value, s))
<1>1. CASE number = StackPointer
  <2>1. WriteVariable(number, value, s) = [s EXCEPT !.stack = Append(@, value)]
    BY <1>1, RoutinesAssumption DEF WriteVariable, StackPointer, Local
  <2> QED BY <1>1, <2>1, PushSound DEF CanWriteVariable
<1>2. CASE number \in Local
  BY <1>2, SetLocalSound DEF WriteVariable, CanWriteVariable, StackPointer, Local
<1>3. CASE number # StackPointer /\ number \notin Local
  <2>1. number > MaxLocals
    BY <1>3, MemoryAssumption, RoutinesAssumption
       DEF Variable, VariableCount, StackPointer, Local
  <2> QED BY <1>3, <2>1, SetGlobalSound DEF WriteVariable
<1> QED BY <1>1, <1>2, <1>3

LEMMA WriteIndirectSound ==
  ASSUME NEW s, Sound(s), NEW number \in Variable, NEW value \in Word,
         CanReachIndirect(number, s)
  PROVE  /\ Sound(WriteIndirect(number, value, s))
         /\ Within(s, WriteIndirect(number, value, s))
<1>1. CASE number = StackPointer
  <2>1. WriteIndirect(number, value, s) = [s EXCEPT !.stack[Len(s.stack)] = value]
    BY <1>1, RoutinesAssumption DEF WriteIndirect, StackPointer, Local
  <2> QED BY <1>1, <2>1, ReplaceTopSound DEF CanReachIndirect
<1>2. CASE number \in Local
  BY <1>2, SetLocalSound DEF WriteIndirect, CanReachIndirect, StackPointer, Local
<1>3. CASE number # StackPointer /\ number \notin Local
  <2>1. number > MaxLocals
    BY <1>3, MemoryAssumption, RoutinesAssumption
       DEF Variable, VariableCount, StackPointer, Local
  <2> QED BY <1>3, <2>1, SetGlobalSound DEF WriteIndirect
<1> QED BY <1>1, <1>2, <1>3

-----------------------------------------------------------------------------
\* Several changes within one routine are one change within it.
LEMMA WithinTransitive ==
  ASSUME NEW s, NEW t, NEW u, Sound(s), Sound(t), Within(s, t), Within(t, u)
  PROVE  Within(s, u)
<1>1. /\ Top(s) \in Frame /\ Top(t) \in Frame
      /\ [Top(t) EXCEPT !.locals = Top(s).locals] = Top(s)
      /\ [Top(u) EXCEPT !.locals = Top(t).locals] = Top(t)
  BY TopOfSound DEF Within
<1>2. Top(t).stackBase = Top(s).stackBase
  BY <1>1 DEF Frame
<1>3. [Top(u) EXCEPT !.locals = Top(s).locals] = Top(s)
  BY <1>1 DEF Frame
<1> QED BY <1>2, <1>3 DEF Within

LEMMA WithinReflexive ==
  ASSUME NEW s, Sound(s)
  PROVE  Within(s, s)
BY SameFramesWithin

\* The watermark of the current routine does not move.
LEMMA WithinTop ==
  ASSUME NEW s, NEW t, Sound(s), Sound(t), Within(s, t)
  PROVE  /\ Top(t).stackBase = Top(s).stackBase
         /\ Len(t.frames) = Len(s.frames)
         /\ Top(s).stackBase \in 0 .. Len(t.stack)
<1>1. /\ Top(s) \in Frame /\ Top(t) \in Frame
      /\ [Top(t) EXCEPT !.locals = Top(s).locals] = Top(s)
      /\ Top(t).stackBase \in 0 .. Len(t.stack)
  BY TopOfSound DEF Within
<1>2. Top(t).stackBase = Top(s).stackBase
  BY <1>1 DEF Frame
<1> QED BY <1>1, <1>2 DEF Within

\* CallerUntouched, of the storage before and after an instruction.
Keeps(s, t) ==
    /\ Top(s).stackBase <= Len(t.stack)
    /\ \A k \in 1 .. Top(s).stackBase : t.stack[k] = s.stack[k]
    /\ Len(t.frames) >= Len(s.frames) - 1
    /\ \A i \in 1 .. Len(s.frames) - 1 :
          /\ i < Len(t.frames) => t.frames[i] = s.frames[i]
          /\ [t.frames[i] EXCEPT !.locals = s.frames[i].locals] = s.frames[i]

LEMMA WithinKeeps ==
  ASSUME NEW s, NEW t, Sound(s), Sound(t), Within(s, t)
  PROVE  Keeps(s, t)
<1>1. \A i \in 1 .. Len(s.frames) - 1 :
         [s.frames[i] EXCEPT !.locals = s.frames[i].locals] = s.frames[i]
  <2> SUFFICES ASSUME NEW i \in 1 .. Len(s.frames) - 1
               PROVE  [s.frames[i] EXCEPT !.locals = s.frames[i].locals] = s.frames[i]
    OBVIOUS
  <2>1. s.frames[i] \in Frame
    BY FramesOfSound, TopOfSound
  <2> QED BY <2>1 DEF Frame
<1>2. /\ Top(s).stackBase <= Len(t.stack) /\ Len(t.frames) = Len(s.frames)
      /\ Len(s.frames) \in Nat
  BY WithinTop, TopOfSound
<1> QED BY <1>1, <1>2 DEF Within, Keeps

\* returnFromRoutine drops the frame and what the routine pushed.
LEMMA ReturnedSound ==
  ASSUME NEW s, Sound(s), CanReturn(s)
  PROVE  /\ Sound(Returned(s))
         /\ Len(Returned(s).frames) = Len(s.frames) - 1
         /\ \A i \in 1 .. Len(s.frames) - 1 : Returned(s).frames[i] = s.frames[i]
         /\ Len(Returned(s).stack) = Top(s).stackBase
         /\ \A k \in 1 .. Top(s).stackBase : Returned(s).stack[k] = s.stack[k]
<1> DEFINE t == Returned(s)
           n == Len(s.frames)
<1>1. /\ s.frames \in Seq(Frame) /\ s.stack \in Seq(Word) /\ n \in Nat /\ n >= 2
      /\ Top(s).stackBase \in 0 .. Len(s.stack) /\ Len(s.stack) \in 0 .. MaxStack
      /\ Top(s) = s.frames[n]
  BY TopOfSound DEF CanReturn, Top
<1>2. /\ t.frames = SubSeq(s.frames, 1, n - 1)
      /\ t.stack = SubSeq(s.stack, 1, Top(s).stackBase) /\ t.mem = s.mem
  BY DEF Returned, Sound, Storage
<1>3. /\ \A i \in 1 .. n - 1 : s.frames[i] \in Frame
      /\ \A k \in 1 .. Top(s).stackBase : s.stack[k] \in Word
  <2>1. \A i \in 1 .. n - 1 : s.frames[i] \in Frame
    BY <1>1, FramesOfSound
  <2>2. \A k \in 1 .. Len(s.stack) : s.stack[k] \in Word
    BY <1>1, ElementOfSeq
  <2> QED BY <1>1, <2>1, <2>2
<1>4. n \in 1 .. MaxDepth /\ s.frames[1] = BaseFrame
  BY DEF Sound
<1>5. t \in Storage <=> t.frames \in Seq(Frame) /\ t.stack \in Seq(Word)
  BY DEF Returned, Sound, Storage
<1> HIDE DEF t, n
<1>6. /\ t.frames \in Seq(Frame) /\ Len(t.frames) = n - 1
      /\ \A i \in 1 .. n - 1 : t.frames[i] = s.frames[i]
  BY <1>1, <1>2, <1>3, SubSeqProperties
<1>7. /\ t.stack \in Seq(Word) /\ Len(t.stack) = Top(s).stackBase
      /\ \A k \in 1 .. Top(s).stackBase : t.stack[k] = s.stack[k]
  BY <1>1, <1>2, <1>3, SubSeqProperties
<1>8. \A i, j \in 1 .. n : i <= j => s.frames[i].stackBase <= s.frames[j].stackBase
  BY DEF Sound, n
<1>9. Sound(t)
  <2>1. t \in Storage
    BY <1>5, <1>6, <1>7
  <2>2. Len(t.frames) \in 1 .. MaxDepth /\ t.frames[1] = BaseFrame
    BY <1>1, <1>4, <1>6, RoutinesAssumption
  <2>3. Len(t.stack) <= MaxStack
    BY <1>1, <1>7, RoutinesAssumption
  <2>4. \A i \in 1 .. Len(t.frames) : t.frames[i].stackBase <= Len(t.stack)
    <3> SUFFICES ASSUME NEW i \in 1 .. n - 1
                 PROVE  s.frames[i].stackBase <= s.frames[n].stackBase
      BY <1>1, <1>6, <1>7
    <3> QED BY <1>1, <1>8
  <2>5. \A i, j \in 1 .. Len(t.frames) :
           i <= j => t.frames[i].stackBase <= t.frames[j].stackBase
    <3> SUFFICES ASSUME NEW i \in 1 .. n - 1, NEW j \in 1 .. n - 1, i <= j
                 PROVE  t.frames[i].stackBase <= t.frames[j].stackBase
      BY <1>6
    <3>1. s.frames[i].stackBase <= s.frames[j].stackBase
      BY <1>1, <1>8
    <3> QED BY <3>1, <1>6
  <2>6. \A i \in 1 .. Len(t.frames) : \A l \in Local :
           l > t.frames[i].numLocals => t.frames[i].locals[l] = 0
    <3> SUFFICES ASSUME NEW i \in 1 .. n - 1, NEW l \in Local,
                        l > t.frames[i].numLocals
                 PROVE  t.frames[i].locals[l] = 0
      BY <1>6
    <3>1. i \in 1 .. Len(s.frames) /\ t.frames[i] = s.frames[i]
      BY <1>1, <1>6 DEF n
    <3> QED BY <3>1 DEF Sound
  <2> QED BY <2>1, <2>2, <2>3, <2>4, <2>5, <2>6 DEF Sound
<1> QED BY <1>6, <1>7, <1>9 DEF t, n

\* writeVariable pushes or leaves the stack alone: unlike the indirect references
\* it never replaces a word.
LEMMA WriteVariableKeepsStack ==
  ASSUME NEW s, Sound(s), NEW number \in Variable, NEW value \in Word
  PROVE  /\ Len(s.stack) <= Len(WriteVariable(number, value, s).stack)
         /\ \A k \in 1 .. Len(s.stack) :
               WriteVariable(number, value, s).stack[k] = s.stack[k]
<1> DEFINE t == WriteVariable(number, value, s)
<1>1. s.stack \in Seq(Word) /\ Len(s.stack) \in Nat
  BY TopOfSound, LenProperties
<1>2. t.stack = s.stack \/ t.stack = Append(s.stack, value)
  <2>1. CASE number = StackPointer
    <3>1. number \notin Local
      BY <2>1, RoutinesAssumption DEF StackPointer, Local
    <3> QED BY <2>1, <3>1 DEF WriteVariable, Sound, Storage
  <2>2. CASE number \in Local
    <3>1. number # StackPointer
      BY <2>2, RoutinesAssumption DEF StackPointer, Local
    <3> QED BY <2>2, <3>1 DEF WriteVariable, SetLocal, Sound, Storage
  <2>3. CASE number # StackPointer /\ number \notin Local
    BY <2>3 DEF WriteVariable, SetGlobal, Sound, Storage
  <2> QED BY <2>1, <2>2, <2>3
<1> HIDE DEF t
<1>3. CASE t.stack = s.stack
  BY <1>1, <1>3 DEF t
<1>4. CASE t.stack = Append(s.stack, value)
  <2>1. /\ Len(t.stack) = Len(s.stack) + 1
        /\ \A k \in 1 .. Len(s.stack) : t.stack[k] = s.stack[k]
    BY <1>1, <1>4, AppendProperties
  <2> QED BY <1>1, <2>1 DEF t
<1> QED BY <1>2, <1>3, <1>4

\* Returning, and delivering a result to the caller, changes nothing the
\* callers own.
LEMMA DeliveredKeeps ==
  ASSUME NEW s, NEW t, NEW u, Sound(s), Sound(t), Sound(u),
         Within(s, t), CanReturn(t), Within(Returned(t), u),
         Len(Returned(t).stack) <= Len(u.stack),
         \A k \in 1 .. Len(Returned(t).stack) : u.stack[k] = Returned(t).stack[k]
  PROVE  Keeps(s, u)
<1> DEFINE r == Returned(t)
           n == Len(s.frames)
<1>1. /\ Len(t.frames) = n /\ n \in Nat /\ n >= 2
      /\ Top(t).stackBase = Top(s).stackBase /\ Top(s).stackBase \in Nat
  BY WithinTop, TopOfSound DEF CanReturn
<1>2. /\ Sound(r) /\ Len(r.frames) = n - 1
      /\ \A i \in 1 .. n - 1 : r.frames[i] = t.frames[i]
      /\ Len(r.stack) = Top(s).stackBase
      /\ \A k \in 1 .. Top(s).stackBase : r.stack[k] = t.stack[k]
  BY <1>1, ReturnedSound
<1>3. /\ \A i \in 1 .. n - 1 : t.frames[i] = s.frames[i]
      /\ \A k \in 1 .. Top(s).stackBase : t.stack[k] = s.stack[k]
  BY DEF Within
<1>4. \A i \in 1 .. n - 1 : s.frames[i] \in Frame
  BY <1>1, FramesOfSound
<1> HIDE DEF r
<1>5. /\ Len(u.frames) = n - 1
      /\ \A i \in 1 .. n - 2 : u.frames[i] = r.frames[i]
      /\ [Top(u) EXCEPT !.locals = Top(r).locals] = Top(r)
      /\ Len(r.stack) <= Len(u.stack)
      /\ \A k \in 1 .. Len(r.stack) : u.stack[k] = r.stack[k]
  BY <1>1, <1>2 DEF Within, r
<1> HIDE DEF n
<1>6. /\ Top(s).stackBase <= Len(u.stack)
      /\ \A k \in 1 .. Top(s).stackBase : u.stack[k] = s.stack[k]
  BY <1>2, <1>3, <1>5
<1>7. ASSUME NEW i \in 1 .. n - 1
      PROVE  /\ i < Len(u.frames) => u.frames[i] = s.frames[i]
             /\ [u.frames[i] EXCEPT !.locals = s.frames[i].locals] = s.frames[i]
  <2>1. r.frames[i] = s.frames[i] /\ s.frames[i] \in Frame
    BY <1>2, <1>3, <1>4
  <2>2. CASE i = n - 1
    <3>1. u.frames[i] = Top(u) /\ r.frames[i] = Top(r)
      BY <2>2, <1>2, <1>5 DEF Top
    <3>2. [u.frames[i] EXCEPT !.locals = s.frames[i].locals] = s.frames[i]
      BY <3>1, <2>1, <1>5
    <3> QED BY <3>2, <2>2, <1>1, <1>5
  <2>3. CASE i # n - 1
    <3>1. u.frames[i] = s.frames[i]
      BY <2>1, <2>3, <1>1, <1>5
    <3>2. [s.frames[i] EXCEPT !.locals = s.frames[i].locals] = s.frames[i]
      BY <2>1 DEF Frame
    <3> QED BY <3>1, <3>2
  <2> QED BY <2>2, <2>3
<1>8. Len(u.frames) >= n - 1
  BY <1>1, <1>5
<1> QED BY <1>6, <1>7, <1>8 DEF Keeps, n

\* callRoutine, within the depth limit, puts a frame on the chain whose
\* watermark is the height of the stack.
LEMMA CalledSound ==
  ASSUME NEW s, Sound(s), Len(s.frames) < MaxDepth,
         NEW args \in Seq(Word), Len(args) <= MaxArguments,
         NEW returnPC \in Address, NEW store \in Variable,
         NEW count \in 0 .. MaxLocals, NEW initial \in [Local -> Word]
  PROVE  /\ Sound(Called(s, args, returnPC, store, count, initial))
         /\ Keeps(s, Called(s, args, returnPC, store, count, initial))
<1> DEFINE t == Called(s, args, returnPC, store, count, initial)
           n == Len(s.frames)
           locals == [l \in Local |->
                         IF l > count THEN 0
                         ELSE IF l <= Len(args) THEN args[l] ELSE initial[l]]
           f == [ returnPC |-> returnPC, locals |-> locals, numLocals |-> count,
                  argCount |-> Len(args), stackBase |-> Len(s.stack),
                  store |-> store, hasStore |-> TRUE ]
<1>1. /\ s.frames \in Seq(Frame) /\ n \in Nat /\ n >= 1
      /\ Len(s.stack) \in 0 .. MaxStack /\ Len(args) \in Nat
      /\ Top(s).stackBase \in 0 .. Len(s.stack)
  BY TopOfSound, LenProperties
<1>2. t.frames = Append(s.frames, f) /\ t.stack = s.stack /\ t.mem = s.mem
  BY DEF Called, Sound, Storage
<1>3. locals \in [Local -> Word]
  <2> SUFFICES ASSUME NEW l \in Local
               PROVE  (IF l > count THEN 0
                       ELSE IF l <= Len(args) THEN args[l] ELSE initial[l]) \in Word
    OBVIOUS
  <2>1. l \in Nat \ {0} /\ 0 \in Word
    BY RoutinesAssumption, MemoryAssumption DEF Local, Word
  <2>2. CASE l <= Len(args)
    BY <1>1, <2>1, <2>2, ElementOfSeq
  <2> QED BY <2>1, <2>2
<1>4. f \in Frame
  BY <1>1, <1>3, RoutinesAssumption DEF Frame
<1>5. t \in Storage <=> t.frames \in Seq(Frame)
  BY DEF Called, Sound, Storage
<1>6. f.stackBase = Len(s.stack) /\ \A l \in Local : l > f.numLocals => f.locals[l] = 0
  BY <1>1
<1> HIDE DEF t, f, locals
<1>7. /\ t.frames \in Seq(Frame) /\ Len(t.frames) = n + 1 /\ t.frames[n + 1] = f
      /\ \A i \in 1 .. n : t.frames[i] = s.frames[i]
  BY <1>1, <1>2, <1>4, AppendProperties
<1>8. \A i, j \in 1 .. n : i <= j => s.frames[i].stackBase <= s.frames[j].stackBase
  BY DEF Sound
<1>9. /\ \A i \in 1 .. n : s.frames[i].stackBase <= Len(s.stack)
      /\ \A i \in 1 .. n : \A l \in Local :
            l > s.frames[i].numLocals => s.frames[i].locals[l] = 0
      /\ s.frames[1] = BaseFrame
  BY DEF Sound
<1>10. \A i \in 1 .. n : s.frames[i] \in Frame
  BY FramesOfSound
<1>11. n < MaxDepth
  OBVIOUS
<1>12. Top(s) = s.frames[n]
  BY DEF Top
<1> HIDE DEF n
<1>13. Sound(t)
  <2>1. t \in Storage /\ Len(t.frames) \in 1 .. MaxDepth /\ Len(t.stack) <= MaxStack
    BY <1>1, <1>2, <1>5, <1>7, <1>11, RoutinesAssumption
  <2>2. t.frames[1] = BaseFrame
    BY <1>1, <1>7, <1>9
  <2>3. ASSUME NEW i \in 1 .. n + 1
        PROVE  t.frames[i].stackBase <= Len(t.stack)
    BY <1>1, <1>2, <1>6, <1>7, <1>9
  <2>4. ASSUME NEW i \in 1 .. n + 1, NEW j \in 1 .. n + 1, i <= j
        PROVE  t.frames[i].stackBase <= t.frames[j].stackBase
    <3>1. CASE j = n + 1
      BY <3>1, <2>3, <1>1, <1>2, <1>6, <1>7
    <3>2. CASE j # n + 1
      <4>1. i \in 1 .. n /\ j \in 1 .. n
        BY <3>2, <2>4, <1>1
      <4>2. s.frames[i].stackBase <= s.frames[j].stackBase
        BY <4>1, <2>4, <1>8
      <4> QED BY <4>1, <4>2, <1>7
    <3> QED BY <3>1, <3>2
  <2>5. ASSUME NEW i \in 1 .. n + 1, NEW l \in Local, l > t.frames[i].numLocals
        PROVE  t.frames[i].locals[l] = 0
    <3>1. CASE i = n + 1
      BY <3>1, <2>5, <1>6, <1>7
    <3>2. CASE i # n + 1
      <4>1. i \in 1 .. n
        BY <3>2, <2>5, <1>1
      <4> QED BY <4>1, <2>5, <1>7, <1>9
    <3> QED BY <3>1, <3>2
  <2> QED BY <2>1, <2>2, <2>3, <2>4, <2>5, <1>7 DEF Sound
<1>14. Keeps(s, t)
  <2>1. \A i \in 1 .. n - 1 : [s.frames[i] EXCEPT !.locals = s.frames[i].locals] = s.frames[i]
    <3> SUFFICES ASSUME NEW i \in 1 .. n - 1
                 PROVE  [s.frames[i] EXCEPT !.locals = s.frames[i].locals] = s.frames[i]
      OBVIOUS
    <3>1. s.frames[i] \in Frame
      BY <1>1, <1>10
    <3> QED BY <3>1 DEF Frame
  <2> QED BY <2>1, <1>1, <1>2, <1>7 DEF Keeps, n
<1> QED BY <1>13, <1>14 DEF t

-----------------------------------------------------------------------------
\* Evaluating operands: the words popped are the current routine's, and every
\* operand is a word.

LEMMA PopsType ==
  ASSUME NEW operands, NEW n \in Nat
  PROVE  /\ Pops(operands, n) \in Nat
         /\ n = 0 => Pops(operands, n) = 0
         /\ n > 0 /\ NamesStack(operands[n]) => Pops(operands, n) > 0
<1> DEFINE popping == {i \in 1 .. n : NamesStack(operands[i])}
<1>1. IsFiniteSet(1 .. n)
  BY FS_Interval
<1>2. IsFiniteSet(popping) /\ Cardinality(popping) \in Nat
  BY <1>1, FS_Subset, FS_CardinalityType
<1>3. n = 0 => popping = {}
  OBVIOUS
<1>4. n > 0 /\ NamesStack(operands[n]) => n \in popping
  OBVIOUS
<1>5. Cardinality(popping) = 0 <=> popping = {}
  BY <1>2, FS_EmptySet
<1> QED BY <1>2, <1>3, <1>4, <1>5 DEF Pops

LEMMA ReadIndirectType ==
  ASSUME NEW s, Sound(s), NEW number \in Variable, CanReachIndirect(number, s)
  PROVE  ReadIndirect(number, s) \in Word
<1>1. CASE number = StackPointer
  <2>1. Len(s.stack) \in 1 .. Len(s.stack) /\ s.stack \in Seq(Word)
    BY <1>1, TopOfSound DEF CanReachIndirect
  <2>2. s.stack[Len(s.stack)] \in Word
    BY <2>1, ElementOfSeq
  <2> QED BY <1>1, <2>2, RoutinesAssumption DEF ReadIndirect, StackPointer, Local
<1>2. CASE number \in Local
  <2>1. Top(s).locals \in [Local -> Word]
    BY TopOfSound DEF Frame
  <2> QED BY <1>2, <2>1, RoutinesAssumption DEF ReadIndirect, StackPointer, Local
<1>3. CASE number # StackPointer /\ number \notin Local
  <2>1. GlobalAddress(number) \in Cell
    BY <1>3, MemoryAssumption, RoutinesAssumption
       DEF GlobalAddress, Variable, VariableCount, Cell, StackPointer, Local
  <2>2. s.mem \in [Cell -> Word]
    BY TopOfSound
  <2> QED BY <1>3, <2>1, <2>2 DEF ReadIndirect
<1> QED BY <1>1, <1>2, <1>3

LEMMA OperandsType ==
  ASSUME NEW least \in Nat, NEW most \in Nat, NEW operands \in Operands(least, most)
  PROVE  /\ Len(operands) \in least .. most
         /\ \A i \in 1 .. Len(operands) : operands[i] \in Operand
<1>1. PICK n \in least .. most : operands \in [1 .. n -> Operand]
  BY DEF Operands
<1>2. Len(operands) = n /\ operands \in Seq(Operand)
  BY <1>1, SeqDef
<1> QED BY <1>1, <1>2

\* The operands up to the n-th, all of which can be read, leave the stack above
\* the watermark.
LEMMA AfterOperandsSound ==
  ASSUME Sound(Current), NEW operands, NEW n \in Nat,
         n > 0 => Available(operands, n)
  PROVE  /\ Sound(AfterOperands(operands, n))
         /\ Within(Current, AfterOperands(operands, n))
         /\ \E k \in 0 .. Depth(Current) : AfterOperands(operands, n) = Dropped(Current, k)
<1>1. Pops(operands, n) \in 0 .. Depth(Current)
  BY PopsType, TopOfSound DEF Available
<1> QED BY <1>1, DroppedSound, DroppedWithin DEF AfterOperands

LEMMA EvaluatedSound ==
  ASSUME Sound(Current), NEW least \in Nat, NEW most \in Nat,
         NEW operands \in Operands(least, most), CanEvaluate(operands)
  PROVE  /\ Sound(Evaluated(operands))
         /\ Within(Current, Evaluated(operands))
         /\ \E n \in 0 .. Depth(Current) : Evaluated(operands) = Dropped(Current, n)
<1>1. Len(operands) \in Nat
  BY OperandsType
<1>2. Len(operands) > 0 => Available(operands, Len(operands))
  BY <1>1 DEF CanEvaluate
<1> QED BY <1>1, <1>2, AfterOperandsSound DEF Evaluated

LEMMA OperandValueType ==
  ASSUME Sound(Current), NEW least \in Nat, NEW most \in Nat,
         NEW operands \in Operands(least, most), CanEvaluate(operands),
         NEW i \in 1 .. Len(operands)
  PROVE  OperandValue(operands, i) \in Word
<1> DEFINE o == operands[i]
<1>1. o \in Operand /\ Available(operands, i) /\ i \in Nat /\ i > 0
  BY OperandsType DEF CanEvaluate
<1>2. CASE o.kind = "constant"
  <2>1. OperandValue(operands, i) = o.value
    BY <1>2 DEF OperandValue, NamesStack
  <2>2. o.value \in Word
    BY <1>1, <1>2 DEF Operand
  <2> QED BY <2>1, <2>2
<1>3. CASE NamesStack(o)
  <2>1. OperandValue(operands, i) = stack[Len(stack) - Pops(operands, i) + 1]
    BY <1>3 DEF OperandValue, NamesStack
  <2>2. Pops(operands, i) \in Nat /\ Pops(operands, i) > 0
    BY <1>1, <1>3, PopsType
  <2>3. /\ Pops(operands, i) <= Depth(Current) /\ Depth(Current) \in 0 .. Len(Current.stack)
        /\ Current.stack \in Seq(Word) /\ Len(Current.stack) \in Nat
    BY <1>1, TopOfSound DEF Available
  <2>4. Current.stack = stack
    BY DEF Current
  <2>5. Len(stack) - Pops(operands, i) + 1 \in 1 .. Len(stack)
    BY <2>2, <2>3, <2>4
  <2> QED BY <2>1, <2>3, <2>4, <2>5, ElementOfSeq
<1>4. CASE o.kind # "constant" /\ ~NamesStack(o)
  <2>1. /\ o.kind = "variable" /\ o.value \in Variable
        /\ o = [kind |-> "variable", value |-> o.value]
    BY <1>1, <1>4 DEF Operand
  <2>2. o.value # StackPointer
    BY <1>4, <2>1 DEF NamesStack
  <2>3. OperandValue(operands, i) = ReadIndirect(o.value, Current)
    BY <1>4 DEF OperandValue
  <2>4. CanReachIndirect(o.value, Current)
    BY <1>1, <2>1, <2>2 DEF Available, CanReachIndirect
  <2> QED BY <2>1, <2>3, <2>4, ReadIndirectType
<1> QED BY <1>2, <1>3, <1>4

\* What an instruction has once its operands are evaluated.
LEMMA OperandsEvaluated ==
  ASSUME Sound(Current), NEW least \in {0, 1, 2}, NEW most \in Nat,
         NEW operands \in Operands(least, most), CanEvaluate(operands)
  PROVE  /\ Sound(Evaluated(operands)) /\ Within(Current, Evaluated(operands))
         /\ least >= 1 => OperandValue(operands, 1) \in Word
         /\ least >= 2 => OperandValue(operands, 2) \in Word
<1>1. least \in Nat
  OBVIOUS
<1>2. Len(operands) \in least .. most
  BY <1>1, OperandsType
<1>3. least >= 1 => 1 \in 1 .. Len(operands)
  BY <1>1, <1>2
<1>4. least >= 2 => 2 \in 1 .. Len(operands)
  BY <1>1, <1>2
<1>5. \A i \in 1 .. Len(operands) : OperandValue(operands, i) \in Word
  BY <1>1, OperandValueType
<1>6. Sound(Evaluated(operands)) /\ Within(Current, Evaluated(operands))
  BY <1>1, EvaluatedSound
<1> QED BY <1>3, <1>4, <1>5, <1>6

LEMMA ReferenceType ==
  ASSUME NEW value \in Word
  PROVE  Reference(value) \in Variable
<1>1. value \in Int /\ VariableCount \in Nat /\ VariableCount > 0
  BY MemoryAssumption, RoutinesAssumption DEF Word, VariableCount
<1> QED BY <1>1 DEF Reference, Variable

-----------------------------------------------------------------------------
\* What became of the current routine of s, whose storage is t at the end of the
\* instruction: it returned (execution continues where its caller waits, and its
\* result may have reached the caller's stack, locals or a global), ...
Left(s, t, address) ==
    \E u : /\ Sound(u) /\ Within(s, u) /\ CanReturn(u)
           /\ address = Top(u).returnPC
           /\ \/ t = Returned(u)
              \/ \E number \in Variable, value \in Word :
                    /\ CanWriteVariable(number, Returned(u))
                    /\ t = WriteVariable(number, value, Returned(u))

\* ... or it popped its operands and called another, ...
Entered(s, t) ==
    \E n \in 0 .. Depth(s), args \in Seq(Word), returnPC \in Address,
       store \in Variable, count \in 0 .. MaxLocals, initial \in [Local -> Word] :
          /\ Len(s.frames) < MaxDepth
          /\ Len(args) <= MaxArguments
          /\ t = Called(Dropped(s, n), args, returnPC, store, count, initial)

\* ... or it is still the current one.
Passes(s, t, address) == Within(s, t) \/ Left(s, t, address) \/ Entered(s, t)

\* An instruction ends in a sound storage that keeps the callers' property.
Done ==
    \E t : /\ Sound(t) /\ Keeps(Current, t) /\ Commit(t)
           /\ Passes(Current, t, pc')
           /\ pc' \in Address /\ outcome' \in {"continue", "fault"}

LEMMA PassDone ==
  ASSUME Sound(Current), NEW s, Sound(s), Keeps(Current, s), NEW address \in Address,
         Passes(Current, s, address), Continue(s, address) \/ Refuse(s, address)
  PROVE  Done
BY DEF Done, Continue, Refuse

LEMMA EndDone ==
  ASSUME Sound(Current), NEW s, Sound(s), Within(Current, s), NEW address \in Address,
         Continue(s, address) \/ Refuse(s, address)
  PROVE  Done
BY WithinKeeps, PassDone DEF Passes

LEMMA StoreDone ==
  ASSUME Sound(Current), NEW s, Sound(s), Within(Current, s),
         NEW number \in Variable, NEW value \in Word, NEW address \in Address,
         StoreVariable(number, value, s, address)
  PROVE  Done
<1>1. CASE CanWriteVariable(number, s)
  <2>1. /\ Sound(WriteVariable(number, value, s))
        /\ Within(Current, WriteVariable(number, value, s))
    BY <1>1, WriteVariableSound, WithinTransitive
  <2> QED BY <1>1, <2>1, EndDone DEF StoreVariable
<1>2. CASE ~CanWriteVariable(number, s)
  BY <1>2, EndDone DEF StoreVariable
<1> QED BY <1>1, <1>2

LEMMA ReturnDone ==
  ASSUME Sound(Current), NEW s, Sound(s), Within(Current, s),
         NEW value \in Word, NEW address \in Address,
         ReturnFromRoutine(value, s, address)
  PROVE  Done
<1>1. CASE ~CanReturn(s)
  BY <1>1, EndDone DEF ReturnFromRoutine
<1>2. CASE CanReturn(s)
  <2> DEFINE r == Returned(s)
             f == Top(s)
             w == WriteVariable(f.store, value, r)
  <2>1. Sound(r) /\ Within(r, r)
    BY <1>2, ReturnedSound, WithinReflexive
  <2>2. f.returnPC \in Address /\ f.store \in Variable
    BY TopOfSound DEF Frame
  <2>3. Len(r.stack) \in Nat
    BY <2>1, TopOfSound
  <2>4. Keeps(Current, r) /\ Passes(Current, r, f.returnPC)
    BY <1>2, <2>1, <2>3, DeliveredKeeps DEF Passes, Left
  <2>5. CASE Continue(r, f.returnPC) \/ Refuse(r, f.returnPC)
    BY <2>1, <2>2, <2>4, <2>5, PassDone
  <2>6. CASE CanWriteVariable(f.store, r) /\ Continue(w, f.returnPC)
    <3>1. Sound(w) /\ Within(r, w)
      BY <2>1, <2>2, <2>6, WriteVariableSound
    <3>2. /\ Len(r.stack) <= Len(w.stack)
          /\ \A k \in 1 .. Len(r.stack) : w.stack[k] = r.stack[k]
      BY <2>1, <2>2, WriteVariableKeepsStack
    <3>3. Keeps(Current, w)
      BY <1>2, <3>1, <3>2, DeliveredKeeps
    <3>4. Passes(Current, w, f.returnPC)
      BY <1>2, <2>2, <2>6 DEF Passes, Left
    <3> QED BY <2>2, <2>6, <3>1, <3>3, <3>4, PassDone
  <2> QED BY <1>2, <2>5, <2>6 DEF ReturnFromRoutine, StoreVariable
<1> QED BY <1>1, <1>2

LEMMA TargetType == Target \subseteq Address
BY MemoryAssumption DEF Target, Address

LEMMA BranchDone ==
  ASSUME Sound(Current), NEW s, Sound(s), Within(Current, s), NEW address \in Address,
         Branch(s, address)
  PROVE  Done
<1>1. {0, 1} \subseteq Word
  BY MemoryAssumption DEF Word
<1>2. CASE Continue(s, address) \/ Refuse(s, address)
  BY <1>2, EndDone
<1>3. CASE \E value \in {0, 1} : ReturnFromRoutine(value, s, address)
  BY <1>1, <1>3, ReturnDone
<1>4. CASE \E target \in Target : Continue(s, target)
  BY <1>4, TargetType, EndDone
<1> QED BY <1>2, <1>3, <1>4 DEF Branch

LEMMA CallRoutineDone ==
  ASSUME Sound(Current), NEW s, Sound(s), Within(Current, s),
         NEW n \in 0 .. Depth(Current), s = Dropped(Current, n),
         NEW args \in Seq(Word), Len(args) <= MaxArguments,
         NEW returnPC \in Address, NEW store \in Variable,
         CallRoutine(args, s, returnPC, store)
  PROVE  Done
<1>1. CASE Refuse(s, returnPC)
  BY <1>1, EndDone
<1>2. ASSUME Len(s.frames) < MaxDepth, NEW count \in 0 .. MaxLocals,
             NEW initial \in [Local -> Word], NEW entry \in 1 .. StorySize,
             Continue(Called(s, args, returnPC, store, count, initial), entry)
      PROVE  Done
  <2> DEFINE c == Called(s, args, returnPC, store, count, initial)
  <2>1. Sound(c) /\ Keeps(s, c)
    BY <1>2, CalledSound
  <2>2. entry \in Address
    BY MemoryAssumption DEF Address
  <2>3. /\ Top(s).stackBase = Top(Current).stackBase
        /\ Len(s.frames) = Len(Current.frames) /\ Len(s.frames) \in Nat
        /\ \A i \in 1 .. Len(s.frames) - 1 : s.frames[i] = Current.frames[i]
        /\ \A k \in 1 .. Top(Current).stackBase : s.stack[k] = Current.stack[k]
    BY WithinTop, TopOfSound DEF Within
  <2>4. Entered(Current, c)
    BY <1>2, <2>3 DEF Entered
  <2> HIDE DEF c
  <2>5. Keeps(Current, c)
    BY <2>1, <2>3 DEF Keeps
  <2>6. Passes(Current, c, entry)
    BY <2>4 DEF Passes
  <2> QED BY <1>2, <2>1, <2>2, <2>5, <2>6, PassDone DEF c
<1> QED BY <1>1, <1>2 DEF CallRoutine

LEMMA FollowingAddressType ==
  ASSUME pc \in Address, NEW next \in FollowingAddress
  PROVE  next \in Address
BY MemoryAssumption DEF FollowingAddress, Address

LEMMA CallDone ==
  ASSUME Sound(Current), pc \in Address, Call
  PROVE  Done
<1>1. PICK next \in FollowingAddress, operands \in Operands(1, MaxOperands), store \in Variable :
        /\ CanEvaluate(operands)
        /\ \/ /\ OperandValue(operands, 1) = 0
              /\ StoreVariable(store, 0, Evaluated(operands), next)
           \/ /\ OperandValue(operands, 1) # 0
              /\ CallRoutine([i \in 1 .. Len(operands) - 1 |-> OperandValue(operands, i + 1)],
                             Evaluated(operands), next, store)
  BY DEF Call
<1> DEFINE args == [i \in 1 .. Len(operands) - 1 |-> OperandValue(operands, i + 1)]
<1>2. /\ next \in Address /\ 0 \in Word /\ MaxOperands \in Nat
      /\ MaxArguments \in Nat /\ MaxOperands <= MaxArguments + 1
  BY FollowingAddressType, MemoryAssumption, RoutinesAssumption DEF Word
<1>3. /\ Sound(Evaluated(operands)) /\ Within(Current, Evaluated(operands))
      /\ \E n \in 0 .. Depth(Current) : Evaluated(operands) = Dropped(Current, n)
  BY <1>1, <1>2, EvaluatedSound
<1>4. Len(operands) \in 1 .. MaxOperands
  BY <1>2, OperandsType
<1>5. \A i \in 1 .. Len(operands) : OperandValue(operands, i) \in Word
  BY <1>1, <1>2, OperandValueType
<1>6. \A i \in 1 .. Len(operands) - 1 : OperandValue(operands, i + 1) \in Word
  BY <1>2, <1>4, <1>5
<1>7. args \in [1 .. Len(operands) - 1 -> Word] /\ Len(operands) - 1 \in Nat
  BY <1>2, <1>4, <1>6
<1> HIDE DEF args
<1>8. args \in Seq(Word) /\ Len(args) = Len(operands) - 1
  BY <1>7, SeqDef
<1>9. CASE StoreVariable(store, 0, Evaluated(operands), next)
  BY <1>2, <1>3, <1>9, StoreDone
<1>10. CASE CallRoutine(args, Evaluated(operands), next, store)
  <2>1. Len(args) <= MaxArguments
    BY <1>2, <1>4, <1>8
  <2> QED BY <1>2, <1>3, <1>8, <1>10, <2>1, CallRoutineDone
<1> QED BY <1>1, <1>9, <1>10 DEF args

\* The instructions that take words off the stack besides their operands.
LEMMA PoppedSound ==
  ASSUME Sound(Current), NEW s, Sound(s), Within(Current, s), Depth(s) # 0
  PROVE  /\ Sound(Dropped(s, 1)) /\ Within(Current, Dropped(s, 1))
         /\ s.stack[Len(s.stack)] \in Word
<1>1. Depth(s) > 0 /\ 1 \in 0 .. Depth(s) /\ Len(s.stack) \in 1 .. Len(s.stack)
  BY TopOfSound
<1>2. s.stack[Len(s.stack)] \in Word
  BY <1>1, TopOfSound, ElementOfSeq
<1> QED BY <1>1, <1>2, DroppedSound, DroppedWithin, WithinTransitive

LEMMA RetPoppedDone ==
  ASSUME Sound(Current), pc \in Address, RetPopped
  PROVE  Done
<1>1. PICK next \in FollowingAddress :
        \/ Depth(Current) = 0 /\ Refuse(Current, next)
        \/ /\ Depth(Current) > 0
           /\ ReturnFromRoutine(stack[Len(stack)], Dropped(Current, 1), next)
  BY DEF RetPopped
<1>2. next \in Address /\ Within(Current, Current) /\ Current.stack = stack
  BY FollowingAddressType, WithinReflexive DEF Current
<1>3. CASE Depth(Current) = 0 /\ Refuse(Current, next)
  BY <1>2, <1>3, EndDone
<1>4. CASE /\ Depth(Current) > 0
           /\ ReturnFromRoutine(stack[Len(stack)], Dropped(Current, 1), next)
  BY <1>2, <1>4, PoppedSound, ReturnDone
<1> QED BY <1>1, <1>3, <1>4

LEMMA PopDone ==
  ASSUME Sound(Current), pc \in Address, Pop
  PROVE  Done
<1>1. PICK next \in FollowingAddress :
        \/ Depth(Current) = 0 /\ Refuse(Current, next)
        \/ Depth(Current) > 0 /\ Continue(Dropped(Current, 1), next)
  BY DEF Pop
<1>2. next \in Address /\ Within(Current, Current)
  BY FollowingAddressType, WithinReflexive
<1>3. CASE Depth(Current) = 0 /\ Refuse(Current, next)
  BY <1>2, <1>3, EndDone
<1>4. CASE Depth(Current) > 0 /\ Continue(Dropped(Current, 1), next)
  BY <1>2, <1>4, PoppedSound, EndDone
<1> QED BY <1>1, <1>3, <1>4

LEMMA PullDone ==
  ASSUME Sound(Current), pc \in Address, Pull
  PROVE  Done
<1>1. PICK next \in FollowingAddress, operands \in Operands(1, 1) :
        LET s == Evaluated(operands)
            popped == Dropped(s, 1)
            number == Reference(OperandValue(operands, 1))
        IN  /\ CanEvaluate(operands)
            /\ \/ Depth(s) = 0 /\ Refuse(s, next)
               \/ /\ Depth(s) > 0
                  /\ CanReachIndirect(number, popped)
                  /\ Continue(WriteIndirect(number, s.stack[Len(s.stack)], popped), next)
               \/ Depth(s) > 0 /\ ~CanReachIndirect(number, popped) /\ Refuse(popped, next)
  BY DEF Pull
<1> DEFINE s == Evaluated(operands)
           popped == Dropped(s, 1)
           number == Reference(OperandValue(operands, 1))
           w == WriteIndirect(number, s.stack[Len(s.stack)], popped)
<1>2. next \in Address /\ CanEvaluate(operands)
  BY <1>1, FollowingAddressType
<1>3. Sound(s) /\ Within(Current, s) /\ number \in Variable
  BY <1>2, OperandsEvaluated, ReferenceType
<1>4. CASE Depth(s) = 0 /\ Refuse(s, next)
  BY <1>2, <1>3, <1>4, EndDone
<1>5. CASE Depth(s) > 0 /\ CanReachIndirect(number, popped) /\ Continue(w, next)
  <2>1. Sound(popped) /\ Within(Current, popped) /\ s.stack[Len(s.stack)] \in Word
    BY <1>3, <1>5, PoppedSound
  <2>2. Sound(w) /\ Within(popped, w)
    BY <1>3, <1>5, <2>1, WriteIndirectSound
  <2>3. Within(Current, w)
    BY <2>1, <2>2, WithinTransitive
  <2> QED BY <1>2, <1>5, <2>2, <2>3, EndDone
<1>6. CASE Depth(s) > 0 /\ ~CanReachIndirect(number, popped) /\ Refuse(popped, next)
  BY <1>2, <1>3, <1>6, PoppedSound, EndDone
<1> QED BY <1>1, <1>4, <1>5, <1>6

LEMMA LoadDone ==
  ASSUME Sound(Current), pc \in Address, Load
  PROVE  Done
<1>1. PICK next \in FollowingAddress, operands \in Operands(1, 1), store \in Variable :
        LET s == Evaluated(operands)
            number == Reference(OperandValue(operands, 1))
        IN  /\ CanEvaluate(operands)
            /\ \/ ~CanReachIndirect(number, s) /\ Refuse(s, next)
               \/ /\ CanReachIndirect(number, s)
                  /\ StoreVariable(store, ReadIndirect(number, s), s, next)
  BY DEF Load
<1> DEFINE s == Evaluated(operands)
           number == Reference(OperandValue(operands, 1))
<1>2. next \in Address /\ CanEvaluate(operands)
  BY <1>1, FollowingAddressType
<1>3. Sound(s) /\ Within(Current, s) /\ number \in Variable
  BY <1>2, OperandsEvaluated, ReferenceType
<1>4. CASE Refuse(s, next)
  BY <1>2, <1>3, <1>4, EndDone
<1>5. CASE CanReachIndirect(number, s) /\ StoreVariable(store, ReadIndirect(number, s), s, next)
  BY <1>2, <1>3, <1>5, ReadIndirectType, StoreDone
<1> QED BY <1>1, <1>4, <1>5

LEMMA StoreInstructionDone ==
  ASSUME Sound(Current), pc \in Address, Store
  PROVE  Done
<1>1. PICK next \in FollowingAddress, operands \in Operands(2, 2) :
        LET s == Evaluated(operands)
            number == Reference(OperandValue(operands, 1))
        IN  /\ CanEvaluate(operands)
            /\ \/ ~CanReachIndirect(number, s) /\ Refuse(s, next)
               \/ /\ CanReachIndirect(number, s)
                  /\ Continue(WriteIndirect(number, OperandValue(operands, 2), s), next)
  BY DEF Store
<1> DEFINE s == Evaluated(operands)
           number == Reference(OperandValue(operands, 1))
           w == WriteIndirect(number, OperandValue(operands, 2), s)
<1>2. next \in Address /\ CanEvaluate(operands)
  BY <1>1, FollowingAddressType
<1>3. /\ Sound(s) /\ Within(Current, s) /\ number \in Variable
      /\ OperandValue(operands, 2) \in Word
  BY <1>2, OperandsEvaluated, ReferenceType
<1>4. CASE Refuse(s, next)
  BY <1>2, <1>3, <1>4, EndDone
<1>5. CASE CanReachIndirect(number, s) /\ Continue(w, next)
  <2>1. Sound(w) /\ Within(Current, w)
    BY <1>3, <1>5, WriteIndirectSound, WithinTransitive
  <2> QED BY <1>2, <1>5, <2>1, EndDone
<1> QED BY <1>1, <1>4, <1>5

LEMMA AdjustDone ==
  ASSUME Sound(Current), pc \in Address, Adjust
  PROVE  Done
<1>1. PICK next \in FollowingAddress, operands \in Operands(1, 2), delta \in {-1, 1} :
        LET s == Evaluated(operands)
            number == Reference(OperandValue(operands, 1))
            updated == WriteIndirect(number, Wrap(ReadIndirect(number, s) + delta), s)
        IN  /\ CanEvaluate(operands)
            /\ \/ ~CanReachIndirect(number, s) /\ Refuse(s, next)
               \/ /\ CanReachIndirect(number, s)
                  /\ IF Len(operands) = 1
                     THEN Continue(updated, next)
                     ELSE Branch(updated, next)
  BY DEF Adjust
<1> DEFINE s == Evaluated(operands)
           number == Reference(OperandValue(operands, 1))
           value == Wrap(ReadIndirect(number, s) + delta)
           updated == WriteIndirect(number, value, s)
<1>2. next \in Address /\ CanEvaluate(operands)
  BY <1>1, FollowingAddressType
<1>3. Sound(s) /\ Within(Current, s) /\ number \in Variable
  BY <1>2, OperandsEvaluated, ReferenceType
<1>4. CASE Refuse(s, next)
  BY <1>2, <1>3, <1>4, EndDone
<1>5. ASSUME CanReachIndirect(number, s), Continue(updated, next) \/ Branch(updated, next)
      PROVE  Done
  <2>1. ReadIndirect(number, s) \in Word
    BY <1>3, <1>5, ReadIndirectType
  <2>2. value \in Word
    <3>1. ReadIndirect(number, s) + delta \in Int
      BY <2>1, MemoryAssumption DEF Word
    <3> QED BY <3>1, MemoryAssumption DEF Wrap, Word
  <2>3. Sound(updated) /\ Within(Current, updated)
    BY <1>3, <1>5, <2>2, WriteIndirectSound, WithinTransitive
  <2> QED BY <1>2, <1>5, <2>3, EndDone, BranchDone
<1> QED BY <1>1, <1>4, <1>5

\* The instructions whose only part in this is to evaluate their operands and
\* then store, branch, jump, write to memory or be refused.
LEMMA OtherInstructionsDone ==
  ASSUME Sound(Current), pc \in Address,
         \/ Ret \/ PrintRet \/ Push \/ Compute \/ ComputeAndBranch
         \/ Test \/ Jump \/ UpdateMemory \/ IllegalInstruction
  PROVE  Done
<1>1. MaxOperands \in Nat
  BY RoutinesAssumption
<1>2. CASE Ret
  BY <1>2, FollowingAddressType, OperandsEvaluated, ReturnDone DEF Ret
<1>3. CASE Push
  <2>1. StackPointer \in Variable
    BY MemoryAssumption, RoutinesAssumption DEF Variable, VariableCount, StackPointer
  <2> QED BY <1>3, <2>1, FollowingAddressType, OperandsEvaluated, StoreDone DEF Push
<1>4. CASE Compute
  BY <1>1, <1>4, FollowingAddressType, OperandsEvaluated, StoreDone DEF Compute
<1>5. CASE ComputeAndBranch
  <2>1. PICK next \in FollowingAddress, operands \in Operands(1, 1),
             store \in Variable, value \in Word :
          LET s == Evaluated(operands)
          IN  /\ CanEvaluate(operands)
              /\ CanWriteVariable(store, s)
              /\ Branch(WriteVariable(store, value, s), next)
    BY <1>5 DEF ComputeAndBranch
  <2> DEFINE s == Evaluated(operands)
             w == WriteVariable(store, value, s)
  <2>2. Sound(s) /\ Within(Current, s)
    BY <2>1, OperandsEvaluated
  <2>3. Sound(w) /\ Within(Current, w)
    BY <2>1, <2>2, WriteVariableSound, WithinTransitive
  <2> QED BY <2>1, <2>3, FollowingAddressType, BranchDone
<1>6. CASE Test
  BY <1>1, <1>6, FollowingAddressType, OperandsEvaluated, BranchDone DEF Test
<1>7. CASE Jump
  BY <1>7, TargetType, OperandsEvaluated, EndDone DEF Jump
<1>8. CASE UpdateMemory
  <2>1. PICK next \in FollowingAddress, operands \in Operands(0, MaxOperands),
             contents \in [Cell -> Word] :
          LET s == [Evaluated(operands) EXCEPT !.mem = contents]
          IN  CanEvaluate(operands) /\ (Continue(s, next) \/ Refuse(s, next))
    BY <1>8 DEF UpdateMemory
  <2> DEFINE s == Evaluated(operands)
             w == [s EXCEPT !.mem = contents]
  <2>2. Sound(s) /\ Within(Current, s)
    BY <1>1, <2>1, OperandsEvaluated
  <2>3. Sound(w) /\ Within(s, w)
    BY <2>2, NewMemorySound
  <2>4. Within(Current, w)
    BY <2>2, <2>3, WithinTransitive
  <2> QED BY <2>1, <2>3, <2>4, FollowingAddressType, EndDone
<1>9. CASE IllegalInstruction
  BY <1>1, <1>9, FollowingAddressType, OperandsEvaluated, EndDone
     DEF IllegalInstruction
<1>10. CASE PrintRet
  <2>1. PICK next \in FollowingAddress, contents \in [Cell -> Word] :
          LET s == [Current EXCEPT !.mem = contents]
          IN  Refuse(s, next) \/ ReturnFromRoutine(1, s, next)
    BY <1>10 DEF PrintRet
  <2> DEFINE w == [Current EXCEPT !.mem = contents]
  <2>2. Sound(w) /\ Within(Current, w)
    BY NewMemorySound
  <2>3. 1 \in Word
    BY MemoryAssumption DEF Word
  <2> QED BY <2>1, <2>2, <2>3, FollowingAddressType, EndDone, ReturnDone
<1> QED BY <1>2, <1>3, <1>4, <1>5, <1>6, <1>7, <1>8, <1>9, <1>10

\* The two faults that come before an instruction is carried out.
LEMMA EarlyFaultDone ==
  ASSUME Sound(Current), pc \in Address, DecodeFault \/ OperandFault
  PROVE  Done
<1>1. CASE DecodeFault
  BY <1>1, WithinReflexive, EndDone DEF DecodeFault
<1>2. CASE OperandFault
  <2>0. PICK next \in FollowingAddress, operands \in Operands(1, MaxOperands) :
          \E i \in 1 .. Len(operands) :
             /\ \A j \in 1 .. i - 1 : Available(operands, j)
             /\ Refuse(AfterOperands(operands, i - 1), next)
    BY <1>2 DEF OperandFault
  <2>1. PICK i \in 1 .. Len(operands) :
             /\ \A j \in 1 .. i - 1 : Available(operands, j)
             /\ Refuse(AfterOperands(operands, i - 1), next)
    BY <2>0
  <2>2. Len(operands) \in Nat
    BY RoutinesAssumption, OperandsType
  <2>3. i - 1 \in Nat /\ (i - 1 > 0 => Available(operands, i - 1))
    BY <2>1, <2>2
  <2>4. /\ Sound(AfterOperands(operands, i - 1))
        /\ Within(Current, AfterOperands(operands, i - 1))
    BY <2>3, AfterOperandsSound
  <2> QED BY <2>1, <2>4, FollowingAddressType, EndDone
<1> QED BY <1>1, <1>2

-----------------------------------------------------------------------------
\* The inductive invariant.
IInv == TypeOK /\ FramesNested

LEMMA InstructionDone ==
  ASSUME IInv, Instruction
  PROVE  Done
<1>1. Sound(Current) /\ pc \in Address
  BY SoundCurrent DEF IInv, TypeOK, MemoryTypeOK
<1>2. CASE DecodeFault \/ OperandFault
  BY <1>1, <1>2, EarlyFaultDone
<1>3. CASE Call
  BY <1>1, <1>3, CallDone
<1>4. CASE RetPopped
  BY <1>1, <1>4, RetPoppedDone
<1>5. CASE Pop
  BY <1>1, <1>5, PopDone
<1>6. CASE Pull
  BY <1>1, <1>6, PullDone
<1>7. CASE Load
  BY <1>1, <1>7, LoadDone
<1>8. CASE Store
  BY <1>1, <1>8, StoreInstructionDone
<1>9. CASE Adjust
  BY <1>1, <1>9, AdjustDone
<1>10. CASE \/ Ret \/ PrintRet \/ Push \/ Compute \/ ComputeAndBranch
            \/ Test \/ Jump \/ UpdateMemory \/ IllegalInstruction
  BY <1>1, <1>10, OtherInstructionsDone
<1> QED BY <1>2, <1>3, <1>4, <1>5, <1>6, <1>7, <1>8, <1>9, <1>10 DEF Instruction

\* What an instruction leaves in the variables.
LEMMA DonePreserves ==
  ASSUME IInv, Done
  PROVE  IInv' /\ CallerUntouched
<1>1. PICK t : /\ Sound(t) /\ Keeps(Current, t) /\ Commit(t)
               /\ pc' \in Address /\ outcome' \in {"continue", "fault"}
  BY DEF Done
<1>2. frames' = t.frames /\ stack' = t.stack /\ mem' = t.mem
  BY <1>1 DEF Commit
<1>3. IInv'
  BY <1>1, <1>2 DEF IInv, TypeOK, MemoryTypeOK, FramesNested, Sound, Storage
<1>4. CallerUntouched
  <2> DEFINE b == Top(Current).stackBase
  <2>1. /\ Sound(Current) /\ Current.stack = stack /\ Current.frames = frames
    BY SoundCurrent DEF IInv, TypeOK, MemoryTypeOK, Current
  <2>2. b \in Nat /\ b <= Len(stack) /\ stack \in Seq(Word)
    BY <2>1, TopOfSound
  <2>3. /\ b <= Len(stack') /\ \A k \in 1 .. b : stack'[k] = stack[k]
        /\ Len(frames') >= Len(frames) - 1
        /\ \A i \in 1 .. Len(frames) - 1 :
              /\ i < Len(frames') => frames'[i] = frames[i]
              /\ [frames'[i] EXCEPT !.locals = frames[i].locals] = frames[i]
    BY <1>1, <1>2, <2>1 DEF Keeps
  <2>4. stack' \in Seq(Word)
    BY <1>3 DEF IInv, TypeOK
  <2> HIDE DEF b
  <2>5. SubSeq(stack', 1, b) = SubSeq(stack, 1, b)
    <3>1. /\ \A k \in 1 .. b : stack'[k] \in Word
          /\ \A k \in 1 .. b : stack[k] \in Word
      BY <2>2, <2>3, <2>4, ElementOfSeq
    <3>2. /\ SubSeq(stack, 1, b) \in Seq(Word) /\ SubSeq(stack', 1, b) \in Seq(Word)
          /\ Len(SubSeq(stack, 1, b)) = b /\ Len(SubSeq(stack', 1, b)) = b
          /\ \A k \in 1 .. b : SubSeq(stack', 1, b)[k] = stack'[k]
          /\ \A k \in 1 .. b : SubSeq(stack, 1, b)[k] = stack[k]
      BY <2>2, <3>1, SubSeqProperties
    <3> QED BY <2>3, <3>2, SeqEqual
  <2> QED BY <2>3, <2>5 DEF CallerUntouched, b
<1> QED BY <1>3, <1>4

LEMMA InitIInv == Init => IInv
<1> SUFFICES ASSUME Init PROVE IInv
  OBVIOUS
<1>1. BaseFrame \in Frame
  BY MemoryAssumption, RoutinesAssumption
     DEF BaseFrame, Frame, Word, Variable, VariableCount
<1>2. /\ frames = <<BaseFrame>> /\ stack = <<>> /\ frames \in Seq(Frame)
      /\ Len(frames) = 1 /\ frames[1] = BaseFrame /\ Len(stack) = 0
  BY <1>1 DEF Init
<1>3. TypeOK
  BY <1>2, RoutinesAssumption DEF Init, TypeOK, MemoryTypeOK
<1>4. FramesNested
  BY <1>2, RoutinesAssumption DEF FramesNested, BaseFrame
<1> QED BY <1>3, <1>4 DEF IInv

\* No instruction of any story, refused or not, leaves the watermarks of the
\* frames out of order or a limit exceeded.
THEOREM FramesAlwaysNested == Spec => [](TypeOK /\ FramesNested)
<1>1. IInv /\ [Instruction]_machineVars => IInv'
  <2>1. IInv /\ Instruction => IInv'
    BY InstructionDone, DonePreserves
  <2>2. IInv /\ UNCHANGED machineVars => IInv'
    BY DEF IInv, TypeOK, MemoryTypeOK, FramesNested, machineVars
  <2> QED BY <2>1, <2>2
<1>2. IInv => TypeOK /\ FramesNested
  BY DEF IInv
<1> QED BY <1>1, <1>2, InitIInv, PTL DEF Spec

\* No instruction of any story leaves a word, an address or a frame outside its
\* type: sums and references are wrapped, and a branch or a return goes to an
\* address.
THEOREM RoutinesTyped == Spec => []TypeOK
<1>1. TypeOK /\ FramesNested => TypeOK
  OBVIOUS
<1> QED BY <1>1, FramesAlwaysNested, PTL

\* No instruction of any story touches what belongs to the routines that are
\* waiting for the current one to return.
THEOREM CallersNeverTouched == Spec => CallersUntouched
<1>1. IInv /\ [Instruction]_machineVars => IInv'
  <2>1. IInv /\ Instruction => IInv'
    BY InstructionDone, DonePreserves
  <2>2. IInv /\ UNCHANGED machineVars => IInv'
    BY DEF IInv, TypeOK, MemoryTypeOK, FramesNested, machineVars
  <2> QED BY <2>1, <2>2
<1>2. IInv /\ [Instruction]_machineVars => [CallerUntouched]_machineVars
  BY InstructionDone, DonePreserves
<1> QED BY <1>1, <1>2, InitIInv, PTL DEF Spec, CallersUntouched

-----------------------------------------------------------------------------
(***************************************************************************)
(* The refinement.  Cut up by the watermarks, the one evaluation stack     *)
(* gives every routine a stack of its own.  View(s) is what a storage      *)
(* record shows under the refinement mapping of Routines; each way an      *)
(* instruction may pass the storage on (the lemmas above name three) is    *)
(* one action of Activations.                                              *)
(***************************************************************************)
Activation == [resume : Address, locals : [Local -> Word], own : Seq(Word)]

\* OwnedTo and ActivationOf, of a storage record.
To(s, i) == IF i = Len(s.frames) THEN Len(s.stack) ELSE s.frames[i + 1].stackBase

Shown(s, i) ==
    [ resume |-> s.frames[i].returnPC,
      locals |-> s.frames[i].locals,
      own    |-> SubSeq(s.stack, s.frames[i].stackBase + 1, To(s, i)) ]

View(s) == [i \in 1 .. Len(s.frames) |-> Shown(s, i)]

\* The changes of a view and of an activation that the actions of Activations
\* make, named so that the lemmas can pass them on unexpanded.
Replaced(v, n, a) == [v EXCEPT ![n] = a]

WithPushed(a, value) == [a EXCEPT !.own = Append(@, value)]

WithLocal(a, name, value) == [a EXCEPT !.locals[name] = value]

WithKept(a, left) == [a EXCEPT !.own = SubSeq(@, 1, left)]

-----------------------------------------------------------------------------
\* A stretch of a sequence has the elements it was cut from.
LEMMA Stretch ==
  ASSUME NEW S, NEW a \in Seq(S), NEW m \in Nat, NEW n \in Nat, m <= n, n <= Len(a)
  PROVE  /\ SubSeq(a, m + 1, n) \in Seq(S)
         /\ Len(SubSeq(a, m + 1, n)) = n - m
         /\ \A i \in 1 .. n - m : SubSeq(a, m + 1, n)[i] = a[m + i]
<1>1. Len(a) \in Nat
  BY LenProperties
<1>2. \A i \in m + 1 .. n : a[i] \in S
  BY <1>1, ElementOfSeq
<1>3. /\ SubSeq(a, m + 1, n) \in Seq(S)
      /\ Len(SubSeq(a, m + 1, n)) = IF m + 1 <= n THEN n - (m + 1) + 1 ELSE 0
      /\ \A i \in 1 .. n - (m + 1) + 1 : SubSeq(a, m + 1, n)[i] = a[(m + 1) + i - 1]
  BY <1>2, SubSeqProperties
<1> QED BY <1>3

\* Two sequences that agree up to n agree on every stretch that ends there.
LEMMA SameStretch ==
  ASSUME NEW S, NEW a \in Seq(S), NEW b \in Seq(S), NEW m \in Nat, NEW n \in Nat,
         m <= n, n <= Len(a), n <= Len(b), \A k \in 1 .. n : a[k] = b[k]
  PROVE  SubSeq(a, m + 1, n) = SubSeq(b, m + 1, n)
<1>1. /\ SubSeq(a, m + 1, n) \in Seq(S) /\ SubSeq(b, m + 1, n) \in Seq(S)
      /\ Len(SubSeq(a, m + 1, n)) = n - m /\ Len(SubSeq(b, m + 1, n)) = n - m
      /\ \A i \in 1 .. n - m : SubSeq(a, m + 1, n)[i] = a[m + i]
      /\ \A i \in 1 .. n - m : SubSeq(b, m + 1, n)[i] = b[m + i]
  BY Stretch
<1>2. \A i \in 1 .. n - m : a[m + i] = b[m + i]
  OBVIOUS
<1>3. \A i \in 1 .. Len(SubSeq(a, m + 1, n)) :
         SubSeq(a, m + 1, n)[i] = SubSeq(b, m + 1, n)[i]
  BY <1>1, <1>2
<1> QED BY <1>1, <1>3, SeqEqual

\* A frame's stretch lies between its watermark and the top of the stack.
LEMMA ToType ==
  ASSUME NEW s, Sound(s), NEW i \in 1 .. Len(s.frames)
  PROVE  /\ s.frames[i].stackBase \in Nat /\ To(s, i) \in Nat
         /\ s.frames[i].stackBase <= To(s, i) /\ To(s, i) <= Len(s.stack)
<1>1. /\ Len(s.frames) \in Nat /\ Len(s.stack) \in Nat
      /\ s.frames[i].stackBase \in 0 .. Len(s.stack)
  BY TopOfSound, FramesOfSound
<1>2. CASE i = Len(s.frames)
  BY <1>1, <1>2 DEF To
<1>3. CASE i # Len(s.frames)
  <2>1. i + 1 \in 1 .. Len(s.frames) /\ i <= i + 1
    BY <1>1, <1>3
  <2>2. s.frames[i].stackBase <= s.frames[i + 1].stackBase
    BY <2>1 DEF Sound
  <2>3. s.frames[i + 1].stackBase \in 0 .. Len(s.stack)
    BY <2>1, FramesOfSound
  <2> QED BY <1>1, <1>3, <2>2, <2>3 DEF To
<1> QED BY <1>2, <1>3

LEMMA ShownType ==
  ASSUME NEW s, Sound(s), NEW i \in 1 .. Len(s.frames)
  PROVE  Shown(s, i) \in Activation
<1>1. SubSeq(s.stack, s.frames[i].stackBase + 1, To(s, i)) \in Seq(Word)
  BY ToType, TopOfSound, Stretch
<1>2. s.frames[i].returnPC \in Address /\ s.frames[i].locals \in [Local -> Word]
  BY FramesOfSound DEF Frame
<1> QED BY <1>1, <1>2 DEF Shown, Activation

LEMMA ViewType ==
  ASSUME NEW s, Sound(s)
  PROVE  /\ View(s) \in Seq(Activation)
         /\ Len(View(s)) = Len(s.frames)
         /\ \A i \in 1 .. Len(s.frames) : View(s)[i] = Shown(s, i)
<1>1. Len(s.frames) \in Nat
  BY TopOfSound
<1>2. View(s) \in [1 .. Len(s.frames) -> Activation]
  BY ShownType DEF View
<1>3. \A i \in 1 .. Len(s.frames) : View(s)[i] = Shown(s, i)
  BY DEF View
<1>4. View(s) \in Seq(Activation) /\ Len(View(s)) = Len(s.frames)
  BY <1>1, <1>2, SeqDef
<1> QED BY <1>3, <1>4

\* A frame shows the same activation in two storage records that agree on the
\* frame, on where its stretch ends, and on the stack up to there.
LEMMA SameShown ==
  ASSUME NEW s, NEW t, Sound(s), Sound(t),
         NEW i \in 1 .. Len(s.frames), i \in 1 .. Len(t.frames),
         t.frames[i] = s.frames[i], To(t, i) = To(s, i),
         \A k \in 1 .. To(s, i) : t.stack[k] = s.stack[k]
  PROVE  Shown(t, i) = Shown(s, i)
<1>1. /\ s.frames[i].stackBase \in Nat /\ To(s, i) \in Nat
      /\ s.frames[i].stackBase <= To(s, i)
      /\ To(s, i) <= Len(s.stack) /\ To(s, i) <= Len(t.stack)
      /\ s.stack \in Seq(Word) /\ t.stack \in Seq(Word)
  BY ToType, TopOfSound
<1>2. SubSeq(t.stack, s.frames[i].stackBase + 1, To(s, i)) =
      SubSeq(s.stack, s.frames[i].stackBase + 1, To(s, i))
  BY <1>1, SameStretch
<1> QED BY <1>2 DEF Shown

-----------------------------------------------------------------------------
\* The callers' stretches end below the watermark of the current routine.
LEMMA CallersBelow ==
  ASSUME NEW s, Sound(s), NEW i \in 1 .. Len(s.frames) - 1
  PROVE  /\ i \in 1 .. Len(s.frames)
         /\ To(s, i) = s.frames[i + 1].stackBase
         /\ To(s, i) \in 0 .. Top(s).stackBase
<1>1. Len(s.frames) \in Nat
  BY TopOfSound
<1>2. i \in 1 .. Len(s.frames) /\ i + 1 \in 1 .. Len(s.frames) /\ i # Len(s.frames)
  BY <1>1
<1>3. To(s, i) = s.frames[i + 1].stackBase /\ To(s, i) \in Nat
  BY <1>2, ToType DEF To
<1>4. s.frames[i + 1].stackBase <= s.frames[Len(s.frames)].stackBase
  BY <1>1, <1>2 DEF Sound
<1>5. Top(s).stackBase \in Nat
  BY TopOfSound
<1> QED BY <1>2, <1>3, <1>4, <1>5 DEF Top

\* While the current routine stays the current one, its callers show the same.
LEMMA WithinShown ==
  ASSUME NEW s, NEW t, Sound(s), Sound(t), Within(s, t)
  PROVE  /\ Len(t.frames) = Len(s.frames)
         /\ \A i \in 1 .. Len(s.frames) - 1 : Shown(t, i) = Shown(s, i)
         /\ Shown(t, Len(s.frames)).resume = Shown(s, Len(s.frames)).resume
         /\ Top(t).returnPC = Top(s).returnPC
<1> DEFINE n == Len(s.frames)
<1>1. /\ Len(t.frames) = n /\ n \in Nat /\ n >= 1
      /\ \A i \in 1 .. n - 1 : t.frames[i] = s.frames[i]
      /\ Top(t).stackBase = Top(s).stackBase
      /\ Top(s) = s.frames[n] /\ Top(t) = t.frames[n]
      /\ \A k \in 1 .. Top(s).stackBase : t.stack[k] = s.stack[k]
  BY TopOfSound, WithinTop DEF Within, Top
<1>2. Top(t).returnPC = Top(s).returnPC
  <2>1. Top(s) \in Frame /\ Top(t) \in Frame
    BY TopOfSound
  <2>2. [Top(t) EXCEPT !.locals = Top(s).locals] = Top(s)
    BY DEF Within
  <2> QED BY <2>1, <2>2 DEF Frame
<1> HIDE DEF n
<1>3. ASSUME NEW i \in 1 .. n - 1
      PROVE  Shown(t, i) = Shown(s, i)
  <2>1. /\ i \in 1 .. Len(s.frames) /\ To(s, i) = s.frames[i + 1].stackBase
        /\ To(s, i) \in 0 .. Top(s).stackBase
        /\ i \in 1 .. Len(t.frames) /\ To(t, i) = t.frames[i + 1].stackBase
    BY <1>1, CallersBelow DEF n
  <2>2. To(t, i) = To(s, i)
    <3>1. CASE i + 1 = n
      BY <3>1, <2>1, <1>1
    <3>2. CASE i + 1 # n
      BY <3>2, <2>1, <1>1
    <3> QED BY <3>1, <3>2
  <2>3. \A k \in 1 .. To(s, i) : t.stack[k] = s.stack[k]
    BY <2>1, <1>1, TopOfSound, SMTT(20)
  <2> QED BY <2>1, <2>2, <2>3, <1>1, SameShown
<1> QED BY <1>1, <1>2, <1>3 DEF Shown, n

\* Work: only the last activation of the view has changed.
LEMMA WithinView ==
  ASSUME NEW s, NEW t, Sound(s), Sound(t), Within(s, t)
  PROVE  /\ Len(View(t)) = Len(View(s))
         /\ View(t)[Len(View(s))] \in Activation
         /\ View(t)[Len(View(s))].resume = View(s)[Len(View(s))].resume
         /\ View(t) = [View(s) EXCEPT ![Len(View(s))] = View(t)[Len(View(s))]]
<1> DEFINE n == Len(s.frames)
           v == View(s)
           w == View(t)
<1>1. /\ v \in Seq(Activation) /\ Len(v) = n /\ \A i \in 1 .. n : v[i] = Shown(s, i)
      /\ w \in Seq(Activation) /\ Len(w) = n /\ \A i \in 1 .. n : w[i] = Shown(t, i)
      /\ n \in 1 .. n /\ n \in Nat
  BY WithinShown, ViewType, TopOfSound
<1>2. w[n] \in Activation
  BY <1>1, ElementOfSeq
<1>3. \A i \in 1 .. n - 1 : Shown(t, i) = Shown(s, i)
  BY WithinShown
<1>4. w[n].resume = v[n].resume
  BY <1>1, WithinShown
<1> HIDE DEF v, w, n
<1>5. /\ [v EXCEPT ![n] = w[n]] \in Seq(Activation) /\ Len([v EXCEPT ![n] = w[n]]) = n
      /\ \A i \in 1 .. n : [v EXCEPT ![n] = w[n]][i] = IF i = n THEN w[n] ELSE v[i]
  BY <1>1, <1>2, ExceptSeq
<1>6. \A i \in 1 .. n : w[i] = [v EXCEPT ![n] = w[n]][i]
  BY <1>1, <1>3, <1>5
<1>7. w = [v EXCEPT ![n] = w[n]]
  BY <1>1, <1>5, <1>6, SeqEqual
<1> QED BY <1>1, <1>2, <1>4, <1>7 DEF v, w

-----------------------------------------------------------------------------
\* Returning takes the last activation off the view.
LEMMA ReturnedView ==
  ASSUME NEW s, Sound(s), CanReturn(s)
  PROVE  View(Returned(s)) = SubSeq(View(s), 1, Len(s.frames) - 1)
<1> DEFINE n == Len(s.frames)
           t == Returned(s)
<1>1. /\ Sound(t) /\ Len(t.frames) = n - 1 /\ n \in Nat /\ n >= 2
      /\ \A i \in 1 .. n - 1 : t.frames[i] = s.frames[i]
      /\ Len(t.stack) = Top(s).stackBase /\ Top(s) = s.frames[n]
      /\ \A k \in 1 .. Top(s).stackBase : t.stack[k] = s.stack[k]
      /\ Top(s).stackBase \in Nat
  BY ReturnedSound, TopOfSound DEF CanReturn, Top
<1> HIDE DEF t
<1>2. ASSUME NEW i \in 1 .. n - 1
      PROVE  Shown(t, i) = Shown(s, i)
  <2>1. /\ i \in 1 .. Len(s.frames) /\ To(s, i) = s.frames[i + 1].stackBase
        /\ To(s, i) \in 0 .. Top(s).stackBase
        /\ i \in 1 .. Len(t.frames)
    BY <1>1, CallersBelow
  <2>2. To(t, i) = To(s, i)
    BY <1>1, <2>1 DEF To
  <2>3. \A k \in 1 .. To(s, i) : t.stack[k] = s.stack[k]
    BY <2>1, <1>1
  <2> QED BY <2>1, <2>2, <2>3, <1>1, SameShown
<1>3. /\ View(s) \in Seq(Activation) /\ Len(View(s)) = n
      /\ \A i \in 1 .. n : View(s)[i] = Shown(s, i)
      /\ View(t) \in Seq(Activation) /\ Len(View(t)) = n - 1
      /\ \A i \in 1 .. n - 1 : View(t)[i] = Shown(t, i)
  BY <1>1, ViewType
<1> HIDE DEF n
<1>4. \A i \in 1 .. n - 1 : View(s)[i] \in Activation
  <2>1. \A i \in 1 .. n : View(s)[i] \in Activation
    BY <1>3, ElementOfSeq
  <2> QED BY <2>1, <1>1
<1>5. /\ SubSeq(View(s), 1, n - 1) \in Seq(Activation)
      /\ Len(SubSeq(View(s), 1, n - 1)) = n - 1
      /\ \A i \in 1 .. n - 1 : SubSeq(View(s), 1, n - 1)[i] = View(s)[i]
  BY <1>1, <1>4, SubSeqProperties
<1>6. \A i \in 1 .. n - 1 : View(t)[i] = SubSeq(View(s), 1, n - 1)[i]
  BY <1>1, <1>2, <1>3, <1>5
<1>7. View(t) = SubSeq(View(s), 1, n - 1)
  BY <1>3, <1>5, <1>6, SeqEqual
<1> QED BY <1>7 DEF n, t

\* What the callers of the current routine show does not depend on what the
\* routine did before it returned.
LEMMA CallersView ==
  ASSUME NEW s, NEW u, Sound(s), Sound(u), Within(s, u)
  PROVE  SubSeq(View(u), 1, Len(s.frames) - 1) = SubSeq(View(s), 1, Len(s.frames) - 1)
<1> DEFINE n == Len(s.frames)
<1>1. /\ View(s) \in Seq(Activation) /\ Len(View(s)) = n
      /\ View(u) \in Seq(Activation) /\ Len(View(u)) = n
      /\ \A i \in 1 .. n : View(s)[i] = Shown(s, i)
      /\ \A i \in 1 .. n : View(u)[i] = Shown(u, i)
      /\ \A i \in 1 .. n - 1 : Shown(u, i) = Shown(s, i)
      /\ n - 1 \in Nat /\ n \in Nat
  BY ViewType, WithinShown, TopOfSound
<1> HIDE DEF n
<1>2. \A k \in 1 .. n - 1 : View(u)[k] = View(s)[k]
  BY <1>1
<1>3. SubSeq(View(u), 0 + 1, n - 1) = SubSeq(View(s), 0 + 1, n - 1)
  BY <1>1, <1>2, SameStretch
<1> QED BY <1>3 DEF n

-----------------------------------------------------------------------------
\* Storing a result pushes it on the own stack of the routine it is stored in,
\* sets one of its locals, or shows nowhere (a global).
LEMMA PushShown ==
  ASSUME NEW s, Sound(s), NEW value \in Word, Len(s.stack) < MaxStack,
         NEW t, t = [s EXCEPT !.stack = Append(@, value)], NEW n, n = Len(s.frames)
  PROVE  Shown(t, n) = WithPushed(Shown(s, n), value)
<1> DEFINE b == Top(s).stackBase
           h == Len(s.stack)
           pushed == Append(s.stack, value)
           own == SubSeq(s.stack, b + 1, h)
           longer == SubSeq(pushed, b + 1, h + 1)
<1>1. /\ t.frames = s.frames /\ t.stack = pushed
      /\ Top(s) = s.frames[n]
  BY DEF Sound, Storage, Top
<1>2. /\ s.stack \in Seq(Word) /\ h \in Nat /\ b \in Nat /\ b <= h
  BY TopOfSound
<1>3. /\ pushed \in Seq(Word) /\ Len(pushed) = h + 1 /\ pushed[h + 1] = value
      /\ \A k \in 1 .. h : pushed[k] = s.stack[k]
  BY <1>2, AppendProperties
<1> HIDE DEF pushed, b, h
<1>4. /\ own \in Seq(Word) /\ Len(own) = h - b
      /\ \A i \in 1 .. h - b : own[i] = s.stack[b + i]
  BY <1>2, Stretch DEF h
<1>5. /\ longer \in Seq(Word) /\ Len(longer) = (h + 1) - b
      /\ \A i \in 1 .. (h + 1) - b : longer[i] = pushed[b + i]
  BY <1>2, <1>3, Stretch
<1> HIDE DEF own, longer
<1>6. /\ Append(own, value) \in Seq(Word) /\ Len(Append(own, value)) = (h - b) + 1
      /\ Append(own, value)[(h - b) + 1] = value
      /\ \A i \in 1 .. h - b : Append(own, value)[i] = own[i]
  BY <1>4, AppendProperties
<1>7. \A i \in 1 .. (h + 1) - b : longer[i] = Append(own, value)[i]
  <2> SUFFICES ASSUME NEW i \in 1 .. (h + 1) - b
               PROVE  longer[i] = Append(own, value)[i]
    OBVIOUS
  <2>1. CASE i = (h - b) + 1
    <3>1. b + i = h + 1
      BY <2>1, <1>2
    <3> QED BY <2>1, <3>1, <1>3, <1>5, <1>6
  <2>2. CASE i # (h - b) + 1
    <3>1. i \in 1 .. h - b /\ b + i \in 1 .. h
      BY <2>2, <1>2
    <3> QED BY <3>1, <1>3, <1>4, <1>5, <1>6
  <2> QED BY <2>1, <2>2
<1>8. longer = Append(own, value)
  BY <1>2, <1>5, <1>6, <1>7, SeqEqual
<1>9. Shown(s, n) = [resume |-> s.frames[n].returnPC, locals |-> s.frames[n].locals, own |-> own]
  BY <1>1 DEF Shown, To, own, b, h
<1>10. Shown(t, n) = [resume |-> s.frames[n].returnPC, locals |-> s.frames[n].locals, own |-> longer]
  BY <1>1, <1>3 DEF Shown, To, longer, b
<1>11. Shown(s, n) \in Activation
  BY ShownType, TopOfSound
<1> DEFINE a == Shown(s, n)
           c == Shown(t, n)
           grown == Append(a.own, value)
<1>12. /\ a \in Activation
       /\ c = [resume |-> a.resume, locals |-> a.locals, own |-> grown]
  BY <1>8, <1>9, <1>10, <1>11
<1> HIDE DEF a, c, grown
<1>13. c = [a EXCEPT !.own = grown]
  BY <1>12 DEF Activation
<1> QED BY <1>13 DEF WithPushed, a, c, grown

LEMMA SetLocalShown ==
  ASSUME NEW s, Sound(s), NEW number \in Local, NEW value \in Word,
         NEW t, t = SetLocal(number, value, s), NEW n, n = Len(s.frames)
  PROVE  Shown(t, n) = WithLocal(Shown(s, n), number, value)
<1> DEFINE f == [Top(s) EXCEPT !.locals[number] = value]
<1>1. /\ s.frames \in Seq(Frame) /\ n \in 1 .. n /\ Top(s) \in Frame /\ Top(s) = s.frames[n]
  BY TopOfSound DEF Top
<1>2. t.frames = [s.frames EXCEPT ![n] = f] /\ t.stack = s.stack
  BY <1>1 DEF SetLocal, Sound, Storage
<1>3. /\ f \in Frame /\ f.stackBase = Top(s).stackBase /\ f.returnPC = Top(s).returnPC
      /\ f.locals = [Top(s).locals EXCEPT ![number] = value]
  BY <1>1 DEF Frame
<1> HIDE DEF f
<1>4. Len(t.frames) = n /\ t.frames[n] = f
  BY <1>1, <1>2, <1>3, ExceptSeq
<1>5. /\ Shown(s, n).resume = Top(s).returnPC /\ Shown(s, n).locals = Top(s).locals
      /\ Shown(s, n) = [ resume |-> Top(s).returnPC, locals |-> Top(s).locals,
                         own |-> SubSeq(s.stack, Top(s).stackBase + 1, Len(s.stack)) ]
  BY <1>1 DEF Shown, To
<1>6. Shown(t, n) = [ resume |-> f.returnPC, locals |-> f.locals,
                      own |-> SubSeq(s.stack, f.stackBase + 1, Len(s.stack)) ]
  BY <1>2, <1>4 DEF Shown, To
<1>7. Shown(s, n) \in Activation
  BY <1>1, ShownType
<1> DEFINE a == Shown(s, n)
           c == Shown(t, n)
<1>8. /\ a \in Activation
      /\ c = [resume |-> a.resume, locals |-> [a.locals EXCEPT ![number] = value], own |-> a.own]
  BY <1>3, <1>5, <1>6, <1>7
<1> HIDE DEF a, c
<1>9. c = [a EXCEPT !.locals[number] = value]
  BY <1>8, SMTT(20) DEF Activation
<1> QED BY <1>9 DEF WithLocal, a, c

LEMMA DeliveredView ==
  ASSUME NEW s, Sound(s), NEW number \in Variable, NEW value \in Word,
         CanWriteVariable(number, s),
         NEW t, t = WriteVariable(number, value, s),
         NEW v, v = View(s), NEW w, w = View(t), NEW n, n = Len(s.frames)
  PROVE  \/ w = v
         \/ w = Replaced(v, n, WithPushed(v[n], value))
         \/ \E name \in Local : w = Replaced(v, n, WithLocal(v[n], name, value))
<1>1. Sound(t) /\ Within(s, t)
  BY WriteVariableSound
<1>2. v[n] = Shown(s, n) /\ Len(v) = n /\ n \in 1 .. n
  BY ViewType, TopOfSound
<1>3. w[n] = Shown(t, n) /\ w = Replaced(v, n, Shown(t, n))
  <2>1. Len(t.frames) = n
    BY <1>1, WithinShown
  <2>2. w[n] = Shown(t, n)
    BY <1>1, <1>2, <2>1, ViewType
  <2>3. w = [v EXCEPT ![n] = w[n]]
    BY <1>1, <1>2, WithinView
  <2> QED BY <2>2, <2>3 DEF Replaced
<1>4. CASE number = StackPointer
  <2>1. t = [s EXCEPT !.stack = Append(@, value)] /\ Len(s.stack) < MaxStack
    BY <1>4, RoutinesAssumption DEF WriteVariable, CanWriteVariable, StackPointer, Local
  <2>2. Shown(t, n) = WithPushed(Shown(s, n), value)
    BY <2>1, PushShown
  <2> QED BY <1>2, <1>3, <2>2
<1>5. CASE number \in Local
  <2>1. t = SetLocal(number, value, s)
    BY <1>5, RoutinesAssumption DEF WriteVariable, StackPointer, Local
  <2>2. Shown(t, n) = WithLocal(Shown(s, n), number, value)
    BY <1>5, <2>1, SetLocalShown
  <2> QED BY <1>2, <1>3, <1>5, <2>2
<1>6. CASE number # StackPointer /\ number \notin Local
  <2>1. t.frames = s.frames /\ t.stack = s.stack
    BY <1>6 DEF WriteVariable, SetGlobal, Sound, Storage
  <2>2. w = v
    BY <2>1 DEF View, Shown, To
  <2> QED BY <2>2
<1> QED BY <1>4, <1>5, <1>6

-----------------------------------------------------------------------------
\* Entering a routine: what evaluating the call popped is gone from the caller's
\* own stack, and the callee starts with nothing on its own.
\* What Enter asks of the view before and after.
Entering(v, w, n) ==
    \E left \in 0 .. Len(v[n].own), locals \in [Local -> Word], return \in Address :
       w = Append(Replaced(v, n, WithKept(v[n], left)),
                  [resume |-> return, locals |-> locals, own |-> <<>>])

LEMMA EnteredView ==
  ASSUME NEW s, Sound(s), NEW t, Entered(s, t),
         NEW v, v = View(s), NEW w, w = View(t), NEW n, n = Len(s.frames)
  PROVE  Entering(v, w, n)
<1>0. PICK k \in 0 .. Depth(s), args \in Seq(Word), returnPC \in Address,
           store \in Variable, count \in 0 .. MaxLocals, initial \in [Local -> Word] :
             /\ n < MaxDepth
             /\ Len(args) <= MaxArguments
             /\ t = Called(Dropped(s, k), args, returnPC, store, count, initial)
  BY DEF Entered
<1> DEFINE d == Dropped(s, k)
           b == Top(s).stackBase
           h == Len(s.stack)
           left == (h - b) - k
           own == SubSeq(s.stack, b + 1, h)
           rest == SubSeq(d.stack, b + 1, h - k)
           locals == t.frames[n + 1].locals
           callee == [resume |-> returnPC, locals |-> locals, own |-> <<>>]
           caller == WithKept(Shown(s, n), left)
           cut == Replaced(v, n, caller)
<1>1. /\ s.stack \in Seq(Word) /\ h \in Nat /\ b \in Nat /\ b <= h /\ Depth(s) = h - b
      /\ k \in Nat /\ k <= h - b /\ n \in Nat /\ n \in 1 .. n /\ Top(s) = s.frames[n]
      /\ s.frames \in Seq(Frame)
  BY TopOfSound DEF Depth, Top
<1>2. /\ Sound(d) /\ d.frames = s.frames /\ d.stack \in Seq(Word) /\ Len(d.stack) = h - k
      /\ \A i \in 1 .. h - k : d.stack[i] = s.stack[i]
  BY DroppedSound, TopOfSound
<1> HIDE DEF d
<1>3. Sound(t)
  BY <1>0, <1>2, CalledSound DEF d
<1>4. t.stack = d.stack /\ \E f : t.frames = Append(s.frames, f) /\ f.stackBase = h - k
                                  /\ f.returnPC = returnPC /\ f \in Frame
  <2> DEFINE f == [ returnPC  |-> returnPC,
                    locals    |-> [l \in Local |->
                                      IF l > count THEN 0
                                      ELSE IF l <= Len(args) THEN args[l] ELSE initial[l]],
                    numLocals |-> count,
                    argCount  |-> Len(args),
                    stackBase |-> Len(d.stack),
                    store     |-> store,
                    hasStore  |-> TRUE ]
  <2>1. t.frames = Append(s.frames, f) /\ t.stack = d.stack
    BY <1>0, <1>2 DEF Called, Sound, Storage, d
  <2>2. f.stackBase = h - k /\ f.returnPC = returnPC
    BY <1>2
  <2> HIDE DEF f
  <2>3. Len(t.frames) = n + 1 /\ t.frames[n + 1] = f
    BY <1>1, <2>1
  <2>4. f \in Frame
    BY <1>1, <1>3, <2>3, FramesOfSound
  <2> QED BY <2>1, <2>2, <2>4
<1>5. /\ Len(t.frames) = n + 1 /\ \A i \in 1 .. n : t.frames[i] = s.frames[i]
      /\ t.frames[n + 1].stackBase = h - k /\ t.frames[n + 1].returnPC = returnPC
      /\ locals \in [Local -> Word]
  <2>1. PICK f \in Frame : t.frames = Append(s.frames, f) /\ f.stackBase = h - k
                           /\ f.returnPC = returnPC
    BY <1>4
  <2>2. /\ Len(t.frames) = n + 1 /\ t.frames[n + 1] = f
        /\ \A i \in 1 .. n : t.frames[i] = s.frames[i]
    BY <1>1, <2>1, AppendProperties
  <2> QED BY <2>1, <2>2 DEF Frame
<1> HIDE DEF b, h, locals
<1>6. /\ own \in Seq(Word) /\ Len(own) = h - b
      /\ \A i \in 1 .. h - b : own[i] = s.stack[b + i]
  BY <1>1, Stretch DEF h
<1>7. /\ rest \in Seq(Word) /\ Len(rest) = (h - k) - b
      /\ \A i \in 1 .. (h - k) - b : rest[i] = d.stack[b + i]
  BY <1>1, <1>2, Stretch
<1>8. left \in 0 .. Len(own) /\ left = (h - k) - b
  BY <1>1, <1>6
<1> HIDE DEF own, rest, left
<1>9. rest = SubSeq(own, 1, left)
  <2>1. \A i \in 1 .. left : own[i] \in Word
    BY <1>6, <1>8, ElementOfSeq, LenProperties
  <2>2. /\ SubSeq(own, 1, left) \in Seq(Word) /\ Len(SubSeq(own, 1, left)) = left
        /\ \A i \in 1 .. left : SubSeq(own, 1, left)[i] = own[i]
    BY <1>6, <1>8, <2>1, SubSeqProperties
  <2>3. ASSUME NEW i \in 1 .. left
        PROVE  rest[i] = SubSeq(own, 1, left)[i]
    <3>1. i \in 1 .. h - b /\ b + i \in 1 .. h - k /\ i \in 1 .. (h - k) - b
      BY <1>1, <1>8
    <3> QED BY <3>1, <2>2, <1>2, <1>6, <1>7
  <2> QED BY <2>2, <2>3, <1>7, <1>8, SeqEqual
<1>10. /\ Shown(s, n) = [resume |-> s.frames[n].returnPC, locals |-> s.frames[n].locals, own |-> own]
       /\ Shown(t, n) = [resume |-> s.frames[n].returnPC, locals |-> s.frames[n].locals, own |-> rest]
  <2>1. To(s, n) = h
    BY DEF To, h
  <2>2. To(t, n) = h - k
    <3>1. Len(t.frames) # n
      BY <1>1, <1>5
    <3> QED BY <3>1, <1>5 DEF To
  <2>3. t.frames[n] = s.frames[n] /\ s.frames[n].stackBase = b
    BY <1>1, <1>5 DEF b
  <2> QED BY <2>1, <2>2, <2>3, <1>4 DEF Shown, own, rest
<1>11. Shown(t, n) = caller
  <2> DEFINE a == Shown(s, n)
             c == Shown(t, n)
             kept == SubSeq(a.own, 1, left)
  <2>1. a \in Activation
    BY <1>1, ShownType
  <2>2. c = [resume |-> a.resume, locals |-> a.locals, own |-> kept]
    BY <1>9, <1>10
  <2> HIDE DEF a, c, kept
  <2>3. c = [a EXCEPT !.own = kept]
    BY <2>1, <2>2 DEF Activation
  <2> QED BY <2>3 DEF WithKept, a, c, kept
<1>12. Shown(t, n + 1) = callee
  <2>1. To(t, n + 1) = h - k
    BY <1>2, <1>4, <1>5 DEF To
  <2>2. SubSeq(t.stack, (h - k) + 1, h - k) = <<>>
    BY <1>1, SubSeqEmpty
  <2> QED BY <2>1, <2>2, <1>5 DEF Shown, locals
<1>13. ASSUME NEW i \in 1 .. n - 1
       PROVE  Shown(t, i) = Shown(s, i)
  <2>1. /\ i \in 1 .. Len(s.frames) /\ To(s, i) = s.frames[i + 1].stackBase
        /\ To(s, i) \in 0 .. b
    BY CallersBelow DEF b
  <2>2. i \in 1 .. Len(t.frames) /\ To(t, i) = To(s, i) /\ t.frames[i] = s.frames[i]
    BY <2>1, <1>1, <1>5, SMTT(20) DEF To
  <2>3. \A j \in 1 .. To(s, i) : t.stack[j] = s.stack[j]
    <3> SUFFICES ASSUME NEW j \in 1 .. To(s, i)
                 PROVE  t.stack[j] = s.stack[j]
      OBVIOUS
    <3>1. j \in 1 .. h - k
      BY <2>1, <1>1
    <3> QED BY <3>1, <1>2, <1>4
  <2> QED BY <2>1, <2>2, <2>3, <1>3, SameShown
<1>14. /\ v \in Seq(Activation) /\ Len(v) = n /\ \A i \in 1 .. n : v[i] = Shown(s, i)
       /\ View(t) \in Seq(Activation) /\ Len(View(t)) = n + 1
       /\ \A i \in 1 .. n + 1 : View(t)[i] = Shown(t, i)
  BY <1>3, <1>5, ViewType
<1> HIDE DEF caller, callee
<1>15. caller \in Activation /\ callee \in Activation
  BY <1>1, <1>3, <1>5, <1>11, <1>12, ShownType
<1>16. /\ cut \in Seq(Activation) /\ Len(cut) = n
       /\ \A i \in 1 .. n : cut[i] = IF i = n THEN caller ELSE v[i]
  BY <1>1, <1>14, <1>15, ExceptSeq DEF Replaced
<1> HIDE DEF cut
<1>17. /\ Append(cut, callee) \in Seq(Activation) /\ Len(Append(cut, callee)) = n + 1
       /\ Append(cut, callee)[n + 1] = callee
       /\ \A i \in 1 .. n : Append(cut, callee)[i] = cut[i]
  BY <1>15, <1>16, AppendProperties
<1>18. ASSUME NEW i \in 1 .. n + 1
       PROVE  View(t)[i] = Append(cut, callee)[i]
  <2>1. CASE i = n + 1
    BY <2>1, <1>12, <1>14, <1>17
  <2>2. CASE i = n
    BY <2>2, <1>1, <1>11, <1>14, <1>16, <1>17
  <2>3. CASE i # n + 1 /\ i # n
    <3>1. i \in 1 .. n - 1 /\ i \in 1 .. n
      BY <2>3, <1>1
    <3> QED BY <2>3, <3>1, <1>13, <1>14, <1>16, <1>17
  <2> QED BY <2>1, <2>2, <2>3
<1>19. View(t) = Append(cut, callee)
  <2>1. Len(View(t)) = Len(Append(cut, callee))
    BY <1>14, <1>17
  <2>2. \A i \in 1 .. Len(View(t)) : View(t)[i] = Append(cut, callee)[i]
    BY <1>14, <1>18
  <2>3. View(t) \in Seq(Activation) /\ Append(cut, callee) \in Seq(Activation)
    BY <1>14, <1>17
  <2> QED BY <2>1, <2>2, <2>3, SeqEqual
<1>20. v[n].own = own /\ cut = Replaced(v, n, WithKept(v[n], left))
  BY <1>1, <1>10, <1>14, SMTT(20) DEF cut, caller
<1>21. left \in 0 .. Len(v[n].own)
  BY <1>8, <1>20
<1> QED BY <1>5, <1>19, <1>20, <1>21 DEF Entering, callee

-----------------------------------------------------------------------------
\* The refinement mapping is the view of the current storage.
LEMMA Mapping == [i \in 1 .. Len(frames) |-> ActivationOf(i)] = View(Current)
BY DEF View, Shown, To, Current, ActivationOf, OwnedFrom, OwnedTo

LEMMA MappingNext ==
  ASSUME NEW t, Commit(t)
  PROVE  [i \in 1 .. Len(frames) |-> ActivationOf(i)]' = View(t)
<1>1. frames' = t.frames /\ stack' = t.stack
  BY DEF Commit
<1> QED BY <1>1 DEF View, Shown, To, ActivationOf, OwnedFrom, OwnedTo

\* The three ways an instruction passes the storage on are the three actions of
\* Activations.
LEMMA WithinWorks ==
  ASSUME Sound(Current), NEW t, Sound(t), Commit(t), pc' \in Address, Within(Current, t)
  PROVE  Abstract!Work
<1>1. /\ Len(View(t)) = Len(View(Current))
      /\ View(t)[Len(View(Current))] \in Activation
      /\ View(t)[Len(View(Current))].resume = View(Current)[Len(View(Current))].resume
      /\ View(t) = [View(Current) EXCEPT ![Len(View(Current))] =
                                            View(t)[Len(View(Current))]]
  BY WithinView
<1>2. /\ [i \in 1 .. Len(frames) |-> ActivationOf(i)] = View(Current)
      /\ [i \in 1 .. Len(frames) |-> ActivationOf(i)]' = View(t)
  BY Mapping, MappingNext
<1> QED BY <1>1, <1>2 DEF Abstract!Work, Abstract!Activation, Activation

LEMMA LeftLeaves ==
  ASSUME Sound(Current), NEW t, Sound(t), Commit(t), Left(Current, t, pc')
  PROVE  Abstract!Leave
<1>1. PICK u : /\ Sound(u) /\ Within(Current, u) /\ CanReturn(u) /\ pc' = Top(u).returnPC
               /\ \/ t = Returned(u)
                  \/ \E number \in Variable, value \in Word :
                        /\ CanWriteVariable(number, Returned(u))
                        /\ t = WriteVariable(number, value, Returned(u))
  BY DEF Left
<1> DEFINE v == [i \in 1 .. Len(frames) |-> ActivationOf(i)]
           caller == Len(v) - 1
           rest == SubSeq(v, 1, caller)
           r == Returned(u)
<1>2. v = View(Current) /\ v' = View(t)
  BY Mapping, MappingNext
<1> HIDE DEF v, r
<1>3. /\ Len(v) \in Nat /\ Len(v) > 1
      /\ Len(v) = Len(Current.frames) /\ Len(v) = Len(u.frames)
  BY <1>1, <1>2, ViewType, WithinShown, TopOfSound DEF CanReturn
<1>4. pc' = v[Len(v)].resume
  <2>1. v[Len(v)] = Shown(Current, Len(v))
    BY <1>2, <1>3, ViewType
  <2>2. v[Len(v)].resume = Current.frames[Len(v)].returnPC
    BY <2>1 DEF Shown
  <2>3. Top(u).returnPC = Top(Current).returnPC
    BY <1>1, WithinShown
  <2>4. Top(Current).returnPC = Current.frames[Len(v)].returnPC
    BY <1>3 DEF Top
  <2> QED BY <1>1, <2>2, <2>3, <2>4
<1>5. View(r) = rest /\ Sound(r) /\ Len(r.frames) = caller
  <2>1. View(r) = SubSeq(View(u), 1, caller)
    BY <1>1, <1>3, ReturnedView DEF r
  <2>2. SubSeq(View(u), 1, caller) = rest
    BY <1>1, <1>2, <1>3, CallersView
  <2>3. Sound(r) /\ Len(r.frames) = caller
    BY <1>1, <1>3, ReturnedSound DEF r
  <2> QED BY <2>1, <2>2, <2>3
<1>6. \/ v' = rest
      \/ \E value \in Word : v' = Replaced(rest, caller, WithPushed(rest[caller], value))
      \/ \E value \in Word, name \in Local :
            v' = Replaced(rest, caller, WithLocal(rest[caller], name, value))
  <2>1. CASE t = r
    BY <2>1, <1>2, <1>5
  <2>2. ASSUME NEW number \in Variable, NEW value \in Word,
               CanWriteVariable(number, r), t = WriteVariable(number, value, r)
        PROVE  \/ v' = rest
               \/ v' = Replaced(rest, caller, WithPushed(rest[caller], value))
               \/ \E name \in Local :
                     v' = Replaced(rest, caller, WithLocal(rest[caller], name, value))
    <3> HIDE DEF rest, caller
    <3>1. rest = View(r) /\ v' = View(t) /\ caller = Len(r.frames) /\ Sound(r)
      BY <1>2, <1>5
    <3> QED BY <2>2, <3>1, DeliveredView
  <2> QED BY <1>1, <2>1, <2>2 DEF r
<1>7. Len(v) > 1 /\ pc' = v[Len(v)].resume
  BY <1>3, <1>4
<1> QED BY <1>6, <1>7
       DEF Abstract!Leave, Abstract!Innermost, Replaced, WithPushed, WithLocal, v

LEMMA EnteredEnters ==
  ASSUME Sound(Current), NEW t, Sound(t), Commit(t), pc' \in Address, Entered(Current, t)
  PROVE  Abstract!Enter
<1> DEFINE v == [i \in 1 .. Len(frames) |-> ActivationOf(i)]
<1>1. v = View(Current) /\ v' = View(t)
  BY Mapping, MappingNext
<1> HIDE DEF v
<1>2. Len(v) = Len(Current.frames) /\ Len(v) < MaxDepth
  BY <1>1, ViewType DEF Entered
<1>3. Entering(v, v', Len(v))
  BY <1>1, <1>2, EnteredView
<1> QED BY <1>2, <1>3 DEF Entering, Abstract!Enter, Abstract!Innermost, Replaced, WithKept, v

\* Every instruction is a step of Activations.
LEMMA InstructionRefines ==
  ASSUME IInv, Instruction
  PROVE  Abstract!Next
<1>1. Sound(Current)
  BY SoundCurrent DEF IInv, TypeOK, MemoryTypeOK
<1>2. PICK t : /\ Sound(t) /\ Commit(t) /\ Passes(Current, t, pc') /\ pc' \in Address
  BY InstructionDone DEF Done
<1>3. CASE Within(Current, t)
  BY <1>1, <1>2, <1>3, WithinWorks DEF Abstract!Next
<1>4. CASE Left(Current, t, pc')
  BY <1>1, <1>2, <1>4, LeftLeaves DEF Abstract!Next
<1>5. CASE Entered(Current, t)
  BY <1>1, <1>2, <1>5, EnteredEnters DEF Abstract!Next
<1> QED BY <1>2, <1>3, <1>4, <1>5 DEF Passes

\* The initial frame shows as the activation a story starts in.
LEMMA InitRefines == Init => Abstract!Init
<1> SUFFICES ASSUME Init PROVE Abstract!Init
  OBVIOUS
<1>1. frames = <<BaseFrame>> /\ stack = <<>> /\ pc = InitialPC
  BY DEF Init
<1>2. Len(frames) = 1 /\ frames[1] = BaseFrame
  BY <1>1
<1>3. ActivationOf(1) = [resume |-> InitialPC, locals |-> BaseFrame.locals, own |-> <<>>]
  <2>1. SubSeq(stack, OwnedFrom(1), OwnedTo(1)) = <<>>
    <3>1. OwnedFrom(1) = 1 /\ OwnedTo(1) = 0
      BY <1>1, <1>2 DEF OwnedFrom, OwnedTo, BaseFrame
    <3> QED BY <3>1, SubSeqEmpty
  <2>2. frames[1].returnPC = InitialPC /\ frames[1].locals = BaseFrame.locals
    BY <1>2 DEF BaseFrame
  <2> QED BY <2>1, <2>2 DEF ActivationOf
<1> DEFINE root == [resume |-> InitialPC, locals |-> BaseFrame.locals, own |-> <<>>]
<1>4. [i \in 1 .. Len(frames) |-> ActivationOf(i)] = <<root>>
  BY <1>2, <1>3
<1>5. root.resume = InitialPC
  OBVIOUS
<1> HIDE DEF root
<1> QED BY <1>1, <1>4, <1>5 DEF Abstract!Init, root

\* Whatever the story does, the frames, the watermarks and the one evaluation
\* stack they share (routine.go, stack.go) behave as if each activation had a
\* stack of its own, created empty by the call and gone with the return; an
\* instruction works on the innermost activation, and a return resumes the one
\* below it where that one called.
THEOREM RoutinesImplementActivations == Spec => PrivateStacks
<1>1. IInv /\ [Instruction]_machineVars => IInv'
  <2>1. IInv /\ Instruction => IInv'
    BY InstructionDone, DonePreserves
  <2>2. IInv /\ UNCHANGED machineVars => IInv'
    BY DEF IInv, TypeOK, MemoryTypeOK, FramesNested, machineVars
  <2> QED BY <2>1, <2>2
<1>2. IInv /\ [Instruction]_machineVars => [Abstract!Next]_(Abstract!vars)
  <2>1. IInv /\ Instruction => Abstract!Next
    BY InstructionRefines
  <2>2. UNCHANGED machineVars => UNCHANGED Abstract!vars
    BY DEF machineVars, Abstract!vars, ActivationOf, OwnedFrom, OwnedTo
  <2> QED BY <2>1, <2>2
<1> QED BY <1>1, <1>2, InitIInv, InitRefines, PTL DEF Spec, PrivateStacks, Abstract!Spec

-----------------------------------------------------------------------------
(* Saved states.                                                           *)

\* What Watermark and RestoredStack compute.

\* A chain of saved frames with a stack of words each.
HaveStacks(saved) ==
    /\ Len(saved) \in Nat \ {0}
    /\ \A i \in 1 .. Len(saved) :
          saved[i].evaluation \in Seq(Word) /\ Len(saved[i].evaluation) \in Nat

\* Each begins where the one below it ends.
LEMMA WatermarkSteps ==
  ASSUME NEW saved, HaveStacks(saved)
  PROVE  /\ Watermark(saved)[1] = 0
         /\ \A i \in 1 .. Len(saved) : Watermark(saved)[i] \in Nat
         /\ \A i \in 1 .. Len(saved) - 1 :
               Watermark(saved)[i + 1] = Watermark(saved)[i] + Len(saved[i].evaluation)
<1> DEFINE n == Len(saved)
           Words(k) == IF k \in 1 .. n THEN Len(saved[k].evaluation) ELSE 0
           step == [kx \in Nat \X Nat |-> kx[2] + Words(kx[1])]
           Steps(below) == [i \in 1 .. n |->
                               IF i = 1 THEN 0 ELSE below[i - 1] + Len(saved[i - 1].evaluation)]
<1>1. n \in Nat /\ n >= 1 /\ \A k \in 1 .. n : Len(saved[k].evaluation) \in Nat
  BY DEF HaveStacks
<1> HIDE DEF n
<1>2. \A k \in Nat : Words(k) \in Nat
  BY <1>1
<1>3. step \in [Nat \X Nat -> Nat] /\ \A k, x \in Nat : step[<<k, x>>] = x + Words(k)
  <2> HIDE DEF Words
  <2> QED BY <1>2
<1>4. \A k \in 1 .. n : Words(k) = Len(saved[k].evaluation)
  OBVIOUS
<1> HIDE DEF step, Words
<1>5. PICK g : Unfolds(g, Nat, n, 0, step)
  BY <1>1, <1>3, RecursionExists
<1>6. /\ g[0] = 0 /\ \A k \in 0 .. n : g[k] \in Nat
      /\ \A k \in 1 .. n : g[k] = step[<<k, g[k - 1]>>]
  BY <1>5 DEF Unfolds
<1>7. \A k \in 1 .. n : g[k] = g[k - 1] + Len(saved[k].evaluation)
  <2> SUFFICES ASSUME NEW k \in 1 .. n
               PROVE  g[k] = g[k - 1] + Len(saved[k].evaluation)
    OBVIOUS
  <2>1. k \in Nat /\ k - 1 \in 0 .. n
    BY <1>1
  <2>2. g[k - 1] \in Nat
    BY <1>6, <2>1
  <2> QED BY <1>3, <1>4, <1>6, <2>1, <2>2
<1>8. PICK f : f = [i \in 1 .. n |-> g[i - 1]]
  OBVIOUS
<1>9. \A i \in 1 .. n : Steps(f)[i] = g[i - 1]
  <2> SUFFICES ASSUME NEW i \in 1 .. n
               PROVE  Steps(f)[i] = g[i - 1]
    OBVIOUS
  <2>1. CASE i = 1
    BY <1>6, <2>1
  <2>2. CASE i # 1
    <3>1. i - 1 \in 1 .. n
      BY <1>1, <2>2
    <3>2. f[i - 1] = g[i - 1 - 1]
      BY <1>8, <3>1
    <3>3. g[i - 1] = g[i - 1 - 1] + Len(saved[i - 1].evaluation)
      BY <1>7, <3>1
    <3> QED BY <2>2, <3>2, <3>3
  <2> QED BY <2>1, <2>2
<1>10. f = Steps(f)
  <2>1. Steps(f) = [i \in 1 .. n |-> Steps(f)[i]]
    OBVIOUS
  <2> HIDE DEF Steps
  <2> QED BY <1>8, <1>9, <2>1
<1>11. Watermark(saved) = CHOOSE below : below = Steps(below)
  BY DEF Watermark, n
<1>12. PICK w : w = Watermark(saved)
  OBVIOUS
<1>13. w = Steps(w)
  <2> HIDE DEF Steps
  <2> QED BY <1>10, <1>11, <1>12
<1>14. w[1] = 0
  BY <1>1, <1>13
<1>15. \A i \in 1 .. n - 1 : w[i + 1] = w[i] + Len(saved[i].evaluation)
  <2> SUFFICES ASSUME NEW i \in 1 .. n - 1
               PROVE  w[i + 1] = w[i] + Len(saved[i].evaluation)
    OBVIOUS
  <2>1. i + 1 \in 1 .. n /\ i + 1 # 1 /\ (i + 1) - 1 = i
    BY <1>1
  <2> QED BY <1>13, <2>1
<1> DEFINE S == {k \in Nat : k + 1 <= n => w[k + 1] \in Nat}
<1>16. 0 \in S
  BY <1>14
<1>17. ASSUME NEW k \in Nat, k \in S
       PROVE  k + 1 \in S
  <2> SUFFICES ASSUME k + 1 + 1 <= n
               PROVE  w[k + 1 + 1] \in Nat
    OBVIOUS
  <2>1. k + 1 \in 1 .. n - 1 /\ k + 1 \in 1 .. n /\ k + 1 <= n
    BY <1>1
  <2>2. w[k + 1] \in Nat
    BY <1>17, <2>1
  <2> QED BY <1>1, <1>15, <2>1, <2>2, SMTT(20)
<1> HIDE DEF S
<1>18. Nat \subseteq S
  BY <1>16, <1>17, SetInduction
<1>19. \A i \in 1 .. n : w[i] \in Nat
  <2> SUFFICES ASSUME NEW i \in 1 .. n
               PROVE  w[i] \in Nat
    OBVIOUS
  <2>1. i - 1 \in Nat /\ (i - 1) + 1 = i /\ i <= n
    BY <1>1
  <2> QED BY <1>18, <2>1 DEF S
<1> QED BY <1>12, <1>14, <1>15, <1>19 DEF n

\* The stacks of the first i frames in one.
Joining(saved, joined) ==
    /\ joined[0] = <<>>
    /\ \A i \in 0 .. Len(saved) : joined[i] \in Seq(Word)
    /\ \A i \in 1 .. Len(saved) : joined[i] = joined[i - 1] \o saved[i].evaluation
    /\ RestoredStack(saved) = joined[Len(saved)]

LEMMA StacksJoin ==
  ASSUME NEW saved, HaveStacks(saved)
  PROVE  \E joined : Joining(saved, joined)
<1> DEFINE n == Len(saved)
           Words(k) == IF k \in 1 .. n THEN saved[k].evaluation ELSE <<>>
           step == [kx \in Nat \X Seq(Word) |-> kx[2] \o Words(kx[1])]
           Steps(joined) == [i \in 0 .. n |->
                                IF i = 0 THEN <<>> ELSE joined[i - 1] \o saved[i].evaluation]
<1>1. n \in Nat /\ n >= 1 /\ \A k \in 1 .. n : saved[k].evaluation \in Seq(Word)
  BY DEF HaveStacks
<1> HIDE DEF n
<1>2. <<>> \in Seq(Word) /\ \A k \in Nat : Words(k) \in Seq(Word)
  BY <1>1, EmptySeq
<1>3. /\ step \in [Nat \X Seq(Word) -> Seq(Word)]
      /\ \A k \in Nat, x \in Seq(Word) : step[<<k, x>>] = x \o Words(k)
  <2> HIDE DEF Words
  <2> QED BY <1>2, ConcatProperties
<1>4. \A k \in 1 .. n : Words(k) = saved[k].evaluation
  OBVIOUS
<1> HIDE DEF step, Words
<1>5. PICK f : Unfolds(f, Seq(Word), n, <<>>, step)
  BY <1>1, <1>2, <1>3, RecursionExists
<1>6. /\ f[0] = <<>> /\ f \in [0 .. n -> Seq(Word)]
      /\ \A k \in 1 .. n : f[k] = step[<<k, f[k - 1]>>]
  BY <1>5 DEF Unfolds
<1>7. \A k \in 1 .. n : f[k] = f[k - 1] \o saved[k].evaluation
  <2> SUFFICES ASSUME NEW k \in 1 .. n
               PROVE  f[k] = f[k - 1] \o saved[k].evaluation
    OBVIOUS
  <2>1. k \in Nat /\ k - 1 \in 0 .. n
    BY <1>1
  <2>2. f[k - 1] \in Seq(Word)
    BY <1>6, <2>1
  <2> QED BY <1>3, <1>4, <1>6, <2>1, <2>2
<1>8. \A i \in 0 .. n : Steps(f)[i] = f[i]
  <2> SUFFICES ASSUME NEW i \in 0 .. n
               PROVE  Steps(f)[i] = f[i]
    OBVIOUS
  <2>1. i # 0 => i \in 1 .. n
    BY <1>1
  <2> QED BY <1>6, <1>7, <2>1
<1>9. f = Steps(f)
  <2>1. Steps(f) = [i \in 0 .. n |-> Steps(f)[i]] /\ f = [i \in 0 .. n |-> f[i]]
    BY <1>6
  <2> HIDE DEF Steps
  <2> QED BY <1>8, <2>1
<1>10. RestoredStack(saved) = (CHOOSE joined : joined = Steps(joined))[n]
  BY DEF RestoredStack, n
<1>11. PICK w : w = CHOOSE joined : joined = Steps(joined)
  OBVIOUS
<1>12. w = Steps(w)
  <2> HIDE DEF Steps
  <2> QED BY <1>9, <1>11
<1>13. w[0] = <<>> /\ \A i \in 1 .. n : w[i] = w[i - 1] \o saved[i].evaluation
  <2>1. 0 \in 0 .. n /\ \A i \in 1 .. n : i \in 0 .. n /\ i # 0
    BY <1>1
  <2> QED BY <1>12, <2>1
<1> DEFINE S == {k \in Nat : k <= n => w[k] \in Seq(Word)}
<1>14. 0 \in S
  BY <1>2, <1>13
<1>15. ASSUME NEW k \in Nat, k \in S
       PROVE  k + 1 \in S
  <2> SUFFICES ASSUME k + 1 <= n
               PROVE  w[k + 1] \in Seq(Word)
    OBVIOUS
  <2>1. k + 1 \in 1 .. n /\ (k + 1) - 1 = k /\ k <= n
    BY <1>1
  <2>2. w[k] \in Seq(Word) /\ saved[k + 1].evaluation \in Seq(Word)
    BY <1>1, <1>15, <2>1
  <2>3. w[k + 1] = w[k] \o saved[k + 1].evaluation
    BY <1>13, <2>1
  <2> QED BY <2>2, <2>3, ConcatProperties
<1> HIDE DEF S
<1>16. Nat \subseteq S
  BY <1>14, <1>15, SetInduction
<1>17. \A i \in 0 .. n : w[i] \in Seq(Word)
  BY <1>1, <1>16 DEF S
<1>18. Joining(saved, w)
  BY <1>10, <1>11, <1>13, <1>17 DEF Joining, n
<1> QED BY <1>18

\* The watermarks are the heights of the joined stacks.
LEMMA JoinedHeights ==
  ASSUME NEW saved, HaveStacks(saved)
  PROVE  RestoredStack(saved) \in Seq(Word) /\ Len(RestoredStack(saved)) = StackWords(saved)
<1> DEFINE n == Len(saved)
<1>1. n \in Nat /\ n >= 1
  BY DEF HaveStacks
<1>2. PICK joined : Joining(saved, joined)
  BY StacksJoin
<1>3. PICK w : w = Watermark(saved)
  OBVIOUS
<1>4. w[1] = 0 /\ \A i \in 1 .. n - 1 : w[i + 1] = w[i] + Len(saved[i].evaluation)
  BY <1>3, WatermarkSteps
<1>5. /\ joined[0] = <<>> /\ RestoredStack(saved) = joined[n]
      /\ \A i \in 0 .. n : joined[i] \in Seq(Word)
      /\ \A i \in 1 .. n : joined[i] = joined[i - 1] \o saved[i].evaluation
  BY <1>2 DEF Joining
<1>6. \A i \in 1 .. n : saved[i].evaluation \in Seq(Word)
  BY DEF HaveStacks
<1> HIDE DEF n
<1>7. \A i \in 1 .. n : Len(joined[i]) = Len(joined[i - 1]) + Len(saved[i].evaluation)
  <2> SUFFICES ASSUME NEW i \in 1 .. n
               PROVE  Len(joined[i]) = Len(joined[i - 1]) + Len(saved[i].evaluation)
    OBVIOUS
  <2>1. i - 1 \in 0 .. n
    BY <1>1
  <2>2. PICK below, words : below = joined[i - 1] /\ words = saved[i].evaluation
    OBVIOUS
  <2>3. below \in Seq(Word) /\ words \in Seq(Word)
    BY <1>5, <1>6, <2>1, <2>2
  <2>4. Len(below \o words) = Len(below) + Len(words)
    BY <2>3, ConcatProperties
  <2> QED BY <1>5, <2>2, <2>4
<1> DEFINE S == {k \in Nat : k + 1 <= n => Len(joined[k]) = w[k + 1]}
<1>8. 0 \in S
  BY <1>4, <1>5
<1>9. ASSUME NEW k \in Nat, k \in S
      PROVE  k + 1 \in S
  <2> SUFFICES ASSUME k + 1 + 1 <= n
               PROVE  Len(joined[k + 1]) = w[k + 1 + 1]
    OBVIOUS
  <2>1. /\ k + 1 \in 1 .. n - 1 /\ k + 1 \in 1 .. n /\ k + 1 <= n /\ (k + 1) - 1 = k
    BY <1>1
  <2>2. Len(joined[k]) = w[k + 1]
    BY <1>9, <2>1
  <2>3. Len(joined[k + 1]) = Len(joined[k]) + Len(saved[k + 1].evaluation)
    BY <1>7, <2>1
  <2>4. w[k + 1 + 1] = w[k + 1] + Len(saved[k + 1].evaluation)
    BY <1>4, <2>1
  <2> QED BY <2>2, <2>3, <2>4
<1> HIDE DEF S
<1>10. Nat \subseteq S
  BY <1>8, <1>9, SetInduction
<1>11. Len(joined[n - 1]) = w[n]
  <2>1. n - 1 \in Nat /\ (n - 1) + 1 = n
    BY <1>1
  <2> QED BY <1>10, <2>1 DEF S
<1>12. n \in 1 .. n /\ n \in 0 .. n
  BY <1>1
<1>13. Len(joined[n]) = w[n] + Len(saved[n].evaluation)
  BY <1>7, <1>11, <1>12
<1> QED BY <1>3, <1>5, <1>12, <1>13 DEF StackWords, n

\* They rise along the chain, and none lies above the top of the stack.
LEMMA WatermarksRise ==
  ASSUME NEW saved, HaveStacks(saved)
  PROVE  /\ StackWords(saved) \in Nat
         /\ \A i \in 1 .. Len(saved) : Watermark(saved)[i] <= StackWords(saved)
         /\ \A i, j \in 1 .. Len(saved) :
               i <= j => Watermark(saved)[i] <= Watermark(saved)[j]
<1> DEFINE n == Len(saved)
<1>1. n \in Nat /\ n >= 1 /\ \A i \in 1 .. n : Len(saved[i].evaluation) \in Nat
  BY DEF HaveStacks
<1>2. PICK w : w = Watermark(saved)
  OBVIOUS
<1>3. /\ \A i \in 1 .. n : w[i] \in Nat
      /\ \A i \in 1 .. n - 1 : w[i + 1] = w[i] + Len(saved[i].evaluation)
  BY <1>2, WatermarkSteps
<1>4. StackWords(saved) = w[n] + Len(saved[n].evaluation)
  BY <1>2 DEF StackWords
<1> HIDE DEF n
<1> DEFINE S == {d \in Nat : \A i \in 1 .. n : i + d <= n => w[i] <= w[i + d]}
<1>5. 0 \in S
  BY <1>1, <1>3
<1>6. ASSUME NEW d \in Nat, d \in S
      PROVE  d + 1 \in S
  <2> SUFFICES ASSUME NEW i \in 1 .. n, i + (d + 1) <= n
               PROVE  w[i] <= w[i + (d + 1)]
    OBVIOUS
  <2>1. /\ i + d \in 1 .. n - 1 /\ i + d \in 1 .. n /\ i + d <= n
        /\ (i + d) + 1 = i + (d + 1) /\ i + (d + 1) \in 1 .. n
    BY <1>1
  <2>2. w[i] <= w[i + d]
    BY <1>6, <2>1
  <2>3. w[i + (d + 1)] = w[i + d] + Len(saved[i + d].evaluation)
    BY <1>3, <2>1
  <2>4. /\ w[i] \in Nat /\ w[i + d] \in Nat /\ w[i + (d + 1)] \in Nat
        /\ Len(saved[i + d].evaluation) \in Nat
    BY <1>1, <1>3, <2>1
  <2> QED BY <2>2, <2>3, <2>4
<1> HIDE DEF S
<1>7. Nat \subseteq S
  BY <1>5, <1>6, SetInduction
<1>8. \A i, j \in 1 .. n : i <= j => w[i] <= w[j]
  <2> SUFFICES ASSUME NEW i \in 1 .. n, NEW j \in 1 .. n, i <= j
               PROVE  w[i] <= w[j]
    OBVIOUS
  <2>1. j - i \in Nat /\ i + (j - i) = j /\ j <= n
    BY <1>1
  <2> QED BY <1>7, <2>1 DEF S
<1>9. n \in 1 .. n /\ w[n] \in Nat /\ Len(saved[n].evaluation) \in Nat
  BY <1>1, <1>3
<1>10. StackWords(saved) \in Nat /\ w[n] <= StackWords(saved)
  BY <1>4, <1>9
<1>11. \A i \in 1 .. n : w[i] <= StackWords(saved)
  <2> SUFFICES ASSUME NEW i \in 1 .. n
               PROVE  w[i] <= StackWords(saved)
    OBVIOUS
  <2>1. w[i] <= w[n] /\ w[i] \in Nat
    BY <1>1, <1>3, <1>8, <1>9
  <2> QED BY <1>9, <1>10, <2>1
<1> QED BY <1>2, <1>8, <1>10, <1>11 DEF n

-----------------------------------------------------------------------------
\* A chain that restoredFrames accepts gives a machine the call chain that its
\* own instructions would have left.

LEMMA UpToSequences ==
  ASSUME NEW S, NEW n \in Nat, NEW s \in SequencesUpTo(S, n)
  PROVE  s \in Seq(S) /\ Len(s) \in Nat /\ \A i \in 1 .. Len(s) : s[i] \in S
<1>1. PICK k \in 0 .. n : s \in [1 .. k -> S]
  BY DEF SequencesUpTo
<1>2. k \in Nat
  OBVIOUS
<1>3. s \in Seq(S)
  BY <1>1, <1>2, SeqDef
<1> QED BY <1>3, LenProperties, ElementOfSeq

LEMMA ChainsHaveStacks ==
  ASSUME NEW saved \in Chains
  PROVE  /\ HaveStacks(saved)
         /\ \A i \in 2 .. Len(saved) : saved[i] \in SavedFrame
<1> DEFINE dummies == {DummyFrame(words) : words \in SequencesUpTo(Word, MaxStack + 1)}
           Joined(d, rest) == <<d>> \o rest
           ChainsOf(n) == {Joined(d, rest) : d \in dummies, rest \in [1 .. n -> SavedFrame]}
<1>0. PICK n \in 0 .. MaxDepth - 1 : saved \in ChainsOf(n)
  <2>1. Chains = UNION {ChainsOf(n) : n \in 0 .. MaxDepth - 1}
    BY DEF Chains
  <2> HIDE DEF ChainsOf
  <2> QED BY <2>1
<1>1. PICK words \in SequencesUpTo(Word, MaxStack + 1), rest \in [1 .. n -> SavedFrame] :
         saved = <<DummyFrame(words)>> \o rest
  <2>1. PICK d \in dummies, rest \in [1 .. n -> SavedFrame] : saved = <<d>> \o rest
    <3>1. PICK d \in dummies, rest \in [1 .. n -> SavedFrame] : saved = Joined(d, rest)
      <4> HIDE DEF dummies, Joined
      <4> QED BY <1>0
    <3> QED BY <3>1
  <2>2. PICK words \in SequencesUpTo(Word, MaxStack + 1) : d = DummyFrame(words)
    OBVIOUS
  <2> QED BY <2>1, <2>2
<1> DEFINE d == DummyFrame(words)
           All == SavedFrame \cup {d}
<1>2. n \in Nat /\ MaxStack + 1 \in Nat
  BY RoutinesAssumption
<1>3. rest \in [1 .. n -> All]
  BY <1>1
<1>4. rest \in Seq(All) /\ Len(rest) = n /\ \A i \in 1 .. n : rest[i] \in SavedFrame
  BY <1>2, <1>3, <1>1, SeqDef
<1>5. <<d>> \in Seq(All) /\ Len(<<d>>) = 1 /\ <<d>>[1] = d
  <2> HIDE DEF d
  <2> QED OBVIOUS
<1> HIDE DEF All, d
<1>6. /\ Len(saved) = 1 + n
      /\ \A i \in 1 .. 1 + n : saved[i] = IF i <= 1 THEN <<d>>[i] ELSE rest[i - 1]
  BY <1>1, <1>4, <1>5, ConcatProperties DEF d
<1>7. saved[1] = d
  BY <1>2, <1>5, <1>6
<1>8. \A i \in 2 .. 1 + n : saved[i] \in SavedFrame
  <2> SUFFICES ASSUME NEW i \in 2 .. 1 + n
               PROVE  saved[i] \in SavedFrame
    OBVIOUS
  <2>1. i \in 1 .. 1 + n /\ ~(i <= 1) /\ i - 1 \in 1 .. n
    BY <1>2
  <2> QED BY <1>4, <1>6, <2>1
<1>9. d.evaluation \in SequencesUpTo(Word, MaxStack + 1)
  BY DEF d, DummyFrame
<1>10. ASSUME NEW i \in 1 .. 1 + n
       PROVE  saved[i].evaluation \in SequencesUpTo(Word, MaxStack + 1)
  <2>1. CASE i = 1
    BY <1>7, <1>9, <2>1
  <2>2. CASE i # 1
    <3>1. saved[i] \in SavedFrame
      BY <1>2, <1>8, <2>2
    <3> QED BY <3>1 DEF SavedFrame
  <2> QED BY <2>1, <2>2
<1>11. HaveStacks(saved)
  BY <1>2, <1>6, <1>10, UpToSequences DEF HaveStacks
<1> QED BY <1>6, <1>8, <1>11

LEMMA FrameComesBackSound ==
  ASSUME NEW saved, HaveStacks(saved), AcceptsFrames(saved),
         \A i \in 2 .. Len(saved) : saved[i] \in SavedFrame,
         NEW i \in 1 .. Len(saved)
  PROVE  /\ RestoredFrame(saved, i) \in Frame
         /\ RestoredFrame(saved, i).stackBase = Watermark(saved)[i]
         /\ \A l \in Local : l > RestoredFrame(saved, i).numLocals =>
                                RestoredFrame(saved, i).locals[l] = 0
<1>1. PICK f : f = RestoredFrame(saved, i)
  OBVIOUS
<1>2. PICK base : base = Watermark(saved)[i]
  OBVIOUS
<1>3. base \in 0 .. MaxStack
  <2>1. base \in Nat /\ StackWords(saved) \in Nat /\ base <= StackWords(saved)
    BY <1>2, WatermarkSteps, WatermarksRise
  <2>2. StackWords(saved) <= MaxStack /\ MaxStack \in Nat
    BY RoutinesAssumption DEF AcceptsFrames, FitsStack
  <2> QED BY <2>1, <2>2
<1>4. CASE i = 1
  <2>1. f = BaseFrame
    BY <1>1, <1>4 DEF RestoredFrame
  <2>2. BaseFrame \in Frame
    BY MemoryAssumption, RoutinesAssumption
       DEF BaseFrame, Frame, Word, Variable, VariableCount
  <2>3. BaseFrame.stackBase = 0 /\ \A l \in Local : BaseFrame.locals[l] = 0
    BY DEF BaseFrame
  <2>4. base = 0
    BY <1>2, <1>4, WatermarkSteps
  <2> QED BY <1>1, <1>2, <2>1, <2>2, <2>3, <2>4
<1>5. CASE i # 1
  <2>1. i \in 2 .. Len(saved)
    BY <1>5 DEF HaveStacks
  <2>2. PICK g \in SavedFrame : g = saved[i]
    BY <2>1
  <2>3. /\ g.returnPC \in Address /\ g.discard \in BOOLEAN /\ g.result \in Variable
        /\ g.arguments \in SUBSET (1 .. MaxArguments)
        /\ g.locals \in SequencesUpTo(Word, MaxLocals + 1)
    BY DEF SavedFrame
  <2>4. PICK locals : locals = [l \in Local |-> IF l <= Len(g.locals) THEN g.locals[l] ELSE 0]
    OBVIOUS
  <2>5. f = [ returnPC |-> g.returnPC, locals |-> locals, numLocals |-> Len(g.locals),
              argCount |-> Cardinality(g.arguments), stackBase |-> base,
              store |-> g.result, hasStore |-> ~g.discard ]
    BY <1>1, <1>2, <1>5, <2>2, <2>4 DEF RestoredFrame
  <2>6. /\ Len(g.locals) \in Nat /\ \A l \in 1 .. Len(g.locals) : g.locals[l] \in Word
        /\ MaxLocals \in Nat
    BY <2>3, RoutinesAssumption, UpToSequences
  <2>7. Len(g.locals) \in 0 .. MaxLocals
    <3>1. Len(g.locals) <= MaxLocals
      BY <2>2 DEF AcceptsFrames
    <3> QED BY <2>6, <3>1
  <2>8. Cardinality(g.arguments) \in 0 .. MaxArguments
    <3>1. MaxArguments \in Nat
      BY RoutinesAssumption
    <3>2. IsFiniteSet(1 .. MaxArguments) /\ Cardinality(1 .. MaxArguments) = MaxArguments
      BY <3>1, FS_Interval
    <3>3. IsFiniteSet(g.arguments) /\ Cardinality(g.arguments) <= MaxArguments
      BY <2>3, <3>2, FS_Subset
    <3>4. Cardinality(g.arguments) \in Nat
      BY <3>3, FS_CardinalityType
    <3> QED BY <3>1, <3>3, <3>4
  <2>9. locals \in [Local -> Word] /\ \A l \in Local : l > Len(g.locals) => locals[l] = 0
    <3>1. 0 \in Word
      BY MemoryAssumption DEF Word
    <3>2. \A l \in Local : l \in Nat /\ l >= 1
      BY <2>6 DEF Local
    <3>3. \A l \in Local : (IF l <= Len(g.locals) THEN g.locals[l] ELSE 0) \in Word
      BY <2>6, <3>1, <3>2
    <3> QED BY <2>4, <2>6, <3>2, <3>3
  <2>10. f \in Frame
    BY <1>3, <2>3, <2>5, <2>7, <2>8, <2>9 DEF Frame
  <2>11. f.stackBase = base /\ f.numLocals = Len(g.locals) /\ f.locals = locals
    BY <2>5
  <2> QED BY <1>1, <1>2, <2>9, <2>10, <2>11
<1> QED BY <1>4, <1>5

\* A restored machine is as sound as a new one.
LEMMA InitRestoredIInv == InitRestored => IInv
<1> SUFFICES ASSUME InitRestored
             PROVE  IInv
  OBVIOUS
<1>1. PICK saved \in Chains :
         /\ AcceptsFrames(saved)
         /\ frames = RestoredFrames(saved) /\ stack = RestoredStack(saved)
         /\ mem \in [Cell -> Word] /\ pc \in Address /\ outcome = "continue"
  BY DEF InitRestored
<1>2. HaveStacks(saved) /\ \A i \in 2 .. Len(saved) : saved[i] \in SavedFrame
  BY ChainsHaveStacks
<1> DEFINE n == Len(saved)
<1>3. n \in Nat /\ n \in 1 .. MaxDepth /\ 1 \in 1 .. n
  BY <1>1, <1>2 DEF HaveStacks, AcceptsFrames
<1>4. \A i \in 1 .. n :
         /\ RestoredFrame(saved, i) \in Frame
         /\ RestoredFrame(saved, i).stackBase = Watermark(saved)[i]
         /\ \A l \in Local : l > RestoredFrame(saved, i).numLocals =>
                                RestoredFrame(saved, i).locals[l] = 0
  BY <1>1, <1>2, FrameComesBackSound
<1>5. frames = [i \in 1 .. n |-> RestoredFrame(saved, i)]
  BY <1>1 DEF RestoredFrames
<1> HIDE DEF n
<1>6. frames \in Seq(Frame) /\ Len(frames) = n
  <2>1. frames \in [1 .. n -> Frame]
    BY <1>4, <1>5
  <2> QED BY <1>3, <2>1, SeqDef
<1>7. \A i \in 1 .. n : frames[i] = RestoredFrame(saved, i)
  BY <1>5
<1>8. stack \in Seq(Word) /\ Len(stack) = StackWords(saved) /\ Len(stack) <= MaxStack
  BY <1>1, <1>2, JoinedHeights DEF AcceptsFrames, FitsStack
<1>9. TypeOK
  BY <1>1, <1>6, <1>8 DEF TypeOK, MemoryTypeOK
<1>10. FramesNested
  <2>1. frames[1] = BaseFrame
    BY <1>3, <1>7 DEF RestoredFrame
  <2>2. \A i \in 1 .. n : frames[i].stackBase = Watermark(saved)[i]
    BY <1>4, <1>7
  <2>3. \A i \in 1 .. n : frames[i].stackBase <= Len(stack)
    BY <1>2, <1>8, <2>2, WatermarksRise DEF n
  <2>4. \A i, j \in 1 .. n : i <= j => frames[i].stackBase <= frames[j].stackBase
    <3>1. \A i, j \in 1 .. n : i <= j => Watermark(saved)[i] <= Watermark(saved)[j]
      BY <1>2, WatermarksRise DEF n
    <3> QED BY <2>2, <3>1
  <2>5. \A i \in 1 .. n : \A l \in Local :
           l > frames[i].numLocals => frames[i].locals[l] = 0
    BY <1>4, <1>7
  <2> QED BY <1>3, <1>6, <1>8, <2>1, <2>3, <2>4, <2>5 DEF FramesNested
<1> QED BY <1>9, <1>10 DEF IInv

-----------------------------------------------------------------------------
\* What saveFrames makes of a sound chain, and what it becomes again.

\* Every frame owns a stretch of the stack, and they lie end to end.
LEMMA OwnedStretches ==
  ASSUME IInv
  PROVE  /\ Len(frames) \in Nat \ {0} /\ frames[1].stackBase = 0
         /\ \A i \in 1 .. Len(frames) :
               /\ frames[i].stackBase \in 0 .. OwnedTo(i) /\ OwnedTo(i) \in 0 .. Len(stack)
         /\ \A i \in 1 .. Len(frames) - 1 : OwnedTo(i) = frames[i + 1].stackBase
         /\ OwnedTo(Len(frames)) = Len(stack)
<1> DEFINE n == Len(frames)
           h == Len(stack)
<1>1. n \in Nat /\ n >= 1 /\ h \in Nat /\ \A i \in 1 .. n : frames[i] \in Frame
  BY LenProperties, ElementOfSeq, RoutinesAssumption DEF IInv, TypeOK, FramesNested
<1>2. /\ \A i \in 1 .. n : frames[i].stackBase \in 0 .. h
      /\ \A i, j \in 1 .. n : i <= j => frames[i].stackBase <= frames[j].stackBase
  <2>1. \A i \in 1 .. n : frames[i].stackBase \in Nat
    BY <1>1, RoutinesAssumption DEF Frame
  <2> QED BY <1>1, <2>1 DEF IInv, FramesNested
<1>3. frames[1].stackBase = 0
  BY DEF IInv, FramesNested, BaseFrame
<1>4. \A i \in 1 .. n : OwnedTo(i) = IF i = n THEN h ELSE frames[i + 1].stackBase
  BY DEF OwnedTo
<1> HIDE DEF n, h
<1>5. ASSUME NEW i \in 1 .. n
      PROVE  frames[i].stackBase \in 0 .. OwnedTo(i) /\ OwnedTo(i) \in 0 .. h
  <2>1. CASE i = n
    BY <1>1, <1>2, <1>4, <2>1
  <2>2. CASE i # n
    <3>1. i + 1 \in 1 .. n /\ i <= i + 1
      BY <1>1, <2>2
    <3>2. frames[i].stackBase <= frames[i + 1].stackBase
      BY <1>2, <3>1
    <3> QED BY <1>1, <1>2, <1>4, <2>2, <3>1, <3>2
  <2> QED BY <2>1, <2>2
<1>6. \A i \in 1 .. n - 1 : OwnedTo(i) = frames[i + 1].stackBase
  <2>1. \A i \in 1 .. n - 1 : i \in 1 .. n /\ i # n
    BY <1>1
  <2> QED BY <1>4, <2>1
<1>7. OwnedTo(n) = h
  BY <1>1, <1>4
<1>8. \A i \in 1 .. n : frames[i].stackBase \in 0 .. OwnedTo(i) /\ OwnedTo(i) \in 0 .. h
  BY <1>5
<1>9. n \in Nat \ {0}
  BY <1>1
<1> QED BY <1>3, <1>6, <1>7, <1>8, <1>9 DEF n, h

LEMMA EvaluationIs ==
  ASSUME IInv, NEW i \in 1 .. Len(frames)
  PROVE  /\ Evaluation(i) = SubSeq(stack, frames[i].stackBase + 1, OwnedTo(i))
         /\ Evaluation(i) \in Seq(Word)
         /\ Len(Evaluation(i)) = OwnedTo(i) - frames[i].stackBase
<1>1. PICK a, b : a = frames[i].stackBase /\ b = OwnedTo(i)
  OBVIOUS
<1>2. a \in Nat /\ b \in Nat /\ a <= b /\ b <= Len(stack) /\ Len(stack) \in Nat
  <2>1. Len(stack) \in Nat
    BY LenProperties DEF IInv, TypeOK
  <2>2. a \in 0 .. b /\ b \in 0 .. Len(stack)
    BY <1>1, OwnedStretches
  <2> QED BY <2>1, <2>2
<1>3. Evaluation(i) = SubSeq(stack, a + 1, b)
  BY <1>1 DEF Evaluation, OwnedFrom
<1>4. \A k \in a + 1 .. b : stack[k] \in Word
  <2>1. \A k \in 1 .. Len(stack) : stack[k] \in Word
    BY ElementOfSeq DEF IInv, TypeOK
  <2> QED BY <1>2, <2>1
<1>5. /\ SubSeq(stack, a + 1, b) \in Seq(Word)
      /\ Len(SubSeq(stack, a + 1, b)) = IF a + 1 <= b THEN b - (a + 1) + 1 ELSE 0
  <2>1. a + 1 \in Int /\ b \in Int
    BY <1>2
  <2> QED BY <1>4, <2>1, SubSeqProperties
<1>6. (IF a + 1 <= b THEN b - (a + 1) + 1 ELSE 0) = b - a
  BY <1>2
<1> QED BY <1>1, <1>3, <1>5, <1>6

\* The parts of a saved frame.
LEMMA SavedParts ==
  ASSUME NEW i
  PROVE  /\ SaveFrame(i).evaluation = Evaluation(i)
         /\ i = 1 => /\ SaveFrame(i) = DummyFrame(Evaluation(i))
                     /\ SaveFrame(i).locals = <<>>
         /\ i # 1 => /\ SaveFrame(i).returnPC = frames[i].returnPC
                     /\ SaveFrame(i).discard = ~frames[i].hasStore
                     /\ SaveFrame(i).result = frames[i].store
                     /\ SaveFrame(i).arguments = 1 .. frames[i].argCount
                     /\ SaveFrame(i).locals =
                           [l \in 1 .. frames[i].numLocals |-> frames[i].locals[l]]
<1>1. CASE i = 1
  <2>1. SaveFrame(i) = DummyFrame(Evaluation(i))
    BY <1>1 DEF SaveFrame
  <2>2. /\ DummyFrame(Evaluation(i)).evaluation = Evaluation(i)
        /\ DummyFrame(Evaluation(i)).locals = <<>>
    BY DEF DummyFrame
  <2> QED BY <1>1, <2>1, <2>2
<1>2. CASE i # 1
  BY <1>2 DEF SaveFrame
<1> QED BY <1>1, <1>2

LEMMA SavedStacks ==
  ASSUME IInv
  PROVE  /\ Len(SaveFrames) = Len(frames) /\ HaveStacks(SaveFrames)
         /\ \A i \in 1 .. Len(frames) : SaveFrames[i] = SaveFrame(i)
         /\ \A i \in 1 .. Len(frames) : SaveFrames[i].evaluation = Evaluation(i)
<1>1. Len(frames) \in Nat \ {0}
  BY OwnedStretches
<1>2. Len(SaveFrames) = Len(frames) /\ \A i \in 1 .. Len(frames) : SaveFrames[i] = SaveFrame(i)
  BY <1>1 DEF SaveFrames
<1>3. \A i \in 1 .. Len(frames) : SaveFrame(i).evaluation = Evaluation(i)
  BY SavedParts
<1>4. \A i \in 1 .. Len(frames) : Evaluation(i) \in Seq(Word) /\ Len(Evaluation(i)) \in Nat
  BY EvaluationIs, LenProperties
<1> QED BY <1>1, <1>2, <1>3, <1>4 DEF HaveStacks

\* The watermarks that were left out come back as the sums of what lies below.
LEMMA WatermarksComeBack ==
  ASSUME IInv
  PROVE  /\ \A i \in 1 .. Len(frames) : Watermark(SaveFrames)[i] = frames[i].stackBase
         /\ StackWords(SaveFrames) = Len(stack)
<1> DEFINE n == Len(frames)
<1>1. PICK s, w : s = SaveFrames /\ w = Watermark(SaveFrames)
  OBVIOUS
<1>2. /\ n \in Nat /\ n >= 1 /\ frames[1].stackBase = 0 /\ OwnedTo(n) = Len(stack)
      /\ \A i \in 1 .. n - 1 : OwnedTo(i) = frames[i + 1].stackBase
      /\ \A i \in 1 .. n : frames[i].stackBase \in Nat /\ OwnedTo(i) \in Nat
  BY OwnedStretches
<1>3. Len(s) = n /\ \A i \in 1 .. n : Len(s[i].evaluation) = OwnedTo(i) - frames[i].stackBase
  BY <1>1, SavedStacks, EvaluationIs
<1>4. w[1] = 0 /\ \A i \in 1 .. n - 1 : w[i + 1] = w[i] + Len(s[i].evaluation)
  BY <1>1, <1>3, SavedStacks, WatermarkSteps
<1> HIDE DEF n
<1> DEFINE S == {k \in Nat : k + 1 <= n => w[k + 1] = frames[k + 1].stackBase}
<1>5. 0 \in S
  BY <1>2, <1>4
<1>6. ASSUME NEW k \in Nat, k \in S
      PROVE  k + 1 \in S
  <2> SUFFICES ASSUME k + 1 + 1 <= n
               PROVE  w[k + 1 + 1] = frames[k + 1 + 1].stackBase
    OBVIOUS
  <2>1. k + 1 \in 1 .. n - 1 /\ k + 1 \in 1 .. n /\ k + 1 <= n /\ k + 1 + 1 \in 1 .. n
    BY <1>2
  <2>2. w[k + 1] = frames[k + 1].stackBase
    BY <1>6, <2>1
  <2>3. w[k + 1 + 1] = w[k + 1] + (OwnedTo(k + 1) - frames[k + 1].stackBase)
    BY <1>3, <1>4, <2>1
  <2>4. OwnedTo(k + 1) = frames[k + 1 + 1].stackBase
    BY <1>2, <2>1
  <2>5. frames[k + 1].stackBase \in Nat /\ frames[k + 1 + 1].stackBase \in Nat
    BY <1>2, <2>1
  <2> QED BY <2>2, <2>3, <2>4, <2>5
<1> HIDE DEF S
<1>7. Nat \subseteq S
  BY <1>5, <1>6, SetInduction
<1>8. \A i \in 1 .. n : w[i] = frames[i].stackBase
  <2> SUFFICES ASSUME NEW i \in 1 .. n
               PROVE  w[i] = frames[i].stackBase
    OBVIOUS
  <2>1. i - 1 \in Nat /\ (i - 1) + 1 = i /\ i <= n
    BY <1>2
  <2> QED BY <1>7, <2>1 DEF S
<1>9. StackWords(SaveFrames) = w[n] + Len(s[n].evaluation)
  BY <1>1, <1>3 DEF StackWords
<1>10. n \in 1 .. n /\ frames[n].stackBase \in Nat /\ Len(stack) \in Nat
  BY <1>2
<1>11. StackWords(SaveFrames) = Len(stack)
  BY <1>2, <1>3, <1>8, <1>9, <1>10
<1> QED BY <1>1, <1>8, <1>11 DEF n

\* The stretches, joined again, are the stack.
LEMMA StackComesBack ==
  ASSUME IInv
  PROVE  RestoredStack(SaveFrames) = stack
<1> DEFINE n == Len(frames)
           h == Len(stack)
<1>1. PICK s : s = SaveFrames
  OBVIOUS
<1>2. PICK joined : Joining(s, joined)
  BY <1>1, SavedStacks, StacksJoin
<1>3. /\ n \in Nat /\ n >= 1 /\ frames[1].stackBase = 0 /\ OwnedTo(n) = h
      /\ \A i \in 1 .. n - 1 : OwnedTo(i) = frames[i + 1].stackBase
      /\ \A i \in 1 .. n : frames[i].stackBase \in 0 .. OwnedTo(i) /\ OwnedTo(i) \in 0 .. h
  BY OwnedStretches
<1>4. stack \in Seq(Word) /\ h \in Nat
  BY LenProperties DEF IInv, TypeOK
<1>5. /\ Len(s) = n
      /\ \A i \in 1 .. n :
            s[i].evaluation = SubSeq(stack, frames[i].stackBase + 1, OwnedTo(i))
  BY <1>1, SavedStacks, EvaluationIs
<1>6. /\ joined[0] = <<>> /\ RestoredStack(s) = joined[n]
      /\ \A i \in 1 .. n : joined[i] = joined[i - 1] \o s[i].evaluation
  BY <1>2, <1>5 DEF Joining
<1> HIDE DEF n, h
<1>7. ASSUME NEW i \in 1 .. n
      PROVE  SubSeq(stack, 1, frames[i].stackBase) \o s[i].evaluation = SubSeq(stack, 1, OwnedTo(i))
  <2>1. PICK a, b : a = frames[i].stackBase /\ b = OwnedTo(i)
    OBVIOUS
  <2>2. a \in Nat /\ b \in Nat /\ a <= b /\ b <= h
    <3>1. a \in 0 .. b /\ b \in 0 .. h
      BY <1>3, <2>1
    <3> QED BY <1>4, <3>1
  <2>3. 1 \in 1 .. Len(stack) + 1 /\ a \in 1 - 1 .. Len(stack) /\ b \in a .. Len(stack)
    BY <1>4, <2>2 DEF h
  <2>4. SubSeq(stack, 1, a) \o SubSeq(stack, a + 1, b) = SubSeq(stack, 1, b)
    BY <1>4, <2>3, ConcatAdjacentSubSeq
  <2> QED BY <1>5, <2>1, <2>4
<1> DEFINE S == {k \in Nat : k + 1 <= n => joined[k + 1] = SubSeq(stack, 1, OwnedTo(k + 1))}
<1>8. 0 \in S
  <2>1. 1 \in 1 .. n /\ SubSeq(stack, 1, 0) = <<>>
    BY <1>3, SubSeqEmpty
  <2>2. joined[1] = <<>> \o s[1].evaluation
    <3>1. joined[1] = joined[1 - 1] \o s[1].evaluation
      BY <1>6, <2>1
    <3>2. joined[1 - 1] = <<>>
      BY <1>6
    <3> QED BY <3>1, <3>2
  <2>3. <<>> \o s[1].evaluation = SubSeq(stack, 1, OwnedTo(1))
    BY <1>3, <1>7, <2>1
  <2> QED BY <2>2, <2>3
<1>9. ASSUME NEW k \in Nat, k \in S
      PROVE  k + 1 \in S
  <2> SUFFICES ASSUME k + 1 + 1 <= n
               PROVE  joined[k + 1 + 1] = SubSeq(stack, 1, OwnedTo(k + 1 + 1))
    OBVIOUS
  <2>1. /\ k + 1 \in 1 .. n - 1 /\ k + 1 <= n /\ k + 1 + 1 \in 1 .. n
        /\ (k + 1 + 1) - 1 = k + 1
    BY <1>3
  <2>2. joined[k + 1] = SubSeq(stack, 1, frames[k + 1 + 1].stackBase)
    BY <1>3, <1>9, <2>1
  <2>3. joined[k + 1 + 1] = joined[k + 1] \o s[k + 1 + 1].evaluation
    BY <1>6, <2>1
  <2> QED BY <1>7, <2>1, <2>2, <2>3
<1> HIDE DEF S
<1>10. Nat \subseteq S
  BY <1>8, <1>9, SetInduction
<1>11. joined[n] = SubSeq(stack, 1, h)
  <2>1. n - 1 \in Nat /\ (n - 1) + 1 = n
    BY <1>3
  <2>2. joined[(n - 1) + 1] = SubSeq(stack, 1, OwnedTo((n - 1) + 1))
    BY <1>10, <2>1 DEF S
  <2> QED BY <1>3, <2>1, <2>2
<1> QED BY <1>1, <1>4, <1>6, <1>11, SubSeqFull DEF h

\* Of a frame only the watermark and the locals that were not declared are left
\* out, and its argument count becomes the size of a set.
LEMMA FrameComesBack ==
  ASSUME IInv, NEW i \in 1 .. Len(frames)
  PROVE  RestoredFrame(SaveFrames, i) = frames[i]
<1>1. CASE i = 1
  BY <1>1 DEF RestoredFrame, IInv, FramesNested
<1>2. CASE i # 1
  <2>1. PICK f \in Frame : f = frames[i]
    BY ElementOfSeq DEF IInv, TypeOK
  <2>2. PICK g : g = SaveFrame(i)
    OBVIOUS
  <2>3. PICK base : base = Watermark(SaveFrames)[i]
    OBVIOUS
  <2>4. base = f.stackBase /\ g = SaveFrames[i]
    BY <2>1, <2>2, <2>3, WatermarksComeBack, SavedStacks
  <2>5. PICK kept : kept = [l \in 1 .. f.numLocals |-> f.locals[l]]
    OBVIOUS
  <2>6. /\ g.returnPC = f.returnPC /\ g.discard = ~f.hasStore /\ g.result = f.store
        /\ g.arguments = 1 .. f.argCount /\ g.locals = kept
    BY <1>2, <2>1, <2>2, <2>5, SavedParts
  <2>7. /\ f.numLocals \in Nat /\ f.numLocals <= MaxLocals /\ f.argCount \in Nat
        /\ MaxLocals \in Nat /\ f.hasStore \in BOOLEAN /\ f.locals \in [Local -> Word]
    BY RoutinesAssumption DEF Frame
  <2>8. Len(kept) = f.numLocals /\ \A l \in 1 .. f.numLocals : kept[l] = f.locals[l]
    BY <2>5, <2>7
  <2>9. Cardinality(g.arguments) = f.argCount
    <3>1. PICK c \in Nat : c = f.argCount
      BY <2>7
    <3>2. Cardinality(1 .. c) = IF 1 > c THEN 0 ELSE c - 1 + 1
      BY FS_Interval
    <3>3. Cardinality(1 .. c) = c
      BY <3>2
    <3> QED BY <2>6, <3>1, <3>3
  <2>10. PICK locals : locals = [l \in Local |-> IF l <= Len(g.locals) THEN g.locals[l] ELSE 0]
    OBVIOUS
  <2>11. locals = f.locals
    <3>1. \A l \in Local : l > f.numLocals => f.locals[l] = 0
      BY <2>1 DEF IInv, FramesNested
    <3>2. ASSUME NEW l \in Local
          PROVE  locals[l] = f.locals[l]
      <4>1. l \in Nat /\ l >= 1
        BY <2>7 DEF Local
      <4>2. CASE l <= f.numLocals
        <5>1. l \in 1 .. f.numLocals
          BY <2>7, <4>1, <4>2
        <5> QED BY <2>6, <2>8, <2>10, <4>2, <5>1
      <4>3. CASE ~(l <= f.numLocals)
        <5>1. l > f.numLocals
          BY <2>7, <4>1, <4>3
        <5> QED BY <2>6, <2>8, <2>10, <3>1, <4>3, <5>1
      <4> QED BY <4>2, <4>3
    <3> QED BY <2>7, <2>10, <3>2
  <2>12. RestoredFrame(SaveFrames, i) =
            [ returnPC |-> g.returnPC, locals |-> locals, numLocals |-> Len(g.locals),
              argCount |-> Cardinality(g.arguments), stackBase |-> base,
              store |-> g.result, hasStore |-> ~g.discard ]
    BY <1>2, <2>3, <2>4, <2>10 DEF RestoredFrame
  <2>13. RestoredFrame(SaveFrames, i) =
            [ returnPC |-> f.returnPC, locals |-> f.locals, numLocals |-> f.numLocals,
              argCount |-> f.argCount, stackBase |-> f.stackBase,
              store |-> f.store, hasStore |-> f.hasStore ]
    <3>1. (~g.discard) = f.hasStore
      BY <2>6, <2>7
    <3>2. Len(g.locals) = f.numLocals
      BY <2>6, <2>8
    <3> QED BY <2>4, <2>6, <2>9, <2>11, <2>12, <3>1, <3>2
  <2>14. f = [ returnPC |-> f.returnPC, locals |-> f.locals, numLocals |-> f.numLocals,
               argCount |-> f.argCount, stackBase |-> f.stackBase,
               store |-> f.store, hasStore |-> f.hasStore ]
    BY DEF Frame
  <2> QED BY <2>1, <2>13, <2>14
<1> QED BY <1>1, <1>2

\* restoredFrames finds nothing to object to in what saveFrames wrote.
LEMMA OwnFramesAccepted ==
  ASSUME IInv, ReturnsInside
  PROVE  AcceptsFrames(SaveFrames)
<1>1. PICK s : s = SaveFrames
  OBVIOUS
<1>2. /\ Len(s) = Len(frames) /\ Len(frames) \in 1 .. MaxDepth /\ Len(frames) \in Nat
      /\ \A i \in 1 .. Len(frames) : s[i] = SaveFrame(i)
  BY <1>1, SavedStacks, OwnedStretches DEF IInv, FramesNested
<1>3. 1 \in 1 .. Len(frames)
  BY <1>2, RoutinesAssumption
<1>4. IsDummy(s[1])
  <2>1. s[1] = DummyFrame(Evaluation(1))
    BY <1>2, <1>3, SavedParts
  <2> QED BY <2>1 DEF IsDummy, DummyFrame
<1>5. FitsStack(s)
  BY <1>1, WatermarksComeBack DEF FitsStack, IInv, FramesNested
<1>6. ASSUME NEW i \in 1 .. Len(frames)
      PROVE  Len(s[i].locals) <= MaxLocals
  <2>1. CASE i = 1
    <3>1. s[i].locals = <<>>
      BY <1>2, <2>1, SavedParts, ZenonT(40)
    <3> QED BY <3>1, RoutinesAssumption
  <2>2. CASE i # 1
    <3>1. PICK f \in Frame : f = frames[i]
      BY ElementOfSeq DEF IInv, TypeOK
    <3>2. f.numLocals \in Nat /\ f.numLocals <= MaxLocals
      BY RoutinesAssumption DEF Frame
    <3>3. s[i].locals = [l \in 1 .. f.numLocals |-> f.locals[l]]
      BY <1>2, <2>2, <3>1, SavedParts
    <3>4. Len(s[i].locals) = f.numLocals
      BY <3>2, <3>3
    <3> QED BY <3>2, <3>4
  <2> QED BY <2>1, <2>2
<1>7. ASSUME NEW i \in 2 .. Len(frames)
      PROVE  Readable(s[i].returnPC)
  <2>1. i \in 1 .. Len(frames) /\ i # 1
    BY <1>2
  <2>2. s[i].returnPC = frames[i].returnPC
    BY <1>2, <2>1, SavedParts
  <2> QED BY <2>2 DEF ReturnsInside
<1> QED BY <1>1, <1>2, <1>4, <1>5, <1>6, <1>7 DEF AcceptsFrames

-----------------------------------------------------------------------------
LEMMA RestoredIInv == RestoredSpec => []IInv
<1>1. IInv /\ [Instruction]_machineVars => IInv'
  <2>1. IInv /\ Instruction => IInv'
    BY InstructionDone, DonePreserves
  <2>2. IInv /\ UNCHANGED machineVars => IInv'
    BY DEF IInv, TypeOK, MemoryTypeOK, FramesNested, machineVars
  <2> QED BY <2>1, <2>2
<1>2. Init \/ InitRestored => IInv
  BY InitIInv, InitRestoredIInv
<1> QED BY <1>1, <1>2, PTL DEF RestoredSpec

\* A machine that was restored from a file, whoever wrote it, keeps its
\* watermarks in order and its limits as one that New has made: what
\* restoredFrames (state.go) accepts is a chain the machine could have built.
THEOREM RestoredFramesNested == RestoredSpec => []FramesNested
<1>1. IInv => FramesNested
  BY DEF IInv
<1> QED BY <1>1, RestoredIInv, PTL

\* Whatever the story has done, and whatever file the machine was restored from,
\* the call chain and the evaluation stack come back from a saved state exactly
\* as they were (saveFrames and restoredFrames, state.go), unless a routine
\* returns to the end of the story.
THEOREM FramesAlwaysSurvive == RestoredSpec => []FramesSurvive
<1>1. ASSUME IInv
      PROVE  FramesSurvive
  <2> SUFFICES ASSUME ReturnsInside
               PROVE  /\ AcceptsFrames(SaveFrames)
                      /\ RestoredFrames(SaveFrames) = frames
                      /\ RestoredStack(SaveFrames) = stack
    BY DEF FramesSurvive
  <2>1. AcceptsFrames(SaveFrames)
    BY <1>1, OwnFramesAccepted
  <2>2. RestoredStack(SaveFrames) = stack
    BY <1>1, StackComesBack
  <2>3. RestoredFrames(SaveFrames) = [i \in 1 .. Len(frames) |-> frames[i]]
    <3>1. Len(SaveFrames) = Len(frames)
      BY <1>1, SavedStacks
    <3>2. \A i \in 1 .. Len(frames) : RestoredFrame(SaveFrames, i) = frames[i]
      BY <1>1, FrameComesBack
    <3> QED BY <3>1, <3>2 DEF RestoredFrames
  <2>4. frames = [i \in 1 .. Len(frames) |-> frames[i]]
    <3>1. frames \in [1 .. Len(frames) -> Frame]
      BY <1>1, LenProperties DEF IInv, TypeOK
    <3> QED BY <3>1
  <2> QED BY <2>1, <2>2, <2>3, <2>4
<1> QED BY <1>1, RestoredIInv, PTL

=============================================================================
