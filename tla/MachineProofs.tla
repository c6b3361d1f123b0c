--------------------------- MODULE MachineProofs ---------------------------
(***************************************************************************)
(* Proofs about Machine, for every story, every limit, every interval from *)
(* one look at the context to the next and any number of seeds.            *)
(***************************************************************************)
EXTENDS Machine, NumberFacts, TLAPS

Answers ==
    {"none", "waiting", "halted", "limit", "cancelled", "fault", "refused", "restored"}

-----------------------------------------------------------------------------
\* The inductive invariant, part by part.

\* Between calls nothing of the last one is left.  During one there is no answer
\* yet, and the machine is one that a call was accepted on.
CallsSeparate ==
    /\ ~call.running => call = Idle
    /\ call.running => answer = "none" /\ ~boundary /\ m.started /\ ~m.halted

\* At an input boundary the machine stands at an instruction that asks for a line.
AtBoundary ==
    /\ boundary => m.started /\ story[m.core] = "sread"
    /\ answer = "waiting" => m.started /\ ~m.halted

\* No instruction reads two lines.
ReadsCounted ==
    IF call.at = "check" THEN call.reads <= call.executed ELSE call.reads < call.executed

\* The instructions executed since the loop has looked at the context last.
SinceLook ==
    IF call.executed % CheckInterval = 0 THEN CheckInterval ELSE call.executed % CheckInterval

\* Of those, the ones executed since a cancellation are fewer: the look itself
\* would have seen it.
Timely ==
    /\ ~call.cancelled => call.late = 0
    /\ call.late < SinceLook
    /\ call.late <= call.executed

IInv ==
    /\ TypeOK
    /\ CallsSeparate
    /\ AtBoundary
    /\ ReadsCounted
    /\ Timely
    /\ LineReadOnce
    /\ BoundaryReadsLine
    /\ StatusCurrent

\* The bits that are set or cleared for the interpreter stay as they are made,
\* unless a Restore fails half-way.
HeaderKept == ~spoiled => InitHeader(m.flags) = m.flags

-----------------------------------------------------------------------------

\* A generator that is drawn from is still one.
LEMMA DrawnType ==
  ASSUME NEW random \in Generator
  PROVE  Drawn(random) \in Generator
<1>1. random.drawn + 1 \in Int /\ Period \in Nat \ {0}
  BY MachineAssumption DEF Generator
<1>2. (random.drawn + 1) % Period \in 0 .. Period - 1
  BY <1>1, DivisionParts
<1> QED BY <1>2 DEF Drawn, Generator

LEMMA SeededType ==
  ASSUME NEW seed \in Seed, NEW predictable \in BOOLEAN
  PROVE  Seeded(seed, predictable) \in Generator
BY MachineAssumption DEF Seeded, Generator

LEMMA FreshGeneratorsType == FreshGenerators \subseteq Generator
BY SeededType, MachineAssumption DEF FreshGenerators

\* Making the header again changes nothing.
LEMMA InitHeaderType ==
  ASSUME NEW flags \in SUBSET HeaderBits
  PROVE  /\ InitHeader(flags) \in SUBSET HeaderBits
         /\ InitHeader(InitHeader(flags)) = InitHeader(flags)
BY DEF InitHeader, HeaderBits

LEMMA NewMachineType ==
  ASSUME NEW random \in Generator
  PROVE  /\ NewMachine(random) \in State
         /\ InitHeader(NewMachine(random).flags) = NewMachine(random).flags
BY InitHeaderType, MachineAssumption DEF NewMachine, State

LEMMA RestartedType ==
  ASSUME NEW s \in State, NEW random \in Generator
  PROVE  /\ Restarted(s, random) \in State
         /\ Restarted(s, random).started = s.started
         /\ Restarted(s, random).halted = s.halted
         /\ Restarted(s, random).hasLine = s.hasLine
         /\ InitHeader(Restarted(s, random).flags) = Restarted(s, random).flags
<1> DEFINE kept == (StoryFlags \ {"transcript", "fixedPitch"}) \cup Surviving(s.flags)
<1>1. kept \in SUBSET HeaderBits
  BY MachineAssumption DEF Surviving, State
<1>2. /\ Restarted(s, random).flags = InitHeader(kept)
      /\ InitHeader(kept) \in SUBSET HeaderBits
      /\ InitHeader(InitHeader(kept)) = InitHeader(kept)
  BY <1>1, InitHeaderType DEF Restarted, State
<1> HIDE DEF kept
<1> QED BY <1>2, MachineAssumption DEF Restarted, State

\* What Restore makes of a machine is one that a call is accepted on.
LEMMA CommittedType ==
  ASSUME NEW s \in State, NEW save \in Save
  PROVE  /\ Committed(s, save) \in State
         /\ Committed(s, save).core = save.core /\ Committed(s, save).flags = save.flags
         /\ Committed(s, save).started /\ ~Committed(s, save).halted
         /\ ~Committed(s, save).hasLine
BY DEF Committed, State, Save

LEMMA ChunksRestoredType ==
  ASSUME NEW s \in State, NEW save \in Save, NEW random \in RestoredGenerators(save)
  PROVE  /\ ChunksRestored(s, save, random) \in State
         /\ ChunksRestored(s, save, random).core = save.core
         /\ ChunksRestored(s, save, random).flags = save.flags
         /\ ChunksRestored(s, save, random).random = random
         /\ ChunksRestored(s, save, random).screen = RestoredScreen(save)
         /\ ChunksRestored(s, save, random).started
         /\ ~ChunksRestored(s, save, random).halted
         /\ ~ChunksRestored(s, save, random).hasLine
<1>1. random \in Generator
  BY FreshGeneratorsType DEF RestoredGenerators, Save
<1>2. RestoredScreen(save) \in Screen
  BY MachineAssumption DEF RestoredScreen, Save
<1>3. Committed(s, save) \in State
  BY CommittedType
<1> QED BY <1>1, <1>2, <1>3, CommittedType DEF ChunksRestored, State

LEMMA RebuiltType ==
  ASSUME NEW s \in State, NEW save \in Save, NEW random \in RestoredGenerators(save)
  PROVE  /\ Rebuilt(s, save, random) \in State
         /\ Rebuilt(s, save, random).core = save.core
         /\ Rebuilt(s, save, random).flags = InitHeader(save.flags)
         /\ Rebuilt(s, save, random).started
         /\ ~Rebuilt(s, save, random).halted
         /\ ~Rebuilt(s, save, random).hasLine
         /\ InitHeader(Rebuilt(s, save, random).flags) = Rebuilt(s, save, random).flags
<1>1. save.flags \in SUBSET HeaderBits
  BY DEF Save
<1> QED BY <1>1, ChunksRestoredType, InitHeaderType DEF Rebuilt, State

-----------------------------------------------------------------------------
\* Steps between calls that leave no call running and no story behind: a host's.
LEMMA HostKeeps ==
  ASSUME IInv, ~call.running, UNCHANGED <<story, call>>,
         m' \in State, boundary' \in BOOLEAN, spoiled' \in BOOLEAN,
         answer' \in {"none", "refused", "restored"},
         m'.hasLine = TRUE => m'.hasLine = m.hasLine,
         boundary' => m'.started /\ story[m'.core] = "sread",
         ~m'.started => m'.core = InitialCore /\ ~m'.hasLine
  PROVE  IInv'
<1>1. call = Idle /\ call' = Idle /\ story' = story
  BY DEF IInv, CallsSeparate
<1>2. TypeOK'
  BY <1>1 DEF IInv, TypeOK
<1>3. CallsSeparate' /\ AtBoundary' /\ StatusCurrent' /\ BoundaryReadsLine'
  BY <1>1 DEF CallsSeparate, AtBoundary, StatusCurrent, BoundaryReadsLine, Idle
<1>4. ReadsCounted' /\ Timely'
  BY <1>1 DEF IInv, ReadsCounted, Timely, SinceLook
<1>5. LineReadOnce'
  BY <1>1, <1>2 DEF LineReadOnce, Idle, TypeOK, State
<1> QED BY <1>2, <1>3, <1>4, <1>5 DEF IInv

\* A call begins, at a boundary only with a line.
LEMMA BeginKeeps ==
  ASSUME IInv, NEW line \in BOOLEAN, ~call.running, ~m.halted,
         boundary => line, Begin(line)
  PROVE  IInv'
<1>1. PICK cancelled \in BOOLEAN :
           call' = [Idle EXCEPT !.running = TRUE, !.cancelled = cancelled,
                                !.resumes = boundary]
  BY DEF Begin
<1>2. /\ m' = [m EXCEPT !.started = TRUE, !.hasLine = line]
      /\ answer' = "none" /\ boundary' = FALSE /\ story' = story /\ spoiled' = spoiled
  BY DEF Begin
<1>3. /\ call'.running /\ call'.at = "check" /\ call'.executed = 0 /\ call'.late = 0
      /\ call'.reads = 0 /\ call'.cancelled = cancelled /\ call'.resumes = boundary
  BY <1>1 DEF Idle
<1>4. /\ m' \in State /\ m'.started /\ m'.core = m.core /\ m'.hasLine = line
      /\ m'.halted = m.halted
  BY <1>2 DEF IInv, TypeOK, State
<1>5. call' \in CallState
  <2>1. call' = [running |-> TRUE, at |-> "check", executed |-> 0, cancelled |-> cancelled,
                 late |-> 0, reads |-> 0, resumes |-> boundary]
    BY <1>1 DEF Idle
  <2>2. boundary \in BOOLEAN /\ 0 \in 0 .. InstructionLimit
    BY MachineAssumption DEF IInv, TypeOK
  <2> QED BY <2>1, <2>2 DEF CallState
<1>6. TypeOK'
  BY <1>2, <1>4, <1>5 DEF IInv, TypeOK
<1>7. CallsSeparate' /\ AtBoundary' /\ StatusCurrent' /\ LineReadOnce' /\ ReadsCounted'
  BY <1>2, <1>3, <1>4
     DEF CallsSeparate, AtBoundary, StatusCurrent, LineReadOnce, ReadsCounted
<1>8. Timely'
  <2>1. call'.executed % CheckInterval \in 0 .. CheckInterval - 1
    BY <1>3, MachineAssumption, DivisionParts
  <2> QED BY <1>3, <2>1, MachineAssumption DEF Timely, SinceLook
<1>9. BoundaryReadsLine'
  BY <1>2, <1>3, <1>4 DEF IInv, AtBoundary, BoundaryReadsLine
<1> QED BY <1>6, <1>7, <1>8, <1>9 DEF IInv

\* A call ends, at a boundary only where a line is asked for.
LEMMA ReturnKeeps ==
  ASSUME IInv, call.running,
         NEW s \in State, NEW how \in Answers, NEW resumable \in BOOLEAN,
         Return(s, how, resumable), s.started,
         resumable => story[s.core] = "sread",
         how = "waiting" => ~s.halted /\ ~s.hasLine /\ s.status = s.core
  PROVE  IInv'
<1>1. /\ m' = s /\ call' = Idle /\ answer' = how /\ boundary' = resumable
      /\ story' = story /\ spoiled' = spoiled
  BY DEF Return
<1>2. Idle \in CallState
  BY MachineAssumption DEF Idle, CallState
<1>3. TypeOK'
  BY <1>1, <1>2 DEF IInv, TypeOK, Answers
<1>4. /\ CallsSeparate' /\ AtBoundary' /\ StatusCurrent' /\ BoundaryReadsLine'
      /\ ReadsCounted'
  BY <1>1 DEF CallsSeparate, AtBoundary, StatusCurrent, BoundaryReadsLine, ReadsCounted, Idle
<1>5. LineReadOnce'
  BY <1>1 DEF LineReadOnce, Idle, State
<1>6. Timely'
  <2>1. Idle.executed = 0 /\ Idle.late = 0
    BY DEF Idle
  <2>2. 0 % CheckInterval \in 0 .. CheckInterval - 1
    BY MachineAssumption, DivisionParts
  <2> QED BY <1>1, <2>1, <2>2, MachineAssumption DEF Timely, SinceLook
<1> QED BY <1>3, <1>4, <1>5, <1>6 DEF IInv

\* An instruction is done and the call goes on.  At a boundary that can only be
\* the instruction that takes the line.
LEMMA ContinueKeeps ==
  ASSUME IInv, call.running, call.at = "execute",
         NEW s \in State, NEW reads \in {call.reads, call.reads + 1},
         ContinueWith(s, reads), s.started, ~s.halted,
         reads + (IF s.hasLine THEN 1 ELSE 0) <= 1,
         call.resumes => reads > 0
  PROVE  IInv'
<1>1. /\ m' = s /\ call' = [call EXCEPT !.at = "check", !.reads = reads]
      /\ story' = story /\ answer' = answer /\ boundary' = boundary /\ spoiled' = spoiled
  BY DEF ContinueWith, NextIteration
<1>2. /\ call \in CallState /\ call.reads < call.executed /\ answer = "none" /\ ~boundary
  BY DEF IInv, TypeOK, ReadsCounted, CallsSeparate
<1>3. /\ call'.running = call.running /\ call'.at = "check" /\ call'.executed = call.executed
      /\ call'.cancelled = call.cancelled /\ call'.late = call.late
      /\ call'.reads = reads /\ call'.resumes = call.resumes
  BY <1>1, <1>2 DEF CallState
<1>4. reads \in 0 .. call.executed /\ call' \in CallState
  <2>1. call.reads \in Nat /\ call.executed \in 0 .. InstructionLimit /\ InstructionLimit \in Nat
    BY <1>2, MachineAssumption DEF CallState
  <2>2. reads \in 0 .. call.executed /\ reads \in 0 .. InstructionLimit
    BY <1>2, <2>1
  <2> QED BY <1>1, <1>2, <2>2 DEF CallState
<1>5. TypeOK'
  BY <1>1, <1>4 DEF IInv, TypeOK
<1>6. /\ CallsSeparate' /\ AtBoundary' /\ StatusCurrent' /\ LineReadOnce' /\ ReadsCounted'
  BY <1>1, <1>2, <1>3, <1>4
     DEF CallsSeparate, AtBoundary, StatusCurrent, LineReadOnce, ReadsCounted
<1>7. BoundaryReadsLine'
  BY <1>3, <1>4 DEF BoundaryReadsLine
<1>8. Timely'
  BY <1>3 DEF IInv, Timely, SinceLook
<1> QED BY <1>5, <1>6, <1>7, <1>8 DEF IInv

\* One more instruction begins; the loop looks at the context before every one
\* whose number CheckInterval divides.
LEMMA ProceedKeeps ==
  ASSUME IInv, Proceed
  PROVE  IInv'
<1>1. /\ call.running /\ call.at = "check" /\ call.executed < InstructionLimit
      /\ LooksAtContext(call.executed) => ~call.cancelled
      /\ call' = [call EXCEPT !.at = "execute", !.executed = @ + 1,
                              !.late = IF call.cancelled THEN @ + 1 ELSE @]
      /\ story' = story /\ m' = m /\ answer' = answer /\ boundary' = boundary
      /\ spoiled' = spoiled
  <2>1. call.executed \in Nat /\ InstructionLimit \in Nat
    BY MachineAssumption DEF IInv, TypeOK, CallState
  <2> QED BY <2>1 DEF Proceed, LimitHit
<1>2. /\ call \in CallState /\ InstructionLimit \in Nat /\ CheckInterval \in Nat \ {0}
      /\ call.executed \in Nat /\ call.late \in Nat /\ call.reads \in Nat
  BY MachineAssumption DEF IInv, TypeOK, CallState
<1>3. /\ call'.running /\ call'.at = "execute" /\ call'.executed = call.executed + 1
      /\ call'.cancelled = call.cancelled
      /\ call'.late = IF call.cancelled THEN call.late + 1 ELSE call.late
      /\ call'.reads = call.reads /\ call'.resumes = call.resumes
  BY <1>1, <1>2 DEF CallState
<1> DEFINE r == call.executed % CheckInterval
           r1 == call'.executed % CheckInterval
<1>4. r \in 0 .. CheckInterval - 1
  <2>1. call.executed \in Int
    BY <1>2
  <2> QED BY <1>2, <2>1, DivisionParts
<1>5. r1 = IF r = CheckInterval - 1 THEN 0 ELSE r + 1
  BY <1>2, <1>3, RemainderOfNext
<1>6. /\ ~call.cancelled => call.late = 0
      /\ call.late < IF r = 0 THEN CheckInterval ELSE r
      /\ call.late <= call.executed
      /\ call.cancelled => r # 0
  BY <1>1 DEF IInv, Timely, SinceLook, LooksAtContext
<1>7. Timely'
  <2>1. SinceLook' = IF r1 = 0 THEN CheckInterval ELSE r1
    BY MachineAssumption DEF SinceLook
  <2> HIDE DEF r, r1
  <2>2. call'.late < SinceLook'
    BY <1>2, <1>3, <1>4, <1>5, <1>6, <2>1
  <2>3. call'.late <= call'.executed
    BY <1>2, <1>3, <1>6
  <2> QED BY <1>3, <1>6, <2>2, <2>3 DEF Timely
<1>8. call' \in CallState
  <2>1. call.executed + 1 \in 0 .. InstructionLimit /\ call.late + 1 \in 0 .. InstructionLimit
    BY <1>1, <1>2, <1>6
  <2> QED BY <1>1, <1>2, <2>1 DEF CallState
<1>9. TypeOK' /\ CallsSeparate' /\ AtBoundary' /\ StatusCurrent' /\ LineReadOnce'
  BY <1>1, <1>3, <1>8
     DEF IInv, TypeOK, CallsSeparate, AtBoundary, StatusCurrent, LineReadOnce
<1>10. ReadsCounted'
  BY <1>1, <1>2, <1>3 DEF IInv, ReadsCounted
<1>11. BoundaryReadsLine'
  BY <1>1, <1>2, <1>3 DEF IInv, BoundaryReadsLine
<1> QED BY <1>7, <1>9, <1>10, <1>11 DEF IInv

\* The host cancels the context.
LEMMA CancelKeeps ==
  ASSUME IInv, Cancel
  PROVE  IInv'
<1>1. /\ call.running /\ call' = [call EXCEPT !.cancelled = TRUE]
      /\ story' = story /\ m' = m /\ answer' = answer /\ boundary' = boundary
      /\ spoiled' = spoiled
  BY DEF Cancel
<1>2. call \in CallState
  BY DEF IInv, TypeOK
<1>3. /\ call' \in CallState /\ call'.running /\ call'.at = call.at
      /\ call'.executed = call.executed /\ call'.cancelled
      /\ call'.late = call.late /\ call'.reads = call.reads /\ call'.resumes = call.resumes
  BY <1>1, <1>2 DEF CallState
<1>4. TypeOK' /\ CallsSeparate' /\ AtBoundary' /\ StatusCurrent' /\ LineReadOnce'
  BY <1>1, <1>3 DEF IInv, TypeOK, CallsSeparate, AtBoundary, StatusCurrent, LineReadOnce
<1>5. ReadsCounted' /\ BoundaryReadsLine' /\ Timely'
  BY <1>1, <1>3 DEF IInv, ReadsCounted, BoundaryReadsLine, Timely, SinceLook
<1> QED BY <1>4, <1>5 DEF IInv

\* What every instruction begins with.
LEMMA AtInstruction ==
  ASSUME IInv, call.running
  PROVE  /\ m \in State /\ m.core \in Core /\ m.started /\ ~m.halted
         /\ m.random \in Generator /\ m.status \in Core \cup {NoStatus}
         /\ call.reads \in Nat /\ call.reads + (IF m.hasLine THEN 1 ELSE 0) <= 1
         /\ call.resumes /\ call.at = "execute" /\ story[m.core] # "sread" => call.reads > 0
BY DEF IInv, TypeOK, State, CallState, CallsSeparate, LineReadOnce, BoundaryReadsLine

\* Writing leaves the bits of the header alone that are not the story's.
LEMMA WrittenType ==
  ASSUME NEW s \in State, NEW core \in Core, NEW flags \in SUBSET StoryWrites,
         NEW screen \in Screen
  PROVE  /\ Written(s, core, flags, screen) \in State
         /\ Written(s, core, flags, screen).started = s.started
         /\ Written(s, core, flags, screen).halted = s.halted
         /\ Written(s, core, flags, screen).hasLine = s.hasLine
         /\ Written(s, core, flags, screen).flags = (s.flags \ StoryWrites) \cup flags
BY MachineAssumption DEF Written, State

\* The ends of a call: limit, cancellation, fault, the story's own end, and a
\* request for a line that there is none of.
LEMMA EndsKeep ==
  ASSUME IInv,
         \/ LimitReached \/ CancellationSeen \/ Fault \/ RandomFault \/ OtherFault
         \/ Quit \/ Suspend \/ ReadLineFault
  PROVE  IInv'
<1>1. call.running
  BY DEF LimitReached, CancellationSeen, Fault, RandomFault, OtherFault, Quit, Suspend,
         ReadLineFault, Executing
<1>2. /\ m \in State /\ m.started /\ ~m.halted /\ m.random \in Generator
      /\ call.reads + (IF m.hasLine THEN 1 ELSE 0) <= 1
  BY <1>1, AtInstruction
<1>3. CASE LimitReached
  BY <1>1, <1>2, <1>3, ReturnKeeps DEF LimitReached, Answers
<1>4. CASE CancellationSeen
  <2> DEFINE resumable == call.resumes /\ call.executed = 0
  <2>1. /\ call \in CallState /\ call.at = "check" /\ Return(m, "cancelled", resumable)
    BY <1>4 DEF CancellationSeen, IInv, TypeOK
  <2>2. resumable \in BOOLEAN
    BY <2>1 DEF CallState
  <2>3. resumable => story[m.core] = "sread"
    <3>1. call.executed = 0 => call.reads = 0
      BY <2>1 DEF IInv, ReadsCounted, CallState
    <3> QED BY <1>1, <3>1 DEF IInv, BoundaryReadsLine
  <2> HIDE DEF resumable
  <2> QED BY <1>1, <1>2, <2>1, <2>2, <2>3, ReturnKeeps DEF Answers
<1>5. CASE Fault
  <2>1. PICK core \in Core : Return([m EXCEPT !.core = core], "fault", FALSE)
    BY <1>5 DEF Fault
  <2>2. [m EXCEPT !.core = core] \in State /\ [m EXCEPT !.core = core].started
    BY <1>2 DEF State
  <2> QED BY <1>1, <2>1, <2>2, ReturnKeeps DEF Answers
<1>6. CASE RandomFault
  <2>1. PICK core \in Core,
             random \in {Drawn(m.random)} \cup [seed : Seed, drawn : {0}, predictable : BOOLEAN] :
             Return([m EXCEPT !.core = core, !.random = random], "fault", FALSE)
    BY <1>6 DEF RandomFault
  <2>2. random \in Generator
    <3>1. 0 \in 0 .. Period - 1
      BY MachineAssumption
    <3>2. Drawn(m.random) \in Generator
      BY <1>2, DrawnType
    <3> QED BY <2>1, <3>1, <3>2 DEF Generator
  <2>3. /\ [m EXCEPT !.core = core, !.random = random] \in State
        /\ [m EXCEPT !.core = core, !.random = random].started
    BY <1>2, <2>2 DEF State
  <2> QED BY <1>1, <2>1, <2>3, ReturnKeeps DEF Answers
<1>7. CASE Quit
  <2>1. PICK core \in Core : Return([m EXCEPT !.core = core, !.halted = TRUE], "halted", FALSE)
    BY <1>7 DEF Quit
  <2>2. /\ [m EXCEPT !.core = core, !.halted = TRUE] \in State
        /\ [m EXCEPT !.core = core, !.halted = TRUE].started
    BY <1>2 DEF State
  <2> QED BY <1>1, <2>1, <2>2, ReturnKeeps DEF Answers
<1>8. CASE Suspend
  <2>1. story[m.core] = "sread" /\ ~m.hasLine /\ Return(Suspended(m), "waiting", TRUE)
    BY <1>8 DEF Suspend, Executing
  <2>2. /\ Suspended(m) \in State /\ Suspended(m).started /\ ~Suspended(m).halted
        /\ ~Suspended(m).hasLine /\ Suspended(m).core = m.core
        /\ Suspended(m).status = Suspended(m).core
    BY <1>2, <2>1 DEF Suspended, UpdatedStatus, State
  <2> QED BY <1>1, <2>1, <2>2, ReturnKeeps DEF Answers
<1>9. CASE ReadLineFault
  <2>1. PICK core \in Core : Return(LineTaken(m, core), "fault", FALSE)
    BY <1>9 DEF ReadLineFault
  <2>2. LineTaken(m, core) \in State /\ LineTaken(m, core).started
    BY <1>2 DEF LineTaken, UpdatedStatus, State
  <2> QED BY <1>1, <2>1, <2>2, ReturnKeeps DEF Answers
<1>10. CASE OtherFault
  <2>1. PICK core \in Core, flags \in SUBSET StoryWrites, screen \in Screen :
             Return(Written(m, core, flags, screen), "fault", FALSE)
    BY <1>10 DEF OtherFault
  <2>2. Written(m, core, flags, screen) \in State /\ Written(m, core, flags, screen).started
    BY <1>2, WrittenType
  <2> QED BY <1>1, <2>1, <2>2, ReturnKeeps DEF Answers
<1> QED BY <1>3, <1>4, <1>5, <1>6, <1>7, <1>8, <1>9, <1>10

\* The instructions after which the call goes on.
LEMMA InstructionsKeep ==
  ASSUME IInv,
         \/ Other \/ Transcript \/ ShowStatus \/ Draw \/ Reseed \/ Restart \/ ReadLine
  PROVE  IInv'
<1>1. call.running /\ call.at = "execute"
  BY DEF Other, Transcript, ShowStatus, Draw, Reseed, Restart, ReadLine, Executing
<1>2. /\ m \in State /\ m.core \in Core /\ m.started /\ ~m.halted /\ m.random \in Generator
      /\ call.reads \in Nat /\ call.reads + (IF m.hasLine THEN 1 ELSE 0) <= 1
      /\ call.resumes /\ story[m.core] # "sread" => call.reads > 0
  BY <1>1, AtInstruction
<1>3. ASSUME NEW s \in State, s.started, ~s.halted, s.hasLine = m.hasLine,
             story[m.core] # "sread", ContinueWith(s, call.reads)
      PROVE  IInv'
  BY <1>1, <1>2, <1>3, ContinueKeeps
<1>4. CASE Other
  <2>1. PICK core \in Core, flags \in SUBSET StoryWrites, screen \in Screen :
             ContinueWith(Written(m, core, flags, screen), call.reads)
    BY <1>4 DEF Other
  <2> DEFINE s == Written(m, core, flags, screen)
  <2>2. s \in State /\ s.started /\ ~s.halted /\ s.hasLine = m.hasLine
    BY <1>2, WrittenType
  <2>3. story[m.core] # "sread"
    BY <1>4 DEF Other, Executing
  <2> QED BY <1>3, <2>1, <2>2, <2>3
<1>5. CASE Transcript
  <2>1. PICK core \in Core :
             ContinueWith([m EXCEPT !.core = core, !.flags = @ \ {"transcript"}], call.reads)
    BY <1>5 DEF Transcript
  <2> DEFINE s == [m EXCEPT !.core = core, !.flags = @ \ {"transcript"}]
  <2>2. s \in State /\ s.started /\ ~s.halted /\ s.hasLine = m.hasLine
    BY <1>2 DEF State
  <2>3. story[m.core] # "sread"
    BY <1>5 DEF Transcript, Executing
  <2> QED BY <1>3, <2>1, <2>2, <2>3
<1>6. CASE ShowStatus
  <2>1. PICK core \in Core :
             ContinueWith([UpdatedStatus(m) EXCEPT !.core = core], call.reads)
    BY <1>6 DEF ShowStatus
  <2> DEFINE s == [UpdatedStatus(m) EXCEPT !.core = core]
  <2>2. s \in State /\ s.started /\ ~s.halted /\ s.hasLine = m.hasLine
    BY <1>2 DEF State, UpdatedStatus
  <2>3. story[m.core] # "sread"
    BY <1>6 DEF ShowStatus, Executing
  <2> QED BY <1>3, <2>1, <2>2, <2>3
<1>7. CASE Draw
  <2>1. PICK core \in Core :
             ContinueWith([m EXCEPT !.core = core, !.random = Drawn(@)], call.reads)
    BY <1>7 DEF Draw
  <2> DEFINE s == [m EXCEPT !.core = core, !.random = Drawn(@)]
  <2>2. Drawn(m.random) \in Generator
    BY <1>2, DrawnType
  <2>3. s \in State /\ s.started /\ ~s.halted /\ s.hasLine = m.hasLine
    BY <1>2, <2>2 DEF State
  <2>4. story[m.core] # "sread"
    BY <1>7 DEF Draw, Executing
  <2> QED BY <1>3, <2>1, <2>3, <2>4
<1>8. CASE Reseed
  <2>1. PICK core \in Core, seed \in Seed, predictable \in BOOLEAN :
             ContinueWith([m EXCEPT !.core = core,
                                    !.random = Seeded(seed, predictable)], call.reads)
    BY <1>8 DEF Reseed
  <2> DEFINE s == [m EXCEPT !.core = core, !.random = Seeded(seed, predictable)]
  <2>2. s \in State /\ s.started /\ ~s.halted /\ s.hasLine = m.hasLine
    BY <1>2, SeededType DEF State
  <2>3. story[m.core] # "sread"
    BY <1>8 DEF Reseed, Executing
  <2> QED BY <1>3, <2>1, <2>2, <2>3
<1>9. CASE Restart
  <2>1. PICK random \in FreshGenerators : ContinueWith(Restarted(m, random), call.reads)
    BY <1>9 DEF Restart
  <2>2. random \in Generator
    BY FreshGeneratorsType
  <2>3. story[m.core] # "sread"
    BY <1>9 DEF Restart, Executing
  <2> QED BY <1>2, <1>3, <2>1, <2>2, <2>3, RestartedType
<1>10. CASE ReadLine
  <2>1. PICK core \in Core : ContinueWith(LineTaken(m, core), call.reads + 1)
    BY <1>10 DEF ReadLine
  <2>2. m.hasLine /\ call.reads = 0
    BY <1>2, <1>10 DEF ReadLine
  <2>3. /\ LineTaken(m, core) \in State /\ LineTaken(m, core).started
        /\ ~LineTaken(m, core).halted /\ ~LineTaken(m, core).hasLine
    BY <1>2 DEF LineTaken, UpdatedStatus, State
  <2> QED BY <1>1, <2>1, <2>2, <2>3, ContinueKeeps
<1> QED BY <1>4, <1>5, <1>6, <1>7, <1>8, <1>9, <1>10

\* What the host may restore are saved states.
LEMMA SavesType ==
  ASSUME IInv, NEW core \in Core, NEW flags \in SUBSET HeaderBits,
         NEW random \in Generator, NEW screen \in Screen,
         NEW randomChunk \in Chunk, NEW screenChunk \in Chunk
  PROVE  [ core |-> core, flags |-> flags, random |-> random, randomChunk |-> randomChunk,
           screen |-> screen, screenChunk |-> screenChunk ] \in Save
BY DEF Save

\* A Restore, refused early, half-way or not at all.
LEMMA RestoreKeeps ==
  ASSUME IInv, NEW save \in Save, Restore(save)
  PROVE  IInv'
<1>1. /\ ~call.running /\ UNCHANGED <<story, call>> /\ m \in State
  BY DEF Restore, IInv, TypeOK
<1>2. CASE RestoreFailed(Committed(m, save))
  <2>1. /\ m' = Committed(m, save) /\ answer' = "refused" /\ boundary' = FALSE
        /\ spoiled' = TRUE
    BY <1>2 DEF RestoreFailed
  <2> QED BY <1>1, <2>1, CommittedType, HostKeeps
<1>3. ASSUME NEW random \in RestoredGenerators(save),
             Restored(Rebuilt(m, save, random), story[save.core] = "sread")
      PROVE  IInv'
  <2> DEFINE s == Rebuilt(m, save, random)
             atBoundary == story[save.core] = "sread"
  <2>1. /\ s \in State /\ s.core = save.core /\ s.started /\ ~s.hasLine
    BY <1>1, RebuiltType
  <2>2. /\ m' = s /\ answer' = "restored" /\ boundary' = atBoundary /\ spoiled' = FALSE
    BY <1>3 DEF Restored
  <2>3. atBoundary \in BOOLEAN
    OBVIOUS
  <2>4. atBoundary => story[s.core] = "sread"
    BY <2>1
  <2> HIDE DEF s, atBoundary
  <2> QED BY <1>1, <2>1, <2>2, <2>3, <2>4, HostKeeps
<1>4. ASSUME NEW random \in RestoredGenerators(save), NEW core \in Core,
             Restored([Rebuilt(m, save, random) EXCEPT !.core = core], FALSE)
      PROVE  IInv'
  <2> DEFINE s == [Rebuilt(m, save, random) EXCEPT !.core = core]
  <2>1. s \in State /\ s.started /\ ~s.hasLine
    BY <1>1, RebuiltType DEF State
  <2>2. /\ m' = s /\ answer' = "restored" /\ boundary' = FALSE /\ spoiled' = FALSE
    BY <1>4 DEF Restored
  <2> HIDE DEF s
  <2> QED BY <1>1, <2>1, <2>2, HostKeeps
<1>5. ASSUME NEW random \in RestoredGenerators(save), NEW core \in Core,
             RestoreFailed([ChunksRestored(m, save, random) EXCEPT !.core = core])
      PROVE  IInv'
  <2> DEFINE s == [ChunksRestored(m, save, random) EXCEPT !.core = core]
  <2>1. s \in State /\ s.started /\ ~s.hasLine
    BY <1>1, ChunksRestoredType DEF State
  <2>2. /\ m' = s /\ answer' = "refused" /\ boundary' = FALSE /\ spoiled' = TRUE
    BY <1>5 DEF RestoreFailed
  <2> HIDE DEF s
  <2> QED BY <1>1, <2>1, <2>2, HostKeeps
<1> QED BY <1>2, <1>3, <1>4, <1>5 DEF Restore

\* Both kinds of saved state are restored as one.
LEMMA SomeSaveRestored ==
  ASSUME IInv, RestoreOwn \/ RestoreOther
  PROVE  \E save \in Save : Restore(save)
<1>1. m.random \in Generator /\ m.screen \in Screen
  BY DEF IInv, TypeOK, State
<1>2. CASE RestoreOwn
  <2>1. PICK core \in Core, random \in Generator, screen \in Screen, flags \in SUBSET StoryWrites :
             Restore([ core |-> core,
                       flags |-> (InitHeader(StoryFlags) \ StoryWrites) \cup flags,
                       random |-> random, randomChunk |-> "present",
                       screen |-> screen, screenChunk |-> "present" ])
    BY <1>2 DEF RestoreOwn
  <2>2. (InitHeader(StoryFlags) \ StoryWrites) \cup flags \in SUBSET HeaderBits
    BY MachineAssumption, InitHeaderType
  <2>3. "present" \in Chunk
    BY DEF Chunk
  <2> QED BY <2>1, <2>2, <2>3, SavesType
<1>3. CASE RestoreOther
  <2>1. PICK core \in Core, chunks \in (Chunk \ {"present"}) \X Chunk :
             Restore([ core |-> core, flags |-> StoryFlags,
                       random |-> m.random, randomChunk |-> chunks[1],
                       screen |-> m.screen, screenChunk |-> chunks[2] ])
    BY <1>3 DEF RestoreOther
  <2>2. StoryFlags \in SUBSET HeaderBits /\ chunks[1] \in Chunk /\ chunks[2] \in Chunk
    BY MachineAssumption
  <2> QED BY <1>1, <2>1, <2>2, SavesType
<1> QED BY <1>2, <1>3

\* The host's other steps.
LEMMA HostStepsKeep ==
  ASSUME IInv, New \/ Start \/ Run \/ CallRefused \/ RestoreRefused
  PROVE  IInv'
<1>1. m \in State /\ boundary \in BOOLEAN /\ spoiled \in BOOLEAN
  BY DEF IInv, TypeOK
<1>2. CASE New
  <2>1. PICK random \in FreshGenerators : m' = NewMachine(random)
    BY <1>2 DEF New
  <2>2. m' \in State /\ ~m'.hasLine /\ m'.core = InitialCore
    BY <2>1, FreshGeneratorsType, NewMachineType DEF NewMachine
  <2>3. ~call.running /\ UNCHANGED <<story, call>> /\ answer' = "none"
        /\ boundary' = FALSE /\ spoiled' = FALSE
    BY <1>2 DEF New
  <2> QED BY <2>2, <2>3, HostKeeps
<1>3. CASE Start
  BY <1>3, BeginKeeps DEF Start, IInv, AtBoundary
<1>4. CASE Run
  BY <1>4, BeginKeeps DEF Run
<1>5. CASE CallRefused \/ RestoreRefused
  <2>1. /\ ~call.running /\ UNCHANGED <<story, m, call, boundary, spoiled>>
        /\ answer' = "refused"
    BY <1>5 DEF CallRefused, RestoreRefused
  <2> QED BY <1>1, <2>1, HostKeeps DEF IInv, AtBoundary, LineReadOnce
<1> QED BY <1>2, <1>3, <1>4, <1>5

LEMMA NextKeeps ==
  ASSUME IInv, [Next]_vars
  PROVE  IInv'
<1>1. CASE Loop
  BY <1>1, EndsKeep, ProceedKeeps, InstructionsKeep DEF Loop
<1>2. CASE Host
  BY <1>2, HostStepsKeep, CancelKeeps, RestoreKeeps, SomeSaveRestored DEF Host
<1>3. CASE UNCHANGED vars
  BY <1>3 DEF vars, IInv, TypeOK, CallsSeparate, AtBoundary, ReadsCounted, Timely, SinceLook,
              LineReadOnce, BoundaryReadsLine, StatusCurrent
<1> QED BY <1>1, <1>2, <1>3 DEF Next

LEMMA InitKeeps == Init => IInv
<1> SUFFICES ASSUME Init PROVE IInv
  OBVIOUS
<1>1. PICK random \in FreshGenerators : m = NewMachine(random)
  BY DEF Init
<1>2. m \in State /\ ~m.hasLine /\ m.core = InitialCore
  BY <1>1, FreshGeneratorsType, NewMachineType DEF NewMachine
<1>3. /\ story \in [Core -> Kind] /\ call = Idle /\ answer = "none" /\ boundary = FALSE
      /\ spoiled = FALSE
  BY DEF Init
<1>4. Idle \in CallState
  BY MachineAssumption DEF Idle, CallState
<1>5. TypeOK
  BY <1>2, <1>3, <1>4 DEF TypeOK
<1>6. CallsSeparate /\ AtBoundary /\ ReadsCounted /\ LineReadOnce /\ BoundaryReadsLine /\ StatusCurrent
  BY <1>2, <1>3
     DEF Idle, CallsSeparate, AtBoundary, ReadsCounted, LineReadOnce, BoundaryReadsLine, StatusCurrent
<1>7. Timely
  <2>1. call.executed = 0 /\ call.late = 0 /\ ~call.cancelled
    BY <1>3 DEF Idle
  <2>2. 0 % CheckInterval \in 0 .. CheckInterval - 1
    BY MachineAssumption, DivisionParts
  <2> QED BY <2>1, <2>2, MachineAssumption DEF Timely, SinceLook
<1> QED BY <1>5, <1>6, <1>7 DEF IInv

LEMMA AlwaysIInv == Spec => []IInv
BY InitKeeps, NextKeeps, PTL DEF Spec

-----------------------------------------------------------------------------
\* The model's records stay what their declarations say, for any number of
\* instructions, lines, restores and faults.
THEOREM AlwaysTypeOK == Spec => []TypeOK
<1>1. IInv => TypeOK
  BY DEF IInv
<1> QED BY <1>1, AlwaysIInv, PTL

\* No story gets two lines out of one call, and Start only ever begins a game
\* (execute.go, input.go).
THEOREM LinesReadOnce == Spec => []LineReadOnce
<1>1. IInv => LineReadOnce
  BY DEF IInv
<1> QED BY <1>1, AlwaysIInv, PTL

\* A call that begins at an input boundary gives its line to the instruction
\* that stopped there, and to nothing before it.
THEOREM BoundariesReadLines == Spec => []BoundaryReadsLine
<1>1. IInv => BoundaryReadsLine
  BY DEF IInv
<1> QED BY <1>1, AlwaysIInv, PTL

\* Wherever a cancellation falls between two looks at the context, fewer than
\* CheckInterval instructions begin after it.
THEOREM CancellationsSoon == Spec => []CancelledSoon
<1>1. IInv => CancelledSoon
  <2> SUFFICES ASSUME IInv PROVE call.late < CheckInterval
    BY DEF CancelledSoon
  <2>1. call.executed \in Int /\ call.late \in Int /\ CheckInterval \in Nat \ {0}
    BY MachineAssumption DEF IInv, TypeOK, CallState
  <2>2. call.executed % CheckInterval \in 0 .. CheckInterval - 1
    BY <2>1, DivisionParts
  <2> QED BY <2>1, <2>2 DEF IInv, Timely, SinceLook
<1> QED BY <1>1, AlwaysIInv, PTL

\* The status line of a result is that of the globals at the boundary.
THEOREM StatusAlwaysCurrent == Spec => []StatusCurrent
<1>1. IInv => StatusCurrent
  BY DEF IInv
<1> QED BY <1>1, AlwaysIInv, PTL

-----------------------------------------------------------------------------
\* The header bits that no instruction of this interpreter sets or clears for
\* itself: the story's own.
InterpreterBits == {"noStatusLine", "splitAvailable", "variablePitch", "transcript"}

\* A header is as it is made when the bits of the interpreter have its values.
LEMMA HeaderMade ==
  ASSUME NEW flags \in SUBSET HeaderBits
  PROVE  InitHeader(flags) = flags <=>
            "splitAvailable" \in flags /\ flags \cap InterpreterBits = {"splitAvailable"}
BY DEF InitHeader, HeaderBits, InterpreterBits

\* As long as the story leaves those bits alone, so does the machine.
LEMMA HeaderStep ==
  ASSUME StoryWrites \cap InterpreterBits = {}, IInv, HeaderKept, [Next]_vars
  PROVE  HeaderKept'
<1>1. m \in State /\ m.flags \in SUBSET HeaderBits
  BY DEF IInv, TypeOK, State
<1>2. ASSUME m'.flags = m.flags, spoiled' = spoiled
      PROVE  HeaderKept'
  BY <1>2 DEF HeaderKept
<1>3. ASSUME InitHeader(m'.flags) = m'.flags
      PROVE  HeaderKept'
  BY <1>3 DEF HeaderKept
<1>4. CASE LimitReached \/ CancellationSeen \/ Proceed \/ UNCHANGED vars
  BY <1>2, <1>4 DEF LimitReached, CancellationSeen, Proceed, Return, vars
<1>5. CASE Fault \/ RandomFault \/ Quit \/ Suspend \/ ReadLineFault
  BY <1>1, <1>2, <1>5
     DEF Fault, RandomFault, Quit, Suspend, ReadLineFault, Return, Suspended, UpdatedStatus,
         LineTaken, State
<1>6. CASE ShowStatus \/ Draw \/ Reseed \/ ReadLine
  BY <1>1, <1>2, <1>6
     DEF ShowStatus, Draw, Reseed, ReadLine, ContinueWith, UpdatedStatus, LineTaken, State
<1>7. CASE Other \/ OtherFault
  <2>1. PICK core \in Core, flags \in SUBSET StoryWrites, screen \in Screen :
             m' = Written(m, core, flags, screen) /\ spoiled' = spoiled
    BY <1>7 DEF Other, OtherFault, ContinueWith, Return
  <2>2. m'.flags = (m.flags \ StoryWrites) \cup flags /\ spoiled' = spoiled
    BY <1>1, <2>1, WrittenType
  <2>3. m'.flags \in SUBSET HeaderBits
    BY <1>1, <2>2, MachineAssumption
  <2>4. m'.flags \cap InterpreterBits = m.flags \cap InterpreterBits
    BY <2>2
  <2> QED BY <1>1, <2>2, <2>3, <2>4, HeaderMade DEF HeaderKept
<1>8. CASE Transcript
  <2>1. m'.flags = m.flags \ {"transcript"} /\ spoiled' = spoiled
    BY <1>1, <1>8 DEF Transcript, ContinueWith, State
  <2> QED BY <1>1, <2>1, HeaderMade DEF HeaderKept, InterpreterBits
<1>9. CASE Restart
  <2>1. PICK random \in FreshGenerators : m' = Restarted(m, random)
    BY <1>9 DEF Restart, ContinueWith
  <2> QED BY <1>1, <1>3, <2>1, FreshGeneratorsType, RestartedType
<1>10. CASE New
  BY <1>3, <1>10, FreshGeneratorsType, NewMachineType DEF New
<1>11. CASE Start \/ Run
  BY <1>1, <1>2, <1>11 DEF Start, Run, Begin, State
<1>12. CASE CallRefused \/ Cancel \/ RestoreRefused
  BY <1>2, <1>12 DEF CallRefused, Cancel, RestoreRefused
<1>13. CASE RestoreOwn \/ RestoreOther
  <2>1. PICK save \in Save : Restore(save)
    BY <1>13, SomeSaveRestored
  <2>2. ASSUME NEW s, RestoreFailed(s)
        PROVE  HeaderKept'
    BY <2>2 DEF RestoreFailed, HeaderKept
  <2>3. ASSUME NEW random \in RestoredGenerators(save), NEW core \in Core, NEW atBoundary,
               \/ Restored(Rebuilt(m, save, random), atBoundary)
               \/ Restored([Rebuilt(m, save, random) EXCEPT !.core = core], atBoundary)
        PROVE  HeaderKept'
    BY <1>1, <1>3, <2>3, RebuiltType DEF Restored, State
  <2> QED BY <1>1, <2>1, <2>2, <2>3, MachineAssumption DEF Restore
<1> QED BY <1>4, <1>5, <1>6, <1>7, <1>8, <1>9, <1>10, <1>11, <1>12, <1>13
        DEF Next, Loop, Host

\* Machines that agree in every part are the same.
LEMMA StateEqual ==
  ASSUME NEW s \in State, NEW t \in State,
         s.core = t.core, s.flags = t.flags, s.random = t.random, s.screen = t.screen,
         s.status = t.status, s.started = t.started, s.halted = t.halted,
         s.hasLine = t.hasLine
  PROVE  s = t
BY DEF State

\* A new machine that restores the state m has returned agrees with it in all
\* but the status line and the bits of the interpreter, which are made again.
LEMMA RebuiltFields ==
  ASSUME IInv, answer = "waiting",
         NEW fresh \in FreshGenerators, NEW random \in RestoredGenerators(Snapshot(m))
  PROVE  [Rebuilt(NewMachine(fresh), Snapshot(m), random) EXCEPT !.status = m.status]
         = [m EXCEPT !.flags = InitHeader(@)]
<1> DEFINE new == NewMachine(fresh)
           save == Snapshot(m)
           rebuilt == Rebuilt(new, save, random)
<1>1. /\ m \in State /\ m.random \in Generator /\ m.started /\ ~m.halted /\ ~m.hasLine
      /\ m.status \in Core \cup {NoStatus} /\ m.flags \in SUBSET HeaderBits
      /\ {m.started, m.halted, m.hasLine} \subseteq BOOLEAN
  BY DEF IInv, TypeOK, AtBoundary, LineReadOnce, State
<1>2. new \in State
  BY FreshGeneratorsType, NewMachineType
<1>3. save \in Save
  BY <1>1 DEF Snapshot, Save, Chunk, State
<1>4. /\ save.core = m.core /\ save.flags = m.flags /\ RestoredScreen(save) = m.screen
      /\ random = m.random
  BY DEF Snapshot, RestoredScreen, RestoredGenerators
<1>5. /\ rebuilt \in State /\ rebuilt.core = m.core /\ rebuilt.flags = InitHeader(m.flags)
      /\ rebuilt.started /\ ~rebuilt.halted /\ ~rebuilt.hasLine
  BY <1>2, <1>3, <1>4, RebuiltType
<1>6. rebuilt.random = m.random /\ rebuilt.screen = m.screen
  BY <1>2, <1>3, <1>4, ChunksRestoredType DEF Rebuilt, State
<1>7. rebuilt.started = m.started /\ rebuilt.halted = m.halted /\ rebuilt.hasLine = m.hasLine
  BY <1>1, <1>5 DEF State
<1>8. InitHeader(m.flags) \in SUBSET HeaderBits
  BY <1>1, InitHeaderType
<1> HIDE DEF rebuilt, new, save
<1> DEFINE s == [rebuilt EXCEPT !.status = m.status]
           t == [m EXCEPT !.flags = InitHeader(@)]
<1>9. /\ s \in State /\ t \in State
      /\ s.core = t.core /\ s.flags = t.flags /\ s.random = t.random /\ s.screen = t.screen
      /\ s.status = t.status /\ s.started = t.started /\ s.halted = t.halted
      /\ s.hasLine = t.hasLine
  BY <1>1, <1>5, <1>6, <1>7, <1>8 DEF State
<1>10. s = t
  <2> HIDE DEF s, t
  <2> QED BY <1>9, StateEqual
<1> QED BY <1>10 DEF rebuilt, new, save

\* A machine rebuilt for every turn is the one kept alive for the whole game,
\* as far as the story leaves the interpreter's header bits alone: a story that
\* stores one of them keeps it on a retained machine and loses it on a rebuilt
\* one, which is why the assumption is needed.
THEOREM RebuiltAlways ==
  ASSUME StoryWrites \cap InterpreterBits = {}
  PROVE  Spec => []RebuiltAlike
<1>1. Init => HeaderKept
  BY FreshGeneratorsType, NewMachineType DEF Init, HeaderKept
<1>2. IInv /\ HeaderKept /\ [Next]_vars => HeaderKept'
  BY HeaderStep
<1>3. IInv /\ HeaderKept => RebuiltAlike
  <2> SUFFICES ASSUME IInv, HeaderKept, answer = "waiting", ~spoiled,
                      NEW fresh \in FreshGenerators,
                      NEW random \in RestoredGenerators(Snapshot(m))
               PROVE  [Rebuilt(NewMachine(fresh), Snapshot(m), random)
                          EXCEPT !.status = m.status] = m
    BY DEF RebuiltAlike
  <2>1. InitHeader(m.flags) = m.flags /\ m \in State
    BY DEF HeaderKept, IInv, TypeOK
  <2>2. [m EXCEPT !.flags = InitHeader(@)] = m
    BY <2>1 DEF State
  <2> QED BY <2>2, RebuiltFields
<1> QED BY <1>1, <1>2, <1>3, AlwaysIInv, PTL DEF Spec

\* Without any assumption on what the story writes, and also after a Restore has
\* failed half-way, the interpreter's header bits are the only difference.
RebuiltButForHeader ==
    answer = "waiting" =>
       \A fresh \in FreshGenerators, random \in RestoredGenerators(Snapshot(m)) :
          [Rebuilt(NewMachine(fresh), Snapshot(m), random) EXCEPT !.status = m.status]
          = [m EXCEPT !.flags = InitHeader(@)]

\* A rebuilt machine is the retained one but for those bits, whatever the story
\* stores (Restore and snapshot, state.go).
THEOREM RebuiltAlwaysButForHeader == Spec => []RebuiltButForHeader
<1>1. IInv => RebuiltButForHeader
  BY RebuiltFields DEF RebuiltButForHeader
<1> QED BY <1>1, AlwaysIInv, PTL

=============================================================================
