------------------------------ MODULE Machine ------------------------------
(***************************************************************************)
(* A Machine as its host sees it (machine.go, execute.go, state.go): calls *)
(* to Start and Run, each executing instructions until the story asks for  *)
(* a line it has not been given, ends itself, faults, or runs into the     *)
(* instruction limit or a cancelled context; the state returned at an      *)
(* input boundary; and Restore, on this machine or on a new one.           *)
(*                                                                         *)
(* What the instructions compute is the business of Routines.  Here memory *)
(* apart from the interpreter's header bits, the call chain, the stack and *)
(* the program counter are one opaque value, the core, and "story" says    *)
(* which kind of instruction each core stands at.  An instruction leads to *)
(* any core, so the story is arbitrary, but a core that is saved and       *)
(* restored stands at the instruction it stood at before.                  *)
(***************************************************************************)
EXTENDS Naturals

CONSTANTS
    Core,               \* processor states
    InitialCore,        \* the one the story file describes
    NoStatus,           \* the status line before its first update
    Screen,             \* windows, stream selections and open tables
    InitialScreen,
    Seed,               \* values the generator can be seeded with
    HostSeed,           \* {s} when the host asked for seed s, and {} when not
    Period,             \* how many draws it takes a generator to come round
    StoryFlags,         \* the header bits of the story file
    StoryWrites,        \* the header bits the story itself sets and clears
    InstructionLimit,
    CheckInterval       \* 1024: iterations from one look at the context to the next

HeaderBits ==
    {"noStatusLine", "splitAvailable", "variablePitch", "transcript", "fixedPitch"}

ASSUME MachineAssumption ==
    /\ InitialCore \in Core /\ NoStatus \notin Core
    /\ InitialScreen \in Screen
    /\ HostSeed \subseteq Seed /\ Seed # {}
    /\ Period \in Nat \ {0}
    /\ StoryFlags \subseteq HeaderBits /\ StoryWrites \subseteq HeaderBits
    /\ InstructionLimit \in Nat \ {0}
    /\ CheckInterval \in Nat \ {0}

VARIABLES
    story,      \* which kind of instruction a core stands at; never changes
    m,          \* the Machine
    call,       \* the call to Start or Run in progress, if any
    answer,     \* what the last call returned, "none" while one runs
    boundary,   \* does m stand at an input boundary
    spoiled     \* has a Restore failed half-way, and nothing replaced m since

vars == <<story, m, call, answer, boundary, spoiled>>

Kind == {"sread", "quit", "restart", "other"}

Generator == [seed : Seed, drawn : 0 .. Period - 1, predictable : BOOLEAN]

State ==
    [ core    : Core,
      flags   : SUBSET HeaderBits,
      random  : Generator,
      screen  : Screen,
      status  : Core \cup {NoStatus},    \* the core it was computed from
      started : BOOLEAN,
      halted  : BOOLEAN,
      hasLine : BOOLEAN ]

CallState ==
    [ running   : BOOLEAN,
      at        : {"check", "execute"},      \* where the loop stands
      executed  : 0 .. InstructionLimit,
      cancelled : BOOLEAN,
      late      : 0 .. InstructionLimit,     \* instructions since it was cancelled
      reads     : 0 .. InstructionLimit,     \* lines consumed
      resumes   : BOOLEAN ]                  \* did it begin at an input boundary

Idle ==
    [ running |-> FALSE, at |-> "check", executed |-> 0, cancelled |-> FALSE,
      late |-> 0, reads |-> 0, resumes |-> FALSE ]

-----------------------------------------------------------------------------
\* The header bits that describe the interpreter rather than the story.
InitHeader(flags) ==
    (flags \ {"noStatusLine", "variablePitch", "transcript"}) \cup {"splitAvailable"}

Seeded(seed, predictable) == [seed |-> seed, drawn |-> 0, predictable |-> predictable]

\* The generators of a game that begins: the host's seed, or unpredictable.
FreshGenerators ==
    IF HostSeed # {}
    THEN {Seeded(seed, TRUE) : seed \in HostSeed}
    ELSE {Seeded(seed, FALSE) : seed \in Seed}

NewMachine(random) ==
    [ core    |-> InitialCore,
      flags   |-> InitHeader(StoryFlags),
      random  |-> random,
      screen  |-> InitialScreen,
      status  |-> NoStatus,
      started |-> FALSE,
      halted  |-> FALSE,
      hasLine |-> FALSE ]

Surviving(flags) == flags \cap {"transcript", "fixedPitch"}

Restarted(s, random) ==
    [s EXCEPT !.core   = InitialCore,
              !.flags  = InitHeader((StoryFlags \ {"transcript", "fixedPitch"})
                                        \cup Surviving(s.flags)),
              !.random = random,
              !.screen = InitialScreen,
              !.status = NoStatus]

-----------------------------------------------------------------------------
\* Saved states.  The generator and the screen travel in chunks of this
\* engine's own, which another interpreter's save lacks, an older version of the
\* engine wrote in a form that is passed over, and a damaged save may carry in
\* one that cannot be used.

Chunk == {"present", "absent", "unreadable", "corrupt"}

Save ==
    [ core : Core, flags : SUBSET HeaderBits,
      random : Generator, randomChunk : Chunk,
      screen : Screen, screenChunk : Chunk ]

\* A mutant: the snapshot forgets how far the generator had come.
SnapshotReseeded(s) ==
    [ core |-> s.core, flags |-> s.flags,
      random |-> [s.random EXCEPT !.drawn = 0], randomChunk |-> "present",
      screen |-> s.screen, screenChunk |-> "present" ]

Snapshot(s) ==
    [ core |-> s.core, flags |-> s.flags,
      random |-> s.random, randomChunk |-> "present",
      screen |-> s.screen, screenChunk |-> "present" ]

OwnSnapshot(save) == save.randomChunk # "absent" \/ save.screenChunk # "absent"

\* What Restore has assigned before it looks at the chunks.
Committed(s, save) ==
    [s EXCEPT !.core = save.core, !.flags = save.flags, !.status = NoStatus,
              !.started = TRUE, !.halted = FALSE, !.hasLine = FALSE]

RestoredGenerators(save) ==
    IF save.randomChunk = "present" THEN {save.random} ELSE FreshGenerators

RestoredScreen(save) ==
    IF save.screenChunk = "present" THEN save.screen ELSE InitialScreen

ChunksRestored(s, save, random) ==
    [Committed(s, save) EXCEPT !.random = random, !.screen = RestoredScreen(save)]

Rebuilt(s, save, random) ==
    [ChunksRestored(s, save, random) EXCEPT !.flags = InitHeader(@)]

-----------------------------------------------------------------------------
\* The host.

Init ==
    /\ story \in [Core -> Kind]
    /\ \E random \in FreshGenerators : m = NewMachine(random)
    /\ call = Idle
    /\ answer = "none"
    /\ boundary = FALSE
    /\ spoiled = FALSE

\* Every request builds a machine of its own.
New ==
    /\ ~call.running
    /\ \E random \in FreshGenerators : m' = NewMachine(random)
    /\ answer' = "none"
    /\ boundary' = FALSE
    /\ spoiled' = FALSE
    /\ UNCHANGED <<story, call>>

\* The host may pass a context that is already cancelled.
Begin(line) ==
    /\ m' = [m EXCEPT !.started = TRUE, !.hasLine = line]
    /\ \E cancelled \in BOOLEAN :
          call' = [Idle EXCEPT !.running = TRUE, !.cancelled = cancelled,
                               !.resumes = boundary]
    /\ answer' = "none"
    /\ boundary' = FALSE
    /\ UNCHANGED <<story, spoiled>>

Start == ~call.running /\ ~m.halted /\ ~m.started /\ Begin(FALSE)

Run == ~call.running /\ ~m.halted /\ Begin(TRUE)

\* A nil context, a second Start, any call on a halted machine.
CallRefused ==
    /\ ~call.running
    /\ answer' = "refused"
    /\ UNCHANGED <<story, m, call, boundary, spoiled>>

Cancel ==
    /\ call.running /\ ~call.cancelled
    /\ call' = [call EXCEPT !.cancelled = TRUE]
    /\ UNCHANGED <<story, m, answer, boundary, spoiled>>

-----------------------------------------------------------------------------
\* The execution loop.

Return(s, how, resumable) ==
    /\ m' = s
    /\ call' = Idle
    /\ answer' = how
    /\ boundary' = resumable
    /\ UNCHANGED <<story, spoiled>>

\* A mutant: one instruction too many.
LimitPassed(executed) == executed > InstructionLimit

LimitHit(executed) == executed >= InstructionLimit

LimitReached ==
    /\ call.running /\ call.at = "check"
    /\ LimitHit(call.executed)
    /\ Return(m, "limit", FALSE)

\* A mutant: the context is looked at once, when the call begins.
ContextChecked(executed) == executed = 0

\* Is this an iteration that looks at the context?
LooksAtContext(executed) == executed % CheckInterval = 0

CancellationSeen ==
    /\ call.running /\ call.at = "check"
    /\ ~LimitHit(call.executed)
    /\ LooksAtContext(call.executed) /\ call.cancelled
    /\ Return(m, "cancelled", call.resumes /\ call.executed = 0)

Proceed ==
    /\ call.running /\ call.at = "check"
    /\ ~LimitHit(call.executed)
    /\ LooksAtContext(call.executed) => ~call.cancelled
    /\ call' = [call EXCEPT !.at = "execute", !.executed = @ + 1,
                            !.late = IF call.cancelled THEN @ + 1 ELSE @]
    /\ UNCHANGED <<story, m, answer, boundary, spoiled>>

\* A mutant: the loop does not count what it executes.
NextIterationUncounted(reads) ==
    call' = [call EXCEPT !.at = "check", !.reads = reads, !.executed = 0]

NextIteration(reads) == call' = [call EXCEPT !.at = "check", !.reads = reads]

ContinueWith(s, reads) ==
    /\ m' = s
    /\ NextIteration(reads)
    /\ UNCHANGED <<story, answer, boundary, spoiled>>

Executing(kind) ==
    /\ call.running /\ call.at = "execute"
    /\ story[m.core] = kind

Drawn(random) == [random EXCEPT !.drawn = (@ + 1) % Period]

\* Undecodable bytes leave the machine as it is; an instruction whose operands
\* are refused leaves it with those that were evaluated.
Fault ==
    /\ call.running /\ call.at = "execute"
    /\ \E core \in Core : Return([m EXCEPT !.core = core], "fault", FALSE)

\* A generator drawn from or seeded by an instruction that is then refused,
\* because it cannot store its result, stays drawn from or seeded.
RandomFault ==
    /\ Executing("other")
    /\ \E core \in Core, random \in {Drawn(m.random)} \cup [seed : Seed, drawn : {0}, predictable : BOOLEAN] :
          Return([m EXCEPT !.core = core, !.random = random], "fault", FALSE)

UpdatedStatus(s) == [s EXCEPT !.status = s.core]

\* Memory, the story's header bits in it and the screen are written.
Written(s, core, flags, screen) ==
    [s EXCEPT !.core = core, !.flags = (@ \ StoryWrites) \cup flags, !.screen = screen]

\* Everything that neither reads, ends nor restarts.
Other ==
    /\ Executing("other")
    /\ \E core \in Core, flags \in SUBSET StoryWrites, screen \in Screen :
          ContinueWith(Written(m, core, flags, screen), call.reads)

\* Refused half-way, when it has printed or stored some of what it had to: a text
\* that runs out of its table, a return whose result cannot be stored.  (restart
\* is not refused half-way: the words of the header are always readable, and the
\* entropy source of the Go version the code asks for never reports an error.)
OtherFault ==
    /\ Executing("other")
    /\ \E core \in Core, flags \in SUBSET StoryWrites, screen \in Screen :
          Return(Written(m, core, flags, screen), "fault", FALSE)

\* Selecting or deselecting stream 2 clears the transcription bit.
Transcript ==
    /\ Executing("other")
    /\ \E core \in Core :
          ContinueWith([m EXCEPT !.core = core, !.flags = @ \ {"transcript"}], call.reads)

ShowStatus ==
    /\ Executing("other")
    /\ \E core \in Core :
          ContinueWith([UpdatedStatus(m) EXCEPT !.core = core], call.reads)

Draw ==
    /\ Executing("other")
    /\ \E core \in Core :
          ContinueWith([m EXCEPT !.core = core, !.random = Drawn(@)], call.reads)

\* random with a negative range seeds the generator, with zero it reseeds it.
Reseed ==
    /\ Executing("other")
    /\ \E core \in Core, seed \in Seed, predictable \in BOOLEAN :
          ContinueWith([m EXCEPT !.core = core,
                                 !.random = Seeded(seed, predictable)], call.reads)

Restart ==
    /\ Executing("restart")
    /\ \E random \in FreshGenerators : ContinueWith(Restarted(m, random), call.reads)

Quit ==
    /\ Executing("quit")
    /\ \E core \in Core : Return([m EXCEPT !.core = core, !.halted = TRUE], "halted", FALSE)

\* A mutant: the status line is left for the instruction's second execution.
SuspendedWithoutStatus(s) == s

\* A mutant: the program counter is not put back on the instruction.
SuspendedBehind(s) ==
    [UpdatedStatus(s) EXCEPT !.core = CHOOSE core \in Core : core # s.core]

Suspended(s) == UpdatedStatus(s)

\* No line: nothing is evaluated and the program counter stays where it is.
Suspend ==
    /\ Executing("sread") /\ ~m.hasLine
    /\ Return(Suspended(m), "waiting", TRUE)

\* A mutant: the line stays behind for the next instruction that asks for one.
LineLeft(s, core) == [UpdatedStatus(s) EXCEPT !.core = core]

LineTaken(s, core) == [UpdatedStatus(s) EXCEPT !.core = core, !.hasLine = FALSE]

ReadLine ==
    /\ Executing("sread") /\ m.hasLine
    /\ \E core \in Core : ContinueWith(LineTaken(m, core), call.reads + 1)

\* The line is gone when a bad buffer is found.
ReadLineFault ==
    /\ Executing("sread") /\ m.hasLine
    /\ \E core \in Core : Return(LineTaken(m, core), "fault", FALSE)

-----------------------------------------------------------------------------
\* Restore.

\* Found out before anything is assigned.
RestoreRefused ==
    /\ ~call.running
    /\ answer' = "refused"
    /\ UNCHANGED <<story, m, call, boundary, spoiled>>

Restored(s, atBoundary) ==
    /\ m' = s
    /\ answer' = "restored"
    /\ boundary' = atBoundary
    /\ spoiled' = FALSE

RestoreFailed(s) ==
    /\ m' = s
    /\ answer' = "refused"
    /\ boundary' = FALSE
    /\ spoiled' = TRUE

Restore(save) ==
    /\ ~call.running
    /\ UNCHANGED <<story, call>>
    /\ \/ save.randomChunk = "corrupt" /\ RestoreFailed(Committed(m, save))
       \/ /\ save.randomChunk # "corrupt" /\ OwnSnapshot(save)
          /\ \E random \in RestoredGenerators(save) :
                Restored(Rebuilt(m, save, random), story[save.core] = "sread")
       \/ \* Another interpreter's save goes on behind its save instruction, ...
          /\ ~OwnSnapshot(save)
          /\ \E random \in RestoredGenerators(save), core \in Core :
                Restored([Rebuilt(m, save, random) EXCEPT !.core = core], FALSE)
       \/ \* ... unless the branch of that instruction cannot be followed.
          /\ ~OwnSnapshot(save)
          /\ \E random \in RestoredGenerators(save), core \in Core :
                RestoreFailed([ChunksRestored(m, save, random) EXCEPT !.core = core])

\* A state some machine returned at an input boundary.
RestoreOwn ==
    \E core \in Core, random \in Generator, screen \in Screen, flags \in SUBSET StoryWrites :
       /\ story[core] = "sread"
       /\ Restore([ core |-> core,
                    flags |-> (InitHeader(StoryFlags) \ StoryWrites) \cup flags,
                    random |-> random, randomChunk |-> "present",
                    screen |-> screen, screenChunk |-> "present" ])

\* A state with a chunk missing or damaged.
RestoreOther ==
    \E core \in Core, chunks \in (Chunk \ {"present"}) \X Chunk :
       Restore([ core |-> core, flags |-> StoryFlags,
                 random |-> m.random, randomChunk |-> chunks[1],
                 screen |-> m.screen, screenChunk |-> chunks[2] ])

-----------------------------------------------------------------------------
Loop ==
    \/ LimitReached \/ CancellationSeen \/ Proceed
    \/ Fault \/ RandomFault \/ OtherFault \/ Other \/ Transcript \/ ShowStatus \/ Draw \/ Reseed
    \/ Restart \/ Quit \/ Suspend \/ ReadLine \/ ReadLineFault

Host ==
    \/ New \/ Start \/ Run \/ CallRefused \/ Cancel
    \/ RestoreRefused \/ RestoreOwn \/ RestoreOther

Next == Loop \/ Host

Spec == Init /\ [][Next]_vars

\* A call that runs keeps running: the loop never waits for anything.
FairSpec == Spec /\ WF_vars(Loop)

-----------------------------------------------------------------------------
TypeOK ==
    /\ story \in [Core -> Kind]
    /\ m \in State
    /\ call \in CallState
    /\ answer \in {"none", "waiting", "halted", "limit", "cancelled", "fault",
                   "refused", "restored"}
    /\ boundary \in BOOLEAN /\ spoiled \in BOOLEAN

\* "Doing this on every single turn is observably identical to keeping one
\* Machine alive for the whole game" (README): a new machine that restores the
\* state returned at an input boundary is the machine that returned it, in the
\* core, the header bits, the generator and how far it has come, the screen and
\* the flags that decide which calls are accepted.  Only the status line
\* differs, and StatusCurrent says when it is right again.  A machine that a
\* failed Restore has left half-way is excepted: RestoreAllOrNothing.
RebuiltAlike ==
    answer = "waiting" /\ ~spoiled =>
       \A fresh \in FreshGenerators, random \in RestoredGenerators(Snapshot(m)) :
          [Rebuilt(NewMachine(fresh), Snapshot(m), random) EXCEPT !.status = m.status] = m

\* One call gives the story at most the one line its host supplied with it: a
\* second request for a line, also after a fault inside the first or a restart,
\* ends the call at the boundary (execute.go, input.go).  And Start, which
\* supplies none, only ever begins a game: whatever call was cancelled, refused or
\* ended by a fault before, on a machine that still accepts Start nothing has been
\* executed, restored or supplied.
LineReadOnce ==
    /\ call.reads + (IF m.hasLine THEN 1 ELSE 0) <= 1
    /\ answer = "waiting" => ~m.hasLine
    /\ ~m.started => m.core = InitialCore /\ ~m.hasLine

\* A call that begins at an input boundary, on the machine that stopped there
\* or on one the state was restored into, gives its line to that very
\* instruction: nothing comes between, and nothing is executed twice.
BoundaryReadsLine ==
    call.running /\ call.resumes /\ call.reads = 0 =>
       /\ story[m.core] = "sread" /\ m.hasLine
       /\ call.executed = IF call.at = "check" THEN 0 ELSE 1

\* However cancellation falls between the checks, at most CheckInterval
\* instructions are executed from then on, the one in progress among them: fewer
\* than that begin later.
CancelledSoon == call.late < CheckInterval

\* The status line of a result is that of the globals as they are at the
\* boundary, also right after a restore, which clears it, or a restart.
StatusCurrent == answer = "waiting" => m.status = m.core

\* Every call returns, whatever the story does: it cannot loop for ever, nor
\* wait for a line or for the host.
CallsReturn == call.running ~> ~call.running

\* "On failure the machine is left exactly as it was, so a host may report the
\* error and retry with different state" (Restore, state.go).
RestoreAllOrNothing ==
    [][~call.running /\ ~call'.running /\ answer' = "refused" => m' = m]_vars

=============================================================================
