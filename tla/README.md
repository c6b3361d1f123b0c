# A verification project for zmachine

`zmachine` is an embeddable Go interpreter for Version 3 of the Z-machine. A host
gives it one line of player input at a time; it runs the story until the story
asks for another line, and returns what was printed together with a complete
state the next request can start from. The modules here are TLA+ translations of
that program, model-checked with TLC on small instances and, for nearly every part,
proved with TLAPS for every size of story and every limit.

Source locations below are files of the repository, without the `src/` prefix
that `PROJECT.json` uses. `S n` is a section of the Z-Machine Standards Document,
as the code cites it.

## 1. The system

| Component | State it keeps | Operations | Modules |
|---|---|---|---|
| Processor (`execute.go`, `routine.go`, `stack.go`, `variable.go`, `opcode*.go`) | program counter, chain of frames, one shared evaluation stack with a watermark per frame | one decoded instruction at a time: operands, call, return, stack, variables, branches | `Memory`, `Routines`, `Activations`; `RoutinesProofs` |
| Memory map (`memory.go`, `value.go`) | dynamic memory, private to a machine; static memory, shared by all machines of a story | checked reads and writes, packed and word addresses | `Memory`, `LineInput`, `StoryText`, `SharedStory`; `PartsProofs` |
| 16-bit arithmetic (`value.go`, `opcode_2op.go`) | none | signed and unsigned readings, division, remainder, sign extension | `Arith16`; `PartsProofs` |
| Story loading (`story.go`) | the immutable `Story` | `LoadStory` with every check it makes | `StoryFile`, `SharedStory`; `LineInputProofs` |
| Machine (`machine.go`, `execute.go`, `option.go`) | started, halted, the supplied line, header bits, status line, instruction count | `New`, `Start`, `Run`, the loop with its limit and its look at the context, suspension, restart, quit | `Machine`, `MCMachine`; `MachineProofs` |
| Saved state (`state.go`) | none of its own: a Quetzal file | `snapshot`, `Restore`, frames to file and back, random and screen chunks, saves of other interpreters | `SavedFrames`, `Machine`, `OutputStreams`, `RandomSource`; `RoutinesProofs` |
| Object tree (`object.go`) | links and attributes in dynamic memory | `insertObject`, `removeObject`, walks, attributes, short names | `ObjectForest`, `ObjectTree`, `ObjectFlags`, `StoryText`; `ObjectTreeProofs`, `PartsProofs` |
| Property lists (`property.go`) | size bytes and data in dynamic memory | `get_prop`, `get_prop_addr`, `get_prop_len`, `get_next_prop`, `put_prop` | `PropertyList`; `PartsProofs` |
| Output (`output.go`) | selected streams, nested tables of stream 3, two windows | print, select, deselect, split, set window, per-call and restart resets | `OutputStreams`; `OutputStreamsProofs` |
| Line input (`input.go`) | text and parse buffers in dynamic memory | `executeSRead`: storing the line, splitting it, writing the blocks | `LineInput`; `Machine` (when a line is consumed); `LineInputProofs` |
| Dictionary (`dictionary.go`) | none: the table is read from memory for every line | reading the table, encoding a word, the binary chop | `Dictionary`, `ZText`; `LineInputProofs` |
| Random numbers (`internal/prng`) | generator state, predictable or not | seed, reseed, draw, save, restore | `RandomSource`; `Machine` (when, not what); `PartsProofs` |
| Decoder (`decode.go`, `opcode.go`) | none | one instruction from its bytes | `Decoder`; `CodeProofs`, `PartsProofs` |
| Text (`text.go`, `zscii.go`) | none | Z-characters to ZSCII, abbreviations, texts in memory | `ZText`, `StoryText`; `CodeProofs`, `PartsProofs` |
| Hosting (docs only: how-to guides on sessions, retries and locking) | a session per player in the host's storage | load, restore, run, store | not modelled |
| Errors, tracing, version; the Quetzal library | none | - | not modelled |

How they interact. The host calls `Start` or `Run`; the loop decodes and executes
one instruction after the other in the same goroutine. An instruction may reach
any part: it pops operands off the shared stack, stores into dynamic memory
(where the globals, the object table and its property lists, the buffers and the
tables of stream 3 all live side by side), prints, draws a random number, or asks
for a line. Asking for a line that has not been supplied is the only place a
state is taken. `Restore` replaces memory, chain, stack, generator and output
state of the machine it is called on; the usual host does this on a new machine
for every single turn.

What is hard. There is no concurrency inside a machine; the difficulties are

- **long sequences**: watermarks, relinked chains and nested tables are local
  manipulations whose errors surface many instructions later, often only in a
  machine rebuilt from its state;
- **refusal half-way**: every instruction can fault after some of its effects,
  and a host may call `Run` again on the machine the fault left;
- **equivalence over the saved state**: whatever is not in the file, or is saved
  at the wrong moment, makes a rebuilt machine differ from a retained one;
- **tables a story can write**: what `LoadStory` has checked once (the dictionary,
  a property list, the object table) may be something else when it is used;
- **boundaries**: both limits of the processor, the address of the end of the
  story, the longest chain and the longest list, the sixteenth table, a buffer
  that promises more room than there is, the smallest 16-bit number;
- **timing**: a context cancelled between two looks at it, and stories that never
  end on their own.

Between machines there is concurrency: any number of goroutines use one `Story`.

The hazards, each at its line, are in `PROJECT.json`, with the properties that
would catch them.

## 2. The modules

**`Memory`** is the memory map in cells of one word. The assumption
`MemoryAssumption` is what `LoadStory` has checked of a story. A file of exactly
128 KiB that declares no length is accepted, and an instruction may end with its last
byte; so the program counter and a return address are values of `Address`, which
reaches to the limit of the address space, while a branch or a jump yields a
`Target`, which `offsetAddress` keeps below it.

**`Routines`** extends it with the processor. One action is one whole
instruction, or a family of instructions with the same effect on the processor.
The action chooses what the decoder found (operands, store byte, branch), since a
story is arbitrary bytes; evaluates the operands in order, where a variable
operand 0 pops; and carries the instruction out with every way the code has of
refusing it. Compound steps of the code (return, then store the result; pop, then
look at where to put it) are functions on a record `[frames, stack, mem]` named
after the code's own helpers (`Returned`, `WriteVariable`, `CallRoutine`,
`StoreVariable`), so that a refusal in the middle leaves exactly what the code
leaves: `Refuse(Returned(s), ...)` is the return whose result does not fit.
`outcome` tells a fault from success; execution may go on after either. What a
word computed by an arithmetic instruction is, and what a store writes into
dynamic memory, is any value: nothing that is shown depends on it.

**`Activations`** is the abstract specification of the same thing: a chain of
activations each with a stack of its own, without watermarks. `Routines`
instantiates it under a refinement mapping that cuts the shared stack at the
watermarks.

**`SavedFrames`** extends `Routines` with `saveFrames`, `restoredFrames` and
`checkRestoredPC`. Its initial states are those of a new machine and those of a
machine restored from any file that is accepted.

**`Machine`** is the machine as the host sees it. Memory other than the
interpreter's header bits, the chain, the stack and the program counter are one
opaque *core*; `story` says which kind of instruction each core stands at. Every
`Start`, `Run`, `Restore` and `New` is an action, and so is every iteration of the loop
in two halves: the checks of limit and context, and one instruction. An instruction
may be refused after it has stored and printed (`OtherFault`, `RandomFault`). The host
may cancel the context between any two. `call` is history of the call in
progress, `answer` what the last one returned. `MCMachine` gives TLC its sets.

**`ObjectForest`** says what `insert_obj` and `remove_obj` promise: lists of
objects, and an object moves to the front of a list with all it holds.
**`ObjectTree`** is the code's version with three links per object, a refused
number, and a story that may store into the table itself, after which the abstract
promise is void (`intact`) and only the weaker properties remain.

**`OutputStreams`** models dynamic memory as bytes, the nested tables of stream 3,
the two windows and the captured text (its length only), printing, selecting and
deselecting, `Restart`, a restored save without a screen chunk, and `Resume`, the way through the screen
chunk, in which an address, a count and the height are two bytes each (`BytesOf`,
`FieldOf`).
`sent` and `undisturbed` are history: what has been printed to each table, and
whether anything else has been stored over it.

**`PropertyList`** models one property list in arbitrary bytes, behind a short
name of any length; the four queries are operators, `put_prop` is the action.

**`Arith16`**, **`ZText`** and **`StoryText`** are operators: the readings of a
word and signed division; Z-characters to ZSCII and back, with the grammar of S 3
as the reference definition (`Meaning`); and texts as they lie in memory, three
Z-characters to a word, with the table of abbreviations and the short names of
objects, against texts laid down by a compiler (`ReadAsLaid`,
`ReadAsAbbreviation`).

**`StoryFile`** is `LoadStory`: which files are accepted, and the `Story` made of
one. **`Dictionary`** reads the table from memory, as the code does for every
line, and looks words up: `ChopRound` is one round of the binary chop, and
`LookupPlace` makes as many rounds as there are entries, of which the last ones
change nothing (that so many are always enough is part of what is proved). **`LineInput`** extends both with `sread`: the host
supplies a line, the story stores what it likes in between, gives `sread` any two
addresses, and each of its stores may be refused. `Store` carries a refusal
through, so that what was stored before it stays. `MCLineInput` has the files
and the lines for TLC.

**`Decoder`** reads an instruction byte by byte: `phase` is the field that comes
next, and the story may end before any byte. The reference is an assembler
(`Encoding`). Nothing in `Routines` rests on the decoder: there, the decoded
instruction is chosen freely.

**`RandomSource`** has two generators side by side: two machines, or a machine and
Frotz itself, which keeps its state in a wider number (`WideLimit`). `together`
says that they have been given the same seed or the same saved state and the same
draws since. The seed of a negative range is negated in an `int32` and widened
(`Negated`), against the number without its sign for Frotz.

**`SharedStory`** names arrays of bytes by numbers and says who refers to which:
the file the host has read, the image of the `Story`, the dynamic memory of each
machine, a saved state.

**`ObjectFlags`** is the object table as bytes, of which only the attributes change.

`RandomSource`, `SharedStory`, `ObjectFlags`, `PropertyList` and `Decoder` share no
state with each other in the code beyond what the other modules say.
**`Parts`** puts them and the operators of `Arith16`, `ZText` and `StoryText` into
one specification: `part` says which one a behaviour is about, and the variables of the
others keep one value. Words and texts are tried one after the other (`pair`,
`zchars`, `typed`). `PartsTypeOK` is the conjunction of the type invariants.
`MCParts` gives TLC its sets.

**`NumberFacts`** holds the lemmas about numbers that several proofs need, and
`RoutinesProofs`, `MachineProofs`, `ObjectTreeProofs`, `OutputStreamsProofs`,
`LineInputProofs`, `CodeProofs` and `PartsProofs` the theorems of section
6. They define nothing that the runs use.

Definitions named as mutants (a comment `A mutant:` precedes each) are plausible
faults of the definition that follows them. They are used only to confirm that
a property can fail.

## 3. The runs

| Run | Question | Result |
|---|---|---|
| `routines` | Do the watermarks stay nested, do routines leave their callers alone, and is one stack with watermarks as good as a stack per routine, through every instruction and refusal? | holds |
| `saved_frames` | Do chain and stack survive the file, and is a machine restored from any accepted file sound? | holds |
| `saved_frames_own` | Is every state of this engine accepted by this engine? | **violated**, finding 3 |
| `machine` | Is a rebuilt machine the retained one? Is a line read once, by the instruction that asked for it? Do cancellation and the limit work? Does every call return? | holds |
| `machine_flags` | ... with a story that stores the transcription bit | **violated**, finding 2 |
| `machine_restore` | Does a refused `Restore` change nothing? | **violated**, finding 1 |
| `object_tree` | Do the links stay a forest of lists, and do refusals change nothing? | holds |
| `output_streams` | Do nested tables hold what was printed to them, also across a saved state? | holds |
| `line_input` | Does `sread` write its two buffers only, describe the line rightly, and refuse nothing without a reason, from every file that is accepted? | holds |
| `line_dictionary` | Can the dictionary always be read? | **violated**, finding 5 |
| `parts` | Do the parts that share no state do what their references say: arithmetic, texts, decoder, generators, property lists, attributes, and machines on one story? (Texts in memory: of up to two words.) | holds |
| `property_full` | Can a well-formed list of all the properties there are be enumerated? | **violated**, finding 4 |

### Properties worth a second look

- `CallersUntouched` (action property): an instruction, refused or not, leaves
  the stack below the current watermark and all frames below the current one as
  they are, except that a return may store into a local of the immediate caller.
- `PrivateStacks`: `Routines` implements `Activations`.
- `FramesSurvive`: saving and restoring gives back the very chain, with
  watermarks, undeclared locals and argument counts, although the file holds none of
  them directly.
- `RebuiltAlike`: a new machine that restores the state returned at a boundary
  equals the machine that returned it, whatever the story did before. It excludes
  two things and names them: machines a failed `Restore` has left half-way
  (`spoiled`), and, by the constant `StoryWrites`, a story that writes the
  interpreter's bits.
- `LineReadOnce`: a line is read once at most, and a machine that still accepts
  `Start`, which supplies none, has executed nothing: a `Start` that was cancelled
  midway cannot be repeated from the middle.
- `BoundaryReadsLine`: a call that begins at a boundary gives its line to the
  instruction that stopped there.
- `CancelledSoon`: at most `CheckInterval` instructions are executed from a
  cancellation on, the one in progress among them, wherever it falls.
- `CallsReturn` (liveness): every call ends.
- `WellFounded`, `DamageIsReal`, `ImplementsForest`: see the module; the first
  excludes by name the one thing `insertObject` lets through, an object put into
  an object that it holds (`looped`).
- `TablesHoldText`: count and content of every open table, also when a text runs
  off the end of memory in the middle.
- `ClosedTableComplete` (action property): the word that closing a table stores, put
  together from its two bytes, is the number of characters printed to it.
- `ScreenSurvives`: `Restore` believes every screen chunk this engine writes, and
  reads every field of it back as it was.
- `PutChangesOneValue` (action property): `put_prop` on a well-formed list gives
  one property its value and changes no size byte and no other property.
- `ParseDescribesText`: after an `sread`, the parse buffer names the words that the
  text buffer holds, in order, each by its place, its length and the entry that
  spells it. The words are defined without an automaton (`WordsOf`).
- `OnlyBuffersWritten` (action property): wherever an `sread` stops, it has changed
  nothing but the buffers as long as they say they are, and not the count of an
  earlier line if it was refused.
- `NotRefusedInVain` (action property): the converse of the checks of `sread`. A
  parse buffer that promises more room than there is does not matter as long as
  the words of the line fit.
- `LookupExact`: the chop finds what is there, in order, and never a word that is
  not, even in what a story has made of a dictionary it can write.
- `TablesMapped`: the tables of the header stay readable or writable for as long as
  a machine runs, so that no instruction need check them again.
- `EncodesBack`: what the decoder has read, an assembler writes as the same bytes.
- `TextsAsSpecified`, `EncodingInverse`: decoding is the grammar's, a text ends where
  its mark says, and an encoded word decodes to itself as far as an entry goes.
- `SameNumbers`, `CycleKept`: equal seeds and states give equal numbers, those of
  Frotz, also from the smallest operand, whose negation does not fit in a word; a
  counter a machine has come to by itself lies in its cycle.
- `Isolated` (action property): a step of one machine, or of the host on its own
  arrays, changes nothing that another machine reads, and never the `Story`.
- `OneFlagChanges` (action property): `set_attr` and `clear_attr` change one bit,
  never one of the object's parent, and number the bits as a compiler does.
- `QuotientAndRemainder`: for every pair of words, the smallest divided by -1
  among them, `div` and `mod` belong together.

### Bounds, and why they are enough

`routines`: words of one bit with one local and one global, so that each word is
also a variable number and an indirect reference can name the stack, the local or
the global; two activations, two words of stack and two operands let every pair
of watermark and top occur, both limits be reached, and an operand pop what an
earlier one left. Static memory is one cell, and the story fills the
address space, so that a program counter can be valid or behind the last address
there is; in `saved_frames` the story is shorter than the address space, so that a
branch or a file can also name an address outside it. A call passes at most one argument
(`MaxArguments`), which is enough for one more and one fewer than the routine has
locals. `saved_frames`: two frames and one word, with files that exceed each limit by
one, calls of at most one argument among them.
What these bounds leave out (a routine in the middle of a chain, a longer
stack, another list of objects) is covered by the theorems of section 6 for all
properties but the one that section 7 names.
`machine`: two cores (an instruction to wait at and one more), two seeds, a
generator that comes round after two draws, three instructions per call and a
look at the context at the first and the third: the limit, cancellation before,
at and between looks, and a second request for a line within a call all occur.
`object_tree`: four objects is the least number with a chain to take an object
out of the middle of and a holder and a further object to move to;
`ChainLimit = Held` is as tight as 255 is for 255 objects, and one store into the
table is enough for a loop or a broken chain. `output_streams`: two nested tables in five
bytes must overlap or run out; with three values to a byte, three characters make
a count carry, and the address 3 and the height 4 take two bytes. A count at the
limit of a word occurs in no run and in no story, dynamic memory being shorter
than that; `Room` has the check as the code has it. The
one bound on captured text (`MaxCaptured`) limits a length that matters only as
zero or more.

`line_input`: bytes of three bits, so that a dictionary of three entries can have
an address beyond the words; story files at each limit of `LoadStory` and just
beyond; lines that are empty, fill the text buffer, have more words than the
parse buffer, or hold characters that are dropped; three stores and reads
(`MaxSteps`), which is enough to change a size byte and a table and to read two
lines into the same buffers; buffers that overlap each other, the end of
dynamic memory and a dynamic dictionary.

`parts`: words of four bits, all pairs of them; texts of up to five
Z-characters (`MaxZChars`), an abbreviation and an escape in one, over all
Z-characters of three bits, of which those of up to two words (`MaxLaid`) are also laid
down in memory, behind the length of a name and for the first and the last entry
of the table of abbreviations (`LaidIndices`); typed words of up to four characters
(`MaxTyped`), which overflow an entry of six Z-characters; all 256 opcode bytes, with
types bytes of each pattern and texts of two words (`MaxTextWords`);
generators of six states against Frotz's of eighteen, with a counter of four values,
so that one beyond its interval comes round, of one host or the second without its
seed; operands of `random` of three bits (`RangeLimit`), the smallest, whose negation does
not fit in them, among them, negated in four (`IntLimit`); five bytes of property list of every content (of the last one, which can only end
the list or have no room for data, two values), behind names of three lengths, the last of which puts
the list out of the story, with addresses from 5 on (`NameableSize`) that do not
fit in a word; two objects of four attributes; two machines (a symmetry set: nothing
tells one request from another) on a story of two bytes. `property_full` needs only two properties.

### Fairness

Only `CallsReturn` needs it: weak fairness of `Loop`, the iterations of a call.
The loop of `execute.go` runs in the caller's goroutine and waits for nothing: no
lock, no channel, no I/O other than the host's own logger. Nothing is assumed about the
host or about cancellation, and none about the story, which may loop for ever.
The action property of `machine_restore` is refuted under the same
specification.

`CHECK_DEADLOCK` is left on everywhere: the host may always make another call,
and a story's next instruction can always be refused.

## 4. Findings

1. `Restore` is documented to leave the machine as it was when it fails. It
   assigns memory, the program counter, the frames and the stack before it decodes
   the random chunk and before it follows the branch of another interpreter's save,
   and both may fail.
2. A story that sets bit 0 of Flags 2 with an ordinary store keeps it on a
   retained machine and loses it on a rebuilt one, so the two are not observably
   identical to a story that reads the bit. (A transcript *instruction* clears it
   on both.)
3. A call instruction that ends exactly at the end of the story has a return
   address that `saveFrames` writes and `restoredFrames` refuses, so such a state
   is not restorable although the story file has not changed.
4. A property list of exactly 31 entries is well-formed by the comment of
   `property.go`, but the walk looks at 31 size bytes and never at the terminator
   behind them, so `get_next_prop` after the last property is answered with the
   error for a list that is too long.

5. A dictionary that lies in dynamic memory is accepted by `LoadStory`, and a
   story can store a negative count, a short entry length or too many entries into
   it, after which `sread` is refused. The comment in `dictionary.go` says that the
   dictionary lies in static memory and the reads cannot fail.

All five are disagreements of a doc or comment with the code; each has a run that
shows it.

## 5. Divergences met that are not findings

`restart` keeps the transcription bit through the reset (`machine.go`), and then
`initHeader` clears it; the model does both, in that order. A restored random
chunk of an older version of the engine is passed over without an error rather
than refused; in the model that is the chunk value `"unreadable"`.

## 6. What is proved

The theorems hold for every value of the constants that the `ASSUME` of each
module admits; the assumptions say what the code or `LoadStory` ensures (that a
limit is a natural number, that static memory begins inside the story, that an
interval between two looks is not zero, that what a player can type can be
printed in lower case and a space has no other case, that an entry of the dictionary is of whole words) and are
evaluated by TLC in the runs. `PROJECT.json` lists the theorems with the property of a run that each states.

The prover has no arithmetic with a divisor that is not a numeral and cannot use the
library's induction theorems, which take a predicate as a parameter.
`NumberFacts` makes up for both: quotient and remainder and how they change, the
least number of a set (`LeastNumber`), induction for a set (`SetInduction`) and the
existence of recursive functions (`RecursionExists`). Each recursive function of
the models is handled in the same way: `RecursionExists` gives a function that
unfolds as the definition does, hence the `CHOOSE` behind the definition unfolds,
and what it computes follows by induction on its rounds.

### The processor (`RoutinesProofs`)

- `FramesAlwaysNested`, `RoutinesTyped`: `Spec => []FramesNested`, `[]TypeOK`;
- `CallersNeverTouched`: `Spec => CallersUntouched`;
- `RoutinesImplementActivations`: `Spec => PrivateStacks`.

The inductive invariant is `TypeOK /\ FramesNested`. `FramesNested` alone is not
inductive: that an operand popped or a local written leaves the watermarks where
they are needs the types; and `TypeOK` alone says nothing of a stack that a
return cuts back. The argument has three layers.

1. *Helpers.* `Sound(s)` is the invariant for a storage record, `Within(s, t)`
   says that `t` differs from `s` in what the innermost routine owns at most. Each
   helper (`Dropped`, `SetLocal`, `SetGlobal`, `WriteVariable`,
   `WriteIndirect`, ...) is shown to lead from a sound record to a sound one
   within it, under the condition in which the code performs it; `Returned` and
   `Called` are shown sound on their own.
2. *Composition.* `Within` is transitive and, together with a return and the
   delivery of its result, gives `Keeps(s, t)`: what the callers own is kept.
   `Keeps` is what `CallersUntouched` says, for records.
3. *Instructions.* The ends of instructions (`Continue`, `Refuse`,
   `StoreVariable`, `ReturnFromRoutine`, `CallRoutine`, `Branch`) are shown to
   commit a sound record that keeps the callers' part, and each instruction is one
   step of the final induction.

For the refinement, `View(s)` is the chain of activations that a sound record
shows: the stack cut into a piece per frame at the watermarks. One lemma per
helper says what it does to the view (a word more or fewer on the innermost
piece, a local changed, a chain one longer or shorter with the other pieces
as they were), and each instruction, refused or not, then is a step of
`Activations` or a stutter.

### Saved frames (`RoutinesProofs`)

- `FramesAlwaysSurvive`: `RestoredSpec => []FramesSurvive`;
- `RestoredFramesNested`: `RestoredSpec => []FramesNested`.

The watermark of each restored frame is the sum of the lengths of the stacks saved
below it, and the restored stack their concatenation; both by induction along the
chain. From that, the record made from any accepted file is sound in the
sense of the processor's proofs, whose induction then applies unchanged; and the
one made from the file of a sound record is the record itself.

### The machine (`MachineProofs`)

- `RebuiltAlways`: `[]RebuiltAlike`, for stories that leave the bits
  of the interpreter alone (`StoryWrites \cap InterpreterBits = {}`), which finding 2
  shows to be needed; `RebuiltAlwaysButForHeader` without that assumption,
  for everything except those bits;
- `LinesReadOnce`, `BoundariesReadLines`, `CancellationsSoon`, `StatusAlwaysCurrent`,
  `AlwaysTypeOK`: the other invariants of the run.

The inductive invariant adds to them: nothing of a call is left between two
calls (`CallsSeparate`); a machine at a boundary stands at an instruction that asks
for a line (`AtBoundary`); no more reads than instructions (`ReadsCounted`); and
the instructions executed since a cancellation are fewer than those since the
last look at the context (`Timely`), which is what makes `CancelledSoon`
inductive. `RebuiltAlways` needs `HeaderKept` besides: the interpreter's bits are
as `initHeader` makes them unless a `Restore` has failed half-way.

### The object tree (`ObjectTreeProofs`)

- `ObjectTreeImplementsForest`: `Spec => ImplementsForest`;
- `AlwaysWellFounded`, `DamageAlwaysReal`, `RefusalsNeverChange`, `TreeTyped`.

As long as the story has not stored into the table, there is a function `L` from
objects to lists such that the links chain up `L[p]` from the child of `p`, and an
object has the parent in whose list it stands (`Shape`). The invariant
says that such an `L` exists, and each instruction is shown to lead from one to
the list with an object taken out or put in front. Lists of distinct
objects are no longer than there are objects, so the limit on a chain is
never met and the walk for a predecessor finds it. Unless an object has
been put into one that it holds, there is also a rank that falls from
each object to its parent (`Acyclic`), which is what `WellFounded` needs. The
refinement maps each tree to the lists that can be read off it, and `L` is
those.

### Output (`OutputStreamsProofs`)

- `TextAlwaysHeld`, `ScreenAlwaysSurvives`, `OutputTyped`: the invariants;
- `ClosedTablesComplete`, `AlwaysSilentWhileRedirected`: the action properties.

`TablesHoldText` becomes inductive with the types, with histories as long as
the list of tables (`HistoriesTyped`), and with the fact that a selected table and
its text lie inside dynamic memory (`TablesInside`), which `printText` keeps by
refusing the character that does not fit.

### Line input and dictionary (`LineInputProofs`)

- `SreadKeepsToBuffers`: `LineSpec => OnlyBuffersWritten`;
- `LookupAlwaysExact`: `LineSpec => []LookupExact`;
- `TablesStayMapped`: `LineSpec => []TablesMapped`;
- `ParseAlwaysDescribes`: `LineSpec => []ParseDescribesText`;
- `SreadNotRefusedInVain`: `LineSpec => NotRefusedInVain`;
- `LineTypeCorrect`: `LineSpec => []LineTypeOK`.

The inductive invariant is `LineTypeOK` and `StoryOK`, what `LoadStory` has checked of
the story in memory. The layers: comparing entries by their numbers compares the
entries (`NumberExact`); every round of the chop keeps the entry looked for
between its ends and leaves one out, so that as many rounds as entries are enough
(`ChopExact`); the story and its tables as they lie in memory; and the stores of an `sread`.
A run of stores changes only bytes of its range, and is refused without the rest
(`After`): the line, the blocks one after the other, and the count, which is the
last store of all (`LineRead`).

For what the parse buffer says, the automaton that splits the line and the
definition of words without one (`WordsOf`) are compared at every position: the
words completed so far are the words of `WordsOf` that end before it, in order, and
a word in progress is the start of one (`SplitExact`). As both list the same places
in increasing order, they have the same number of words and the same word at
every number (`ListingCounts`, `AsManyWords`). A store that is not refused puts
its byte where it is asked to and leaves the others (`StoreExact`); so each block
is found as it was written, also after those behind it, and the line as
it was stored, which needs that the two buffers lie apart (`BlocksExact`,
`LineContents`, `LineReadBack`). The chop reads the dictionary after the line has been
stored and the property after the blocks have: in static memory it is the same
(`SameLookup`, `StaticDictionary`). The invariant for the property is
that it holds now: between two `sread`s only a store of the story touches memory,
and that ends what the property speaks of. `SreadNotRefusedInVain` is the other
half: room for every store that the line needs is room enough (`RoomSuffices`).

### Parts that share no state (`PartsProofs`)

- `MachinesIsolated`: `SharedSpec => Isolated`. The invariant is `Apart`: whoever
  refers to an array is the only one who does. A new array has a number that
  nobody refers to; that there is one is a matter of counting.
- `NumbersAlwaysSame`, `CyclesAlwaysKept`: `RandomSpec => []SameNumbers`,
  `[]CycleKept`. The invariant (`Twins`) says that generators that are `together` agree in all
  that a draw looks at (`SameDraws`), their states being congruent modulo
  `StateLimit`, which the linear congruence keeps.
- `PutsChangeOneValue`: `PropertySpec => PutChangesOneValue`, and
  `ShortListsAlwaysEnumerable`: `PropertySpec => []ShortListsEnumerable`.
  No invariant but the type of the bytes is needed, as the list may be anything; the
  work is in the walk. In a list that ends, the entries lie one behind the
  other (`EntriesApart`) and the walk goes nowhere behind its end
  (`NothingBehind`). So the data of one entry contains no byte of another
  (`DataApart`), and a list whose size bytes have not changed is walked
  through in the same way (`WalkKept`) and searched with the same result
  (`FindKept`).
- `OneFlagAlwaysChanges`: `FlagsSpec => OneFlagChanges`. Powers of two are a recursive
  function (`Bit`), since the prover has no axioms for exponentiation; what is
  known of them (`BitSteps`, `BitsMultiply`) is proved. A clear bit that is added and a set bit that
  is subtracted change no other (`BitRaised`, `BitWritten`), two attributes share a byte only in
  one entry (`FlagBytesApart`), and the flags as one number are
  the bytes before, at and after an attribute's (`WordSplit`), so that `test_attr`
  reads the bit that the compiler's numbering means (`InWord`).
- `QuotientAlwaysLeaves`: `PartsSpec => []QuotientAndRemainder`. `div` and `mod` of every
  pair of words of every width belong together (`DivisionAlwaysLeaves`).
- `DecodedAlwaysEncodesBack`, `TextsAlwaysAsSpecified`, `EncodingAlwaysInverse`:
  `PartsSpec => []EncodesBack`, `[]TextsAsSpecified`, `[]EncodingInverse`, from the
  lemmas of `CodeProofs`.
- `PartsAlwaysTyped`: `PartsSpec => []PartsTypeOK`. The types of the components
  together; the decoder's come from its invariant, the others' are inductive by themselves
  or with `Twins` and `Apart`.

### Decoder and text (`CodeProofs`)

*Instructions.* The invariant (`DecoderInv`) says for each phase which fields
have been read and that the bytes so far are the assembler's for them
(`Begun`), or that the instruction is complete and the bytes are all of
its encoding (`Complete`). Each byte read, each field settled without a byte and each
refusal keeps it (one lemma per phase: `OpcodeStep`, `TypesStep`, ...,
`TextStep`). A byte is taken apart into its bits once (`OctetBits`); with that,
the opcode byte, the types byte and the branch bytes are shown to be the assembler's
(`OpcodeRead`, `TypesRead`, `ShortBranchRead`, `LongBranchRead`).

*Texts and the grammar.* `TextsAlwaysMean`: the decoder prints what the grammar
says, for texts of every length. The decoder goes forwards with a state (the
shift, what it expects, what it holds of an escape or of an abbreviation); the
grammar is a function of the rest of the text, so it goes backwards. They meet in
`OnTheWay`: what the grammar says of the whole text is what has been printed so far,
followed by what the grammar says of the rest, read from the state that
the decoder is in (`RestIs`); a fault of the decoder is a fault of the grammar.
One Z-character keeps that (`WayKept`), for the text of an abbreviation, where a
further abbreviation is a fault, as for any other.

*Texts in memory.* A word holds three Z-characters and its mark (`ThreeIn`), and so
the words that a compiler packs are read as what it has packed (`LaidRead`), where
memory goes on long enough, and refused where it does not; from that, a text by itself,
the name of an object and an abbreviation (`AlwaysReadAsLaid`,
`AlwaysReadAsAbbreviation`).

*Words of the dictionary.* The Z-characters of every letter are read as that letter,
from a state that expects nothing to one that expects nothing (`PieceRead`), and a
beginning of them, or the padding, prints nothing (`QuietStates`). So an entry is read
as the letters of which all Z-characters fit (`LettersFit`, `EncodingAlwaysDecodes`).

## 7. What is only model-checked

`CallsReturn`: liveness under fairness is beyond the prover. Every other property
of the runs that hold is the statement of a theorem of section 6.

The five runs that expect a violation show what does not hold; nothing is to be
proved there.

## 8. Not modelled, and the plan

Not modelled at all: **Hosting**, because no code of the repository implements it
(the guides describe what a host's own database and locks should do; its calls in
any order are actions of `Machine`, its arrays are in `SharedStory`); **errors,
tracing and version**, which are wording, or read the machine and cannot change
it; the **Quetzal library**, which lies outside the repository.

Left out within modelled parts: failures to encode a snapshot; the screen contents
themselves; which Unicode character a ZSCII code is; the checksums, which refuse
nothing and decide one branch; what PCG computes; the mapping from the opcode
table to the instructions of `Routines`, which are chosen freely there; logging.

Nothing that the runs check is left to prove but `CallsReturn`. What could still be
added is to take the choice of instructions in `Routines` from `Decoder`, so that
the two are composed rather than side by side; and to share one memory between
`Routines`, `ObjectTree`, `PropertyList` and `LineInput`, where each now allows
stores of any value by the others.
