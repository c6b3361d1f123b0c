--------------------------- MODULE OutputStreams ---------------------------
(***************************************************************************)
(* The output streams and the logical screen (output.go, the output_stream *)
(* instruction of opcode_var.go, and the screen chunk of state.go).  While *)
(* tables are selected by stream 3, everything printed goes into the one   *)
(* selected last, byte by byte in dynamic memory; otherwise it is captured *)
(* for the window that is selected.  Of captured text the model keeps only *)
(* how much there is.                                                      *)
(***************************************************************************)
EXTENDS Integers, Sequences, FiniteSets

CONSTANTS
    ByteLimit,      \* 2^8 in the code
    DynamicSize,    \* bytes of dynamic memory
    Character,      \* the bytes that stand for a printable character
    StreamDepth,    \* 16: how many tables may be selected at a time
    Height,         \* heights a story gives the upper window
    MaxCaptured     \* a bound on the captured text that is told apart

ASSUME OutputAssumption ==
    /\ ByteLimit \in Nat \ {0, 1} /\ Character \subseteq 1 .. ByteLimit - 1
    \* The base of static memory is a word of the header, and a height an operand.
    /\ DynamicSize \in 2 .. ByteLimit * ByteLimit
    /\ Height \subseteq 0 .. ByteLimit * ByteLimit - 1 /\ 0 \in Height
    /\ StreamDepth \in Nat \ {0}
    /\ MaxCaptured \in Nat

VARIABLES
    bytes,          \* dynamic memory
    out,            \* the output state of the machine
    sent,           \* what has been printed to each selected table
    undisturbed,    \* is the text of a table still as it was written
    outcome         \* how the last instruction ended

vars == <<bytes, out, sent, undisturbed, outcome>>

Byte == 0 .. ByteLimit - 1

Place == 0 .. DynamicSize - 1

CountLimit == ByteLimit * ByteLimit - 1

Table == [table : Place, count : 0 .. CountLimit]

Window == {"lower", "upper"}

Output ==
    [ screen  : 0 .. MaxCaptured,
      upper   : 0 .. MaxCaptured,
      window  : Window,
      height  : Height,
      stream1 : BOOLEAN,
      tables  : Seq(Table) ]

\* The count word lies in dynamic memory; the text follows it.
HeaderFits(address) == address + 1 < DynamicSize

TextOf(t) == t.table + 2 .. t.table + 1 + t.count

WordAt(address) == bytes'[address] * ByteLimit + bytes'[address + 1]

Innermost == Len(out.tables)

\* A mutant: an open table only counts while the screen stream is off.
RedirectedFromScreen == Innermost > 0 /\ ~out.stream1

Redirected == Innermost > 0

\* An address of one table may be an address of another.
Disturb(written, writer) ==
    undisturbed' = [i \in 1 .. Len(out.tables') |->
        undisturbed[i] /\ (i = writer \/ written \cap TextOf(out.tables[i]) = {})]

-----------------------------------------------------------------------------
InitialOutput ==
    [ screen |-> 0, upper |-> 0, window |-> "lower", height |-> 0,
      stream1 |-> TRUE, tables |-> <<>> ]

\* Dynamic memory as the story file has it.
Blank == [a \in Place |-> 0]

Init ==
    /\ bytes = Blank
    /\ out = InitialOutput
    /\ sent = <<>> /\ undisturbed = <<>>
    /\ outcome = "done"

\* The text of an earlier call is discarded, and nothing else.
BeginInvocation ==
    /\ out' = [out EXCEPT !.screen = 0, !.upper = 0]
    /\ outcome' = "done"
    /\ UNCHANGED <<bytes, sent, undisturbed>>

\* The output state is that of a new game, and memory is what is given.
Reset(memory) ==
    /\ out' = InitialOutput
    /\ sent' = <<>> /\ undisturbed' = <<>>
    /\ bytes' = memory
    /\ outcome' = "reset"

\* restart also loads dynamic memory from the story again.
Restart == Reset(Blank)

\* A save of this memory without a screen chunk, or with one that is unreadable.
RestoreWithoutScreen == Reset(bytes)

\* How many more characters go into the table before it runs off the end of
\* dynamic memory, or its count is at the limit of a word.
Room(t) ==
    LET free == DynamicSize - (t.table + 2 + t.count)
    IN  IF free <= CountLimit - t.count THEN free ELSE CountLimit - t.count

Least(a, b) == IF a <= b THEN a ELSE b

\* A mutant: the count is advanced for the character that did not fit as well.
CountedAfter(t, n, wanted) == [t EXCEPT !.count = @ + Least(n + 1, wanted)]

Counted(t, n, wanted) == [t EXCEPT !.count = @ + n]

PrintToTable(text) ==
    LET t == out.tables[Innermost]
        n == Least(Room(t), Len(text))
        start == t.table + 2 + t.count
    IN  /\ bytes' = [a \in Place |->
                        IF a \in start .. start + n - 1 THEN text[a - start + 1] ELSE bytes[a]]
        /\ out' = [out EXCEPT !.tables[Innermost] = Counted(t, n, Len(text))]
        /\ sent' = [sent EXCEPT ![Innermost] = @ \o SubSeq(text, 1, n)]
        /\ Disturb(start .. start + n - 1, Innermost)
        /\ outcome' = IF n = Len(text) THEN "done" ELSE "fault"

PrintToScreen(length) ==
    /\ out' = CASE ~out.stream1 -> out
                [] out.stream1 /\ out.window = "upper" ->
                     [out EXCEPT !.upper = Least(@ + length, MaxCaptured)]
                [] OTHER -> [out EXCEPT !.screen = Least(@ + length, MaxCaptured)]
    /\ outcome' = "done"
    /\ UNCHANGED <<bytes, sent, undisturbed>>

\* print and its kin; print_char and new_line print one character.
PrintText ==
    \E text \in Character \X Character \cup {<<c>> : c \in Character} :
       \/ Redirected /\ PrintToTable(text)
       \/ ~Redirected /\ PrintToScreen(Len(text))

SplitWindow ==
    /\ \E lines \in Height : out' = [out EXCEPT !.height = lines, !.upper = 0]
    /\ outcome' = "done"
    /\ UNCHANGED <<bytes, sent, undisturbed>>

\* A window that Version 3 does not have is refused.
SetWindow ==
    /\ \/ /\ \E window \in Window : out' = [out EXCEPT !.window = window]
          /\ outcome' = "done"
       \/ out' = out /\ outcome' = "fault"
    /\ UNCHANGED <<bytes, sent, undisturbed>>

\* output_stream 1 and output_stream -1.
SwitchScreen ==
    /\ \E on \in BOOLEAN : out' = [out EXCEPT !.stream1 = on]
    /\ outcome' = "done"
    /\ UNCHANGED <<bytes, sent, undisturbed>>

\* A mutant: one selection more than the limit.
NestingLeftInclusive == Innermost <= StreamDepth

NestingLeft == Innermost < StreamDepth

\* output_stream 3.
Select ==
    \E address \in 0 .. DynamicSize :
       \/ /\ NestingLeft /\ HeaderFits(address)
          /\ out' = [out EXCEPT !.tables = Append(@, [table |-> address, count |-> 0])]
          /\ sent' = Append(sent, <<>>)
          /\ undisturbed' = Append(undisturbed, TRUE)
          /\ outcome' = "done"
          /\ UNCHANGED bytes
       \/ /\ ~NestingLeft \/ ~HeaderFits(address)
          /\ outcome' = "fault"
          /\ UNCHANGED <<bytes, out, sent, undisturbed>>

\* A mutant: the count word counts itself.
LowByteOfTable(n) == (n + 2) % ByteLimit

LowByte(n) == n % ByteLimit

\* Of a word; what lies above its sixteen bits is cut off.
HighByte(n) == (n \div ByteLimit) % ByteLimit

\* output_stream -3: the count goes into the table's first word.
Deselect ==
    \/ /\ Innermost = 0
       /\ outcome' = "done"
       /\ UNCHANGED <<bytes, out, sent, undisturbed>>
    \/ /\ Innermost > 0
       /\ LET t == out.tables[Innermost]
          IN  /\ out' = [out EXCEPT !.tables = SubSeq(@, 1, Innermost - 1)]
              /\ bytes' = [bytes EXCEPT ![t.table] = HighByte(t.count),
                                        ![t.table + 1] = LowByte(t.count)]
              /\ sent' = SubSeq(sent, 1, Innermost - 1)
              /\ Disturb({t.table, t.table + 1}, Innermost)
       /\ outcome' = "closed"

\* The story clears a byte of dynamic memory, which may be one of a table.
StoreByte ==
    \E a \in Place :
       /\ bytes' = [bytes EXCEPT ![a] = 0]
       /\ UNCHANGED <<out, sent>>
       /\ Disturb({a}, 0)
       /\ outcome' = "done"

-----------------------------------------------------------------------------
\* The screen chunk of a saved state: what execution goes on from, without the
\* captured text.

\* A mutant: a field is written as if it were a byte.
BytesOfByte(n) == <<0, LowByte(n)>>

\* A field of two bytes, the more significant first.
BytesOf(n) == <<HighByte(n), LowByte(n)>>

FieldOf(two) == two[1] * ByteLimit + two[2]

Encoded(o) ==
    [ window |-> o.window, height |-> BytesOf(o.height), stream1 |-> o.stream1,
      tables |-> [i \in 1 .. Len(o.tables) |->
                     [ table |-> BytesOf(o.tables[i].table),
                       count |-> BytesOf(o.tables[i].count) ]] ]

\* The chunk may have been written by anybody: all of it is taken or none.
Believable(chunk) ==
    /\ chunk.window \in Window
    /\ Len(chunk.tables) <= StreamDepth
    /\ \A i \in 1 .. Len(chunk.tables) : HeaderFits(FieldOf(chunk.tables[i].table))

Decoded(chunk) ==
    IF Believable(chunk)
    THEN [ screen |-> 0, upper |-> 0, window |-> chunk.window,
           height |-> FieldOf(chunk.height), stream1 |-> chunk.stream1,
           tables |-> [i \in 1 .. Len(chunk.tables) |->
                          [ table |-> FieldOf(chunk.tables[i].table),
                            count |-> FieldOf(chunk.tables[i].count) ]] ]
    ELSE InitialOutput

\* The machine is rebuilt from the state it returned.
Resume ==
    /\ out' = Decoded(Encoded(out))
    /\ sent' = SubSeq(sent, 1, Len(out'.tables))
    /\ undisturbed' = SubSeq(undisturbed, 1, Len(out'.tables))
    /\ outcome' = "done"
    /\ UNCHANGED bytes

-----------------------------------------------------------------------------
Next ==
    \/ BeginInvocation \/ Restart \/ RestoreWithoutScreen \/ Resume
    \/ PrintText \/ SplitWindow \/ SetWindow \/ SwitchScreen
    \/ Select \/ Deselect \/ StoreByte

Spec == Init /\ [][Next]_vars

-----------------------------------------------------------------------------
TypeOK ==
    /\ bytes \in [Place -> Byte]
    /\ out \in Output
    /\ Len(sent) = Innermost /\ Len(undisturbed) = Innermost
    /\ Innermost <= StreamDepth
    /\ outcome \in {"done", "closed", "reset", "fault"}

\* However selections nest and wherever the machine is rebuilt in between, each
\* selected table holds exactly what was printed to it, also when a text ran
\* off the end of memory in the middle, as long as nothing else was stored over
\* it; and its length is the count that deselecting it will write.
TablesHoldText ==
    \A i \in 1 .. Innermost :
       LET t == out.tables[i]
       IN  /\ t.count = Len(sent[i])
           /\ undisturbed[i] => \A k \in 1 .. t.count : bytes[t.table + 1 + k] = sent[i][k]

\* Deselecting leaves the story the length of the text and, unless something
\* else was stored over it, the text.
ClosedTableComplete ==
    [][outcome' = "closed" =>
         LET t == out.tables[Innermost]
         IN  /\ WordAt(t.table) = Len(sent[Innermost])
             /\ undisturbed[Innermost] =>
                   \A k \in 1 .. t.count : bytes'[t.table + 1 + k] = sent[Innermost][k]]_vars

\* "While stream 3 is selected, no text is sent to any other stream"
\* (printText), in no order of selections, window changes and rebuilt machines.
SilentWhileRedirected ==
    [][Innermost > 0 =>
          out'.screen \in {0, out.screen} /\ out'.upper \in {0, out.upper}]_vars

\* Restore's checks of the screen chunk never drop a screen this engine saved,
\* and its two-byte fields hold every address, count and height.
ScreenSurvives ==
    Decoded(Encoded(out)) = [out EXCEPT !.screen = 0, !.upper = 0]

=============================================================================
