------------------------------ MODULE Decoder ------------------------------
(***************************************************************************)
(* The decoding of one instruction (decode.go, opcode.go), byte by byte:   *)
(* what has been read decides what the next field is.  The bytes are       *)
(* whatever a story has at the address, and the story may end before any   *)
(* of them.  Numbers are those of the code: bytes of eight bits.           *)
(***************************************************************************)
EXTENDS Arith16, Sequences, SequencesExt

CONSTANTS
    ByteChoices,    \* the bytes a story has, by the field they are read for
    MaxTextWords    \* bound for model checking: the longest text of a print

VARIABLES
    phase,          \* the field that is read next
    code,           \* the bytes of the instruction so far
    inst            \* the instruction so far

decoderVars == <<phase, code, inst>>

DecoderPhases == {"opcode", "types", "operands", "store", "branch", "branchLow", "text", "done", "fault"}

ASSUME DecoderAssumption ==
    \A field \in {"opcode", "types", "operands", "store", "branch", "branchLow", "text"} :
       ByteChoices[field] \subseteq 0 .. 255

Large == 0
Small == 1
Variable == 2
Omitted == 3

\* The numbers, by operand count, that Version 3 defines, and of those the ones
\* that store a result, branch, or carry a text.
OpcodeTable ==
    [ count2OP |-> [ defined |-> 1 .. 24, store |-> {8, 9} \cup 15 .. 24, branch |-> 1 .. 7 \cup {10}, text |-> {} ],
      count1OP |-> [ defined |-> 0 .. 15 \ {8}, store |-> {1, 2, 3, 4, 14, 15}, branch |-> {0, 1, 2}, text |-> {} ],
      count0OP |-> [ defined |-> 0 .. 13, store |-> {}, branch |-> {5, 6, 13}, text |-> {2, 3} ],
      countVAR |-> [ defined |-> 0 .. 11 \cup {19, 20, 21}, store |-> {0, 7}, branch |-> {}, text |-> {} ] ]

Has(i, feature) == i.number \in OpcodeTable[i.count][feature]

NoBranch == [onTrue |-> FALSE, long |-> FALSE, offset |-> 0]

\* An instruction of which nothing but the opcode is known; `types' are those of
\* its operands, unless a byte of their own follows.
Opcode(form, count, number, types) ==
    [ form |-> form, count |-> count, number |-> number, types |-> types,
      ops |-> <<>>, store |-> -1, branch |-> NoBranch, text |-> <<>> ]

NoInstruction == Opcode("none", "count0OP", 0, <<>>)

-----------------------------------------------------------------------------
\* S 4.3: the top bits of the first byte.
FromOpcodeByte(b) ==
    CASE b >= 192 -> Opcode("variable", IF b % 64 >= 32 THEN "countVAR" ELSE "count2OP", b % 32, <<>>)
      [] b \in 128 .. 191 ->
           LET type == (b \div 16) % 4
           IN  IF type = Omitted
               THEN Opcode("short", "count0OP", b % 16, <<>>)
               ELSE Opcode("short", "count1OP", b % 16, <<type>>)
      [] b < 128 ->
           Opcode("long", "count2OP", b % 32,
                  << IF b % 128 >= 64 THEN Variable ELSE Small, IF b % 64 >= 32 THEN Variable ELSE Small >>)

TypeField(b, i) == (b \div <<64, 16, 4, 1>>[i]) % 4

\* The operands end with the first omitted one.
TypesGiven(b) ==
    LET omitted == {i \in 1 .. 4 : TypeField(b, i) = Omitted}
        count == IF omitted = {} THEN 4 ELSE Min(omitted) - 1
    IN  [i \in 1 .. count |-> TypeField(b, i)]

\* ... and one given after that is refused.
TypesLegal(b) ==
    \A i, j \in 1 .. 4 : i < j /\ TypeField(b, i) = Omitted => TypeField(b, j) = Omitted

\* The field that follows, once the operands up to here have been read.
AfterOperands(i) ==
    CASE Len(i.ops) < Len(i.types) -> "operands"
      [] Len(i.ops) = Len(i.types) /\ Has(i, "store") /\ i.store = -1 -> "store"
      [] OTHER -> IF Has(i, "branch") THEN "branch" ELSE IF Has(i, "text") THEN "text" ELSE "done"

LongOffset(high, low) == SignExtend((high % 64) * 256 + low, 16384)

-----------------------------------------------------------------------------
\* decodeInstruction, or decodeBranchAt for the program counter of a state that
\* another interpreter saved.
DecoderInit ==
    /\ phase \in {"opcode", "branch"}
    /\ code = <<>>
    /\ inst = NoInstruction

Take(field, b) ==
    /\ phase = field
    /\ b \in ByteChoices[field]
    /\ code' = Append(code, b)

DecodeFault ==
    /\ phase' = "fault"
    /\ code' = <<>>
    /\ inst' = NoInstruction

\* The story ends before the byte, or before the second byte of a word.
Truncated == phase \notin {"done", "fault"} /\ DecodeFault

\* An opcode that Version 3 does not define is refused before its operands.
ReadOpcode(b) ==
    LET i == FromOpcodeByte(b)
    IN  IF Has(i, "defined")
        THEN /\ Take("opcode", b)
             /\ inst' = i
             /\ phase' = IF i.form = "variable" THEN "types" ELSE AfterOperands(i)
        ELSE phase = "opcode" /\ b \in ByteChoices["opcode"] /\ DecodeFault

ReadTypes(b) ==
    IF TypesLegal(b)
    THEN /\ Take("types", b)
         /\ inst' = [inst EXCEPT !.types = TypesGiven(b)]
         /\ phase' = AfterOperands(inst')
    ELSE phase = "types" /\ b \in ByteChoices["types"] /\ DecodeFault

ReadOperand(b, low) ==
    /\ Len(inst.ops) < Len(inst.types)
    /\ LET type == inst.types[Len(inst.ops) + 1]
           value == IF type = Large THEN b * 256 + low ELSE b
       IN  /\ phase = "operands"
           /\ {b, low} \subseteq ByteChoices["operands"]
           /\ type # Large => low = b
           /\ code' = code \o (IF type = Large THEN <<b, low>> ELSE <<b>>)
           /\ inst' = [inst EXCEPT !.ops = Append(@, value)]
    /\ phase' = AfterOperands(inst')

ReadStore(b) ==
    /\ Take("store", b)
    /\ inst' = [inst EXCEPT !.store = b]
    /\ phase' = AfterOperands(inst')

\* A branch of one byte has an offset of six bits without a sign.
ReadBranch(b) ==
    LET long == b % 128 < 64
    IN  /\ Take("branch", b)
        /\ inst' = [inst EXCEPT !.branch = [onTrue |-> b >= 128, long |-> long, offset |-> b % 64]]
        /\ phase' = IF long THEN "branchLow" ELSE "done"

ReadBranchLow(b) ==
    /\ Take("branchLow", b)
    /\ inst' = [inst EXCEPT !.branch.offset = LongOffset(@, b)]
    /\ phase' = "done"

\* The words of a text up to the one with the top bit set; the text itself may
\* turn out to be malformed.
ReadText(high, low) ==
    /\ phase = "text"
    /\ {high, low} \subseteq ByteChoices["text"]
    /\ Len(inst.text) < MaxTextWords
    /\ code' = code \o <<high, low>>
    /\ inst' = [inst EXCEPT !.text = Append(@, high * 256 + low)]
    /\ phase' = IF high >= 128 THEN "done" ELSE "text"

MalformedText == phase = "text" /\ DecodeFault

\* The next instruction, wherever the program counter is by then.
DecodeNext ==
    /\ phase \in {"done", "fault"}
    /\ phase' = "opcode"
    /\ code' = <<>>
    /\ inst' = NoInstruction

DecoderNext ==
    \/ Truncated \/ MalformedText \/ DecodeNext
    \/ \E b \in 0 .. 255 :
          \/ ReadOpcode(b) \/ ReadTypes(b) \/ ReadStore(b) \/ ReadBranch(b) \/ ReadBranchLow(b)
    \/ \E high, low \in ByteChoices["operands"] \cup ByteChoices["text"] :
          ReadOperand(high, low) \/ ReadText(high, low)

-----------------------------------------------------------------------------
DecoderTypeOK ==
    /\ phase \in DecoderPhases
    /\ code \in Seq(0 .. 255)
    /\ Len(inst.ops) <= Len(inst.types) /\ Len(inst.types) <= 4

(***************************************************************************)
(* The reference: what an assembler makes of an instruction.               *)
(***************************************************************************)
TypesByte(types) ==
    LET type(i) == IF i <= Len(types) THEN types[i] ELSE Omitted
    IN  64 * type(1) + 16 * type(2) + 4 * type(3) + type(4)

OpcodeBytes(i) ==
    CASE i.form = "none" -> <<>>
      [] i.form = "long" ->
           << (IF i.types[1] = Variable THEN 64 ELSE 0) + (IF i.types[2] = Variable THEN 32 ELSE 0) + i.number >>
      [] i.form = "short" ->
           << 128 + 16 * (IF i.count = "count0OP" THEN Omitted ELSE i.types[1]) + i.number >>
      [] i.form = "variable" ->
           << 192 + (IF i.count = "countVAR" THEN 32 ELSE 0) + i.number, TypesByte(i.types) >>

WordBytes(w) == <<w \div 256, w % 256>>

OperandBytes(i) ==
    FlattenSeq([k \in 1 .. Len(i.ops) |-> IF i.types[k] = Large THEN WordBytes(i.ops[k]) ELSE <<i.ops[k]>>])

BranchBytes(branch) ==
    LET polarity == IF branch.onTrue THEN 128 ELSE 0
        low == branch.offset % 16384
    IN  IF branch.long
        THEN <<polarity + low \div 256, low % 256>>
        ELSE <<polarity + 64 + branch.offset>>

TextBytes(words) == FlattenSeq([k \in 1 .. Len(words) |-> WordBytes(words[k])])

Encoding(i) ==
    OpcodeBytes(i) \o OperandBytes(i)
    \o (IF i.form # "none" /\ Has(i, "store") THEN <<i.store>> ELSE <<>>)
    \o (IF i.form = "none" \/ Has(i, "branch") THEN BranchBytes(i.branch) ELSE <<>>)
    \o TextBytes(i.text)

\* A number of fourteen bits with a sign.
LongOffsets == -8192 .. 8191

\* No byte is misread, skipped or read twice: an assembler makes of a decoded
\* instruction the bytes it was decoded from, so that the next one begins after
\* them.  A branch offset is the one number that is signed, in its long form
\* only, and means a return only where it is 0 or 1 in that reading.
EncodesBack ==
    phase = "done" =>
       /\ Encoding(inst) = code
       /\ inst.branch.offset \in (IF inst.branch.long THEN LongOffsets ELSE 0 .. 63)
       /\ inst.text # <<>> => \A i \in 1 .. Len(inst.text) : (inst.text[i] >= 32768) = (i = Len(inst.text))

=============================================================================
