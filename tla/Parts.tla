------------------------------- MODULE Parts -------------------------------
(***************************************************************************)
(* The parts of the interpreter that share no state, in one specification: *)
(* `part' says which one a behaviour is about, and the variables of the    *)
(* others keep one value.  Words and texts are tried one after the other.  *)
(***************************************************************************)
EXTENDS Decoder, StoryText, RandomSource, SharedStory, ObjectFlags, PropertyList

CONSTANTS
    MaxZChars,      \* bound: the longest text
    MaxLaid,        \* bound: the longest text that is laid down in memory
    MaxTyped,       \* bound: the longest word
    TypedCodes,     \* the codes of a typed word
    TextImage,      \* memory with texts
    TextImageSize,  \* and its size
    TextAt,         \* where in it a text is laid down
    AbbreviationTable,  \* where its table of abbreviations is
    LaidIndices,    \* the entries of the table that a text is laid down for
    LastBytes       \* bound: the last byte of a story with a list of properties

ASSUME PartsAssumption ==
    /\ MaxZChars \in Nat /\ MaxLaid \in Nat /\ MaxTyped \in Nat
    \* What a player types can be printed, a space has no case, and an entry of
    \* the dictionary is of whole words.
    /\ TypedCodes \subseteq Code /\ Space \in OutputCodes
    /\ \A c \in TypedCodes : LowerCase(c) \in OutputCodes
    /\ LowerCase(Space) = Space
    /\ DictionaryZChars % 3 = 0
    \* The text fits, behind the length of a name, and where a word can name it,
    \* and the entries of the table are before it.
    /\ TextImage \in [0 .. TextImageSize - 1 -> 0 .. TextByteLimit - 1]
    /\ TextImageSize \in Nat /\ AbbreviationTable \in Nat \ {0}
    /\ TextAt \in Nat \ {0} /\ TextAt % AddressScale = 0
    /\ TextAt \div AddressScale < TextByteLimit * TextByteLimit
    /\ TextAt + 2 * ((MaxLaid + 2) \div 3) <= TextImageSize /\ TextAt + 2 <= TextImageSize
    /\ LaidIndices \subseteq Nat
    /\ \A index \in LaidIndices : AbbreviationTable + 2 * index + 2 <= TextAt
    \* A byte can be zero.
    /\ 0 \in Values

VARIABLES
    part,           \* the component that this behaviour is about
    pair,           \* two words
    zchars,         \* a text
    typed           \* a typed word

Text == <<zchars, typed>>

partsVars == <<part, pair, Text, decoderVars, randomVars, sharedVars, flagVars, propertyVars>>

-----------------------------------------------------------------------------
NoGenerators ==
    /\ twins = << Generator("pcg", NoSeed, StateLimit), Generator("pcg", NoSeed, StateLimit) >>
    /\ together = FALSE /\ numbers = <<0, 0>>

NoArrays ==
    /\ arrays = [i \in {1} |-> [a \in 0 .. ImageSize - 1 |-> 0]]
    /\ file = 1 /\ story = None /\ save = None /\ actor = "host"
    /\ dynamic = [m \in Machines |-> None]

NoFlags ==
    /\ entries = [p \in Offset |-> 0]
    /\ flagged = [object |-> 0, flag |-> 0, on |-> FALSE, refused |-> FALSE]

\* A list that is malformed in its first byte, which no property says much of.
NoBytes == bytes = [p \in Position |-> MaxProperty + 1] /\ outcome = [put |-> 0, value |-> 0]

PartsInit ==
    /\ part \in {"words", "text", "typed", "decoder", "random", "shared", "flags", "properties"}
    /\ pair = <<0, 0>> /\ zchars = <<>> /\ typed = <<>>
    /\ IF part = "decoder" THEN DecoderInit ELSE phase = "opcode" /\ code = <<>> /\ inst = NoInstruction
    /\ IF part = "random" THEN RandomInit /\ twins[2].seed \in {twins[1].seed, NoSeed} ELSE NoGenerators
    /\ IF part = "shared" THEN SharedInit ELSE NoArrays
    /\ IF part = "flags" THEN FlagsInit ELSE NoFlags
    /\ IF part = "properties" THEN PropertyInit /\ bytes[StorySize - 1] \in LastBytes ELSE NoBytes

Pairs ==
    /\ part = "words" /\ pair' \in (0 .. WordLimit - 1) \X (0 .. WordLimit - 1)
    /\ UNCHANGED <<part, Text, decoderVars, randomVars, sharedVars, flagVars, propertyVars>>

TextGrows ==
    /\ part = "text"
    /\ zchars' \in IF Len(zchars) < MaxZChars THEN {Append(zchars, z) : z \in ZChar} ELSE {<<>>}
    /\ UNCHANGED <<part, pair, typed, decoderVars, randomVars, sharedVars, flagVars, propertyVars>>

WordGrows ==
    /\ part = "typed"
    /\ typed' \in IF Len(typed) < MaxTyped THEN {Append(typed, c) : c \in TypedCodes} ELSE {<<>>}
    /\ UNCHANGED <<part, pair, zchars, decoderVars, randomVars, sharedVars, flagVars, propertyVars>>

Decodes ==
    /\ part = "decoder" /\ DecoderNext
    /\ UNCHANGED <<part, pair, Text, randomVars, sharedVars, flagVars, propertyVars>>

Draws ==
    /\ part = "random" /\ RandomNext
    /\ UNCHANGED <<part, pair, Text, decoderVars, sharedVars, flagVars, propertyVars>>

Shares ==
    /\ part = "shared" /\ SharedNext
    /\ UNCHANGED <<part, pair, Text, decoderVars, randomVars, flagVars, propertyVars>>

Flags ==
    /\ part = "flags" /\ FlagsNext
    /\ UNCHANGED <<part, pair, Text, decoderVars, randomVars, sharedVars, propertyVars>>

Properties ==
    /\ part = "properties" /\ PropertyNext
    /\ UNCHANGED <<part, pair, Text, decoderVars, randomVars, sharedVars, flagVars>>

PartsNext ==
    Pairs \/ TextGrows \/ WordGrows \/ Decodes \/ Draws \/ Shares \/ Flags \/ Properties

PartsSpec == PartsInit /\ [][PartsNext]_partsVars

-----------------------------------------------------------------------------
\* The components' type invariants.
PartsTypeOK == DecoderTypeOK /\ RandomTypeOK /\ SharedTypeOK /\ FlagsTypeOK /\ PropertyTypeOK

\* The properties of the algorithms, of the input that is being tried: div and
\* mod belong together.
QuotientAndRemainder == DivisionLeaves(pair[1], pair[2])

\* What is printed is what the grammar of S 3 says of the Z-characters, and those
\* are what a compiler has laid down in memory, as a text by itself, as the name
\* of an object, or as one of the abbreviations.
TextsAsSpecified ==
    part = "text" =>
       /\ TextAsSpecified(zchars)
       /\ Len(zchars) <= MaxLaid =>
             /\ ReadAsLaid(TextImage, zchars, TextAt)
             /\ \A index \in LaidIndices :
                   ReadAsAbbreviation(TextImage, zchars, TextAt, AbbreviationTable, index)

\* An entry of the dictionary decodes to the word it was made of, and its bytes
\* hold its Z-characters.
EncodingInverse ==
    part = "typed" =>
       /\ EncodingDecodes(typed)
       /\ LET entry == Packed(EncodeDictionaryWord(typed))
          IN  ReadZChars([a \in 0 .. Len(entry) - 1 |-> entry[a + 1]], Len(entry), 0).zchars
              = EncodeDictionaryWord(typed)

=============================================================================
