----------------------------- MODULE StoryFile -----------------------------
(***************************************************************************)
(* What LoadStory accepts (story.go).  A file is its header, of which the  *)
(* fields with a condition are kept, and its bytes; the sizes of the       *)
(* tables are constants, scaled down for model checking.  The checksums,   *)
(* which are recorded and refuse nothing, are left out.                    *)
(***************************************************************************)
EXTENDS Arith16

CONSTANTS
    ByteLimit,          \* 2^8
    HeaderSize,         \* 64
    DefaultsSize,       \* 62: the property defaults that begin the object table
    GlobalsSize,        \* 480: 240 words
    AbbreviationsSize,  \* 192: 96 words
    EntryLengthMin,     \* 4: the shortest entry of a dictionary
    MaxStoryLength,     \* 2^17
    LengthScale,        \* 2: what the length in the header is divided by
    Version             \* 3: the one that is executed

ASSUME StoryAssumption ==
    /\ ByteLimit \in Nat \ {0, 1} /\ WordLimit = ByteLimit * ByteLimit
    /\ {HeaderSize, DefaultsSize, GlobalsSize, AbbreviationsSize} \subseteq Nat \ {0}
    /\ {EntryLengthMin, MaxStoryLength, LengthScale} \subseteq Nat \ {0}

Byte == 0 .. ByteLimit - 1

\* A word, its most significant byte first.
WordAt(view, address) == view[address] * ByteLimit + view[address + 1]

\* Is [address, address + width) inside the first `limit' bytes?
Lies(address, width, limit) == address >= 0 /\ address + width <= limit

-----------------------------------------------------------------------------
\* The length the header gives, the trailing bytes being padding.
ImageLength(file) ==
    IF file.declared = 0 THEN file.length ELSE file.declared * LengthScale

LengthFits(file) ==
    /\ file.length \in HeaderSize .. MaxStoryLength
    /\ ImageLength(file) <= file.length

RegionsFit(file) ==
    /\ file.staticBase \in HeaderSize .. ImageLength(file)
    /\ file.highBase \in file.staticBase .. ImageLength(file)
    /\ file.initialPC \in HeaderSize .. ImageLength(file) - 1

ObjectTableFits(file) ==
    /\ file.objectTable >= HeaderSize
    /\ Lies(file.objectTable, DefaultsSize, file.staticBase)

\* A mutant: the table of globals need only lie in the story.
GlobalsFitStory(file) ==
    /\ file.globals >= HeaderSize
    /\ Lies(file.globals, GlobalsSize, ImageLength(file))

GlobalsFit(file) ==
    /\ file.globals >= HeaderSize
    /\ Lies(file.globals, GlobalsSize, file.staticBase)

\* A story without abbreviations leaves the field zero.
AbbreviationsFit(file) ==
    \/ file.abbreviations = 0
    \/ /\ file.abbreviations >= HeaderSize
       /\ Lies(file.abbreviations, AbbreviationsSize, ImageLength(file))

(***************************************************************************)
(* A dictionary: the number of its word separators and they, the length of *)
(* an entry, the number of entries as a signed word, and the entries.      *)
(***************************************************************************)
DictionaryHeader(view, address) ==
    LET after == address + 1 + view[address]
    IN  [ separators  |-> {view[a] : a \in address + 1 .. after - 1},
          entryLength |-> view[after],
          count       |-> Signed(WordAt(view, after + 1)),
          entries     |-> after + 3 ]

\* Does a whole dictionary of that form begin there?
DictionaryFits(view, size, address) ==
    /\ address < size
    /\ Lies(address, 1 + view[address] + 3, size)
    /\ LET header == DictionaryHeader(view, address)
       IN  /\ header.entryLength >= EntryLengthMin
           /\ header.count >= 0
           /\ Lies(header.entries, header.count * header.entryLength, size)

Acceptable(file) ==
    /\ LengthFits(file)
    /\ file.version = Version
    /\ RegionsFit(file)
    /\ ObjectTableFits(file)
    /\ GlobalsFit(file)
    /\ AbbreviationsFit(file)
    /\ file.dictionary >= HeaderSize
    /\ DictionaryFits(file.bytes, ImageLength(file), file.dictionary)

\* The Story that LoadStory makes of an acceptable file.
Loaded(file) ==
    [ length        |-> ImageLength(file),
      staticBase    |-> file.staticBase,
      objectTable   |-> file.objectTable,
      globals       |-> file.globals,
      abbreviations |-> file.abbreviations,
      dictionary    |-> file.dictionary,
      image         |-> [a \in 0 .. ImageLength(file) - 1 |-> file.bytes[a]] ]

=============================================================================
