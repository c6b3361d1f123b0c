----------------------------- MODULE StoryText -----------------------------
(***************************************************************************)
(* Texts where a story keeps them (text.go, object.go, memory.go): in      *)
(* words of three Z-characters, most significant byte first, of which the  *)
(* top bit marks the last one.  `view' is memory as a Machine sees it and  *)
(* `size' how much of it may be read.  A text has no length of its own, so *)
(* what bounds the reading is the mark, the end of memory or, for the      *)
(* short name of an object, the byte before the name.                      *)
(***************************************************************************)
EXTENDS ZText, FiniteSets

CONSTANTS
    TextByteLimit,      \* 2^8
    AddressScale        \* 2: what a packed address, or one in the table of
                        \*   abbreviations, is multiplied by

ASSUME StoryTextAssumption ==
    /\ TextByteLimit \in Nat /\ TextByteLimit * TextByteLimit = 2 * ZLimit * ZLimit * ZLimit
    /\ AddressScale \in Nat \ {0}

EndBit == ZLimit * ZLimit * ZLimit

TextWord(view, address) == view[address] * TextByteLimit + view[address + 1]

\* unpackAddress and expandWordAddress
UnpackAddress(packed) == packed * AddressScale

\* appendZChars: the i-th of the three Z-characters in a word.
ZCharIn(word, i) == (word \div <<ZLimit * ZLimit, ZLimit, 1>>[i]) % ZLimit

\* The words, counted from the address on, that may be read.
ReadableWords(size, address) == {k \in 0 .. size : address + 2 * k + 2 <= size}

\* readZChars, and unpackZChars over the bytes of a short name.
ReadZChars(view, size, address) ==
    LET marked == {k \in ReadableWords(size, address) : TextWord(view, address + 2 * k) >= EndBit}
    IN  IF marked = {}
        THEN [fault |-> TRUE, zchars |-> <<>>, next |-> address]
        ELSE [ fault  |-> FALSE,
               zchars |-> [i \in 1 .. 3 * (Min(marked) + 1) |->
                             ZCharIn(TextWord(view, address + 2 * ((i - 1) \div 3)), ((i - 1) % 3) + 1)],
               next   |-> address + 2 * (Min(marked) + 1) ]

\* An entry of the table of abbreviations, of which address 0 means that there
\* is none.
AbbreviationEntry(view, size, table, index) ==
    IF table = 0 \/ table + 2 * index + 2 > size
    THEN ReadZChars(view, 0, 0)
    ELSE ReadZChars(view, size, UnpackAddress(TextWord(view, table + 2 * index)))

TextRead(read) == IF read.fault THEN NoText ELSE DecodeZText(read.zchars)

\* decodeStringAt
DecodeStringAt(view, size, address) == TextRead(ReadZChars(view, size, address))

\* objectShortName, from the table of the object's properties: the number of
\* words comes first, and the reading goes no further than they.
ObjectShortName(view, size, table) ==
    LET text == table + 1
        end == text + 2 * view[table]
    IN  CASE view[table] = 0 -> Of(<<>>)
          [] view[table] # 0 /\ end > size -> NoText
          [] OTHER -> TextRead(ReadZChars(view, end, text))

\* The bytes that encodeDictionaryWord makes of the Z-characters of an entry,
\* and a compiler of those of any text.
Packed(zchars) ==
    LET last == Len(zchars) \div 3
        word(k) == (zchars[3 * k - 2] * ZLimit + zchars[3 * k - 1]) * ZLimit + zchars[3 * k]
                   + (IF k = last THEN EndBit ELSE 0)
    IN  [i \in 1 .. 2 * last |->
            IF i % 2 = 1 THEN word((i + 1) \div 2) \div TextByteLimit ELSE word(i \div 2) % TextByteLimit]

-----------------------------------------------------------------------------
\* S 3.7: a text is padded with shifts to whole words, at least one.
Padded(zchars) ==
    LET length == IF zchars = <<>> THEN 3 ELSE 3 * ((Len(zchars) + 2) \div 3)
    IN  [i \in 1 .. length |-> IF i <= Len(zchars) THEN zchars[i] ELSE ShiftA2]

\* Memory with bytes laid over it.
Overlaid(view, address, bytes) ==
    [a \in DOMAIN view |->
        IF a \in address .. address + Len(bytes) - 1 THEN bytes[a - address + 1] ELSE view[a]]

\* A text that a compiler has laid down is read to its last word and no further,
\* the instruction after it being where it ends; it is refused where memory ends
\* before it does; and as the name of an object it is read as far as the name
\* says it goes, and refused where the name says too little or too much.
ReadAsLaid(view, zcharsOfText, address) ==
    LET padded == Padded(zcharsOfText)
        end == address + Len(Packed(padded))
        laid == Overlaid(view, address, Packed(padded))
        size == Cardinality(DOMAIN view)
        text == DecodeZText(padded)
        Named(words) == Overlaid(laid, address - 1, <<words>>)
    IN  /\ ReadZChars(laid, size, address) = [fault |-> FALSE, zchars |-> padded, next |-> end]
        /\ DecodeStringAt(laid, size, address) = text
        /\ DecodeStringAt(laid, end, address) = text
        /\ DecodeStringAt(laid, end - 1, address) = NoText
        /\ \A words \in 0 .. (size - address) \div 2 + 1 :
             LET name == ObjectShortName(Named(words), size, address - 1)
             IN  CASE words = 0 -> name = Of(<<>>)
                   [] words # 0 /\ words < Len(padded) \div 3 -> name = NoText
                   [] words >= Len(padded) \div 3 /\ address + 2 * words <= size -> name = text
                   [] OTHER -> name = NoText

\* As an abbreviation it is read through its entry of the table, and refused if
\* there is no table, the entry does not fit, or the text does not.
ReadAsAbbreviation(view, zcharsOfText, address, table, index) ==
    LET padded == Padded(zcharsOfText)
        end == address + Len(Packed(padded))
        entry == table + 2 * index
        packed == address \div AddressScale
        laid == Overlaid(Overlaid(view, address, Packed(padded)),
                         entry, <<packed \div TextByteLimit, packed % TextByteLimit>>)
        size == Cardinality(DOMAIN view)
    IN  /\ AbbreviationEntry(laid, size, table, index) = [fault |-> FALSE, zchars |-> padded, next |-> end]
        /\ AbbreviationEntry(laid, end - 1, table, index).fault
        /\ AbbreviationEntry(laid, entry + 1, table, index).fault
        /\ AbbreviationEntry(laid, size, 0, index).fault

=============================================================================
