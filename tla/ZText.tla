------------------------------- MODULE ZText -------------------------------
(***************************************************************************)
(* Text as the Z-machine keeps it (text.go), and the encoding of typed     *)
(* words that dictionary.go derives from it.  A text is a sequence of      *)
(* Z-characters; how three of them are packed into a word, and the bit     *)
(* that marks the last word, are left out.  Characters are ZSCII codes.    *)
(* The numbers of the Z-characters with a meaning of their own are those   *)
(* of the code; ZLimit is 32 there.                                        *)
(***************************************************************************)
EXTENDS Integers, Sequences, SequencesExt

CONSTANTS
    ZLimit,             \* one more than the largest Z-character
    AlphabetA0,         \* the codes of Z-characters 6 and up: lower case,
    AlphabetA1,         \*   upper case,
    AlphabetA2,         \*   digits and punctuation; its first is no character
    Space,              \* the code of a space
    CodeLimit,          \* ten-bit codes: ZLimit * ZLimit
    OutputCodes,        \* the codes that print something
    DictionaryZChars,   \* 6: the Z-characters of a dictionary entry
    Abbreviations       \* the texts of the table, [fault, zchars] by index

ZChar == 0 .. ZLimit - 1

Code == 0 .. CodeLimit - 1

ASSUME TextAssumption ==
    /\ ZLimit \in Nat /\ ZLimit > 7
    /\ CodeLimit = ZLimit * ZLimit
    /\ \A alphabet \in {AlphabetA0, AlphabetA1, AlphabetA2} : alphabet \in [6 .. ZLimit - 1 -> Code]
    /\ Space \in Code \ {0} /\ OutputCodes \subseteq Code
    /\ DictionaryZChars \in Nat \ {0}
    /\ DOMAIN Abbreviations = 0 .. 3 * ZLimit - 1
    /\ \A i \in DOMAIN Abbreviations :
          Abbreviations[i].fault \in BOOLEAN /\ Abbreviations[i].zchars \in Seq(ZChar)

ZCharSpace == 0
AbbreviationZChars == {1, 2, 3}
ShiftA1 == 4
ShiftA2 == 5
Escape == 6
AlphabetLow == 6

Alphabet(a) == CASE a = 0 -> AlphabetA0 [] a = 1 -> AlphabetA1 [] a = 2 -> AlphabetA2

\* appendZSCII: a code that has no printed form prints nothing.
Printed(code) == IF code \in OutputCodes THEN <<code>> ELSE <<>>

-----------------------------------------------------------------------------
(***************************************************************************)
(* decodeZText reads one Z-character after the other.  `expect' says what  *)
(* a construction of several still needs, `held' is what it has read, and  *)
(* `shift' is the alphabet of the next character.                          *)
(***************************************************************************)
Reading(expect, held, shift, text) ==
    [expect |-> expect, held |-> held, shift |-> shift, text |-> text]

Untouched == Reading("nothing", 0, 0, <<>>)

Faulted == Reading("fault", 0, 0, <<>>)

\* A character spends the shift before it.
AfterCharacter(s, text) == Reading("nothing", 0, 0, s.text \o text)

\* The alphabet table is consulted, or the character is one of those that mean
\* the same in each.
Plain(s, z) == Printed(IF z = ZCharSpace THEN Space ELSE Alphabet(s.shift)[z])

\* One Z-character.  In the text of an abbreviation there are no entries to
\* expand: the first Z-character of another one is refused.
ReadZChar(s, z, nested, entries) ==
    CASE s.expect = "fault" -> s
      [] s.expect = "abbreviation" ->
           LET entry == entries[(s.held - 1) * ZLimit + z]
           IN  IF entry.fault THEN Faulted ELSE AfterCharacter(s, entry.text)
      [] s.expect = "escape" -> Reading("escapeBottom", z, 0, s.text)
      [] s.expect = "escapeBottom" -> AfterCharacter(s, Printed(s.held * ZLimit + z))
      [] s.expect = "nothing" /\ z \in AbbreviationZChars ->
           IF nested THEN Faulted ELSE Reading("abbreviation", z, 0, s.text)
      [] s.expect = "nothing" /\ z \in {ShiftA1, ShiftA2} ->
           Reading("nothing", 0, IF z = ShiftA1 THEN 1 ELSE 2, s.text)
      [] s.expect = "nothing" /\ z = Escape /\ s.shift = 2 -> Reading("escape", 0, 0, s.text)
      [] OTHER -> AfterCharacter(s, Plain(s, z))

Decoded(zchars, nested, entries) ==
    LET after[i \in 0 .. Len(zchars)] ==
            IF i = 0 THEN Untouched ELSE ReadZChar(after[i - 1], zchars[i], nested, entries)
        end == after[Len(zchars)]
    IN  [text |-> end.text, fault |-> end.expect = "fault"]

NoText == [text |-> <<>>, fault |-> TRUE]

\* A mutant: an abbreviation may use abbreviations, which expand to nothing.
AbbreviationTextNested(index) ==
    IF Abbreviations[index].fault
    THEN NoText
    ELSE Decoded(Abbreviations[index].zchars, FALSE, [i \in DOMAIN Abbreviations |-> [text |-> <<>>, fault |-> FALSE]])

\* The text of an entry of the table; its address may be no text at all.
AbbreviationText(index) ==
    IF Abbreviations[index].fault
    THEN NoText
    ELSE Decoded(Abbreviations[index].zchars, TRUE, <<>>)

AbbreviationTexts == [i \in DOMAIN Abbreviations |-> AbbreviationText(i)]

DecodeZText(zchars) == Decoded(zchars, FALSE, AbbreviationTexts)

-----------------------------------------------------------------------------
\* The position of a code in an alphabet, from `first' on; 0 if it has none.
PlaceIn(alphabet, first, code) ==
    LET places == {z \in first .. ZLimit - 1 : alphabet[z] = code}
    IN  IF places = {} THEN 0 ELSE CHOOSE z \in places : \A y \in places : z <= y

LowerCase(code) ==
    LET z == PlaceIn(AlphabetA1, AlphabetLow, code) IN IF z = 0 THEN code ELSE AlphabetA0[z]

\* A mutant: the halves of an escaped code are written the wrong way round.
WordZCharsSwapped(code) ==
    LET lower == PlaceIn(AlphabetA0, AlphabetLow, LowerCase(code))
        other == PlaceIn(AlphabetA2, Escape + 1, LowerCase(code))
    IN  CASE code = Space -> <<ZCharSpace>>
          [] code # Space /\ lower # 0 -> <<lower>>
          [] code # Space /\ lower = 0 /\ other # 0 -> <<ShiftA2, other>>
          [] OTHER -> <<ShiftA2, Escape, code % ZLimit, code \div ZLimit>>

\* appendWordZChars
WordZChars(code) ==
    LET lower == PlaceIn(AlphabetA0, AlphabetLow, LowerCase(code))
        other == PlaceIn(AlphabetA2, Escape + 1, LowerCase(code))
    IN  CASE code = Space -> <<ZCharSpace>>
          [] code # Space /\ lower # 0 -> <<lower>>
          [] code # Space /\ lower = 0 /\ other # 0 -> <<ShiftA2, other>>
          [] OTHER -> <<ShiftA2, Escape, code \div ZLimit, code % ZLimit>>

\* All Z-characters of a word, cut to the entry's length or padded with shifts,
\* which print nothing.
AllZChars(word) ==
    LET all[i \in 0 .. Len(word)] ==
            IF i = 0 THEN <<>> ELSE all[i - 1] \o WordZChars(word[i])
    IN  all[Len(word)]

EncodeDictionaryWord(word) ==
    LET zchars == AllZChars(word)
    IN  [i \in 1 .. DictionaryZChars |-> IF i <= Len(zchars) THEN zchars[i] ELSE ShiftA2]

-----------------------------------------------------------------------------
(***************************************************************************)
(* The reference: the grammar of S 3, read from the left.  Meaning(zchars) *)
(* is the text of the Z-characters from each position on, under each       *)
(* alphabet; a construction that does not fit is ignored, but `cut' is     *)
(* what an abbreviation that does not fit means.                           *)
(***************************************************************************)
Then(first, rest) == [text |-> first.text \o rest.text, fault |-> first.fault \/ rest.fault]

Of(text) == [text |-> text, fault |-> FALSE]

Meaning(zchars, entries, cut) ==
    LET n == Len(zchars)
        from[i \in 1 .. n + 3] ==
            [a \in 0 .. 2 |->
                IF i > n THEN Of(<<>>)
                ELSE LET z == zchars[i]
                     IN  CASE z = 0 -> Then(Of(Printed(Space)), from[i + 1][0])
                           [] z \in 1 .. 3 ->
                                IF i = n THEN cut
                                ELSE Then(entries[ZLimit * (z - 1) + zchars[i + 1]], from[i + 2][0])
                           [] z \in {4, 5} -> from[i + 1][z - 3]
                           [] z = 6 /\ a = 2 ->
                                IF i + 2 > n THEN Of(<<>>)
                                ELSE Then(Of(Printed(zchars[i + 1] * ZLimit + zchars[i + 2])), from[i + 3][0])
                           [] OTHER -> Then(Of(Printed(Alphabet(a)[z])), from[i + 1][0])]
    IN  from[1][0]

\* Of at most one level: the text of an abbreviation is one without any (S 3.3.1).
MeaningOfEntries ==
    LET none == [i \in DOMAIN Abbreviations |-> NoText]
    IN  [i \in DOMAIN Abbreviations |->
            IF Abbreviations[i].fault THEN NoText ELSE Meaning(Abbreviations[i].zchars, none, NoText)]

-----------------------------------------------------------------------------
\* Whatever a text is made of, what is printed is what the grammar says, and it
\* is refused where the grammar has no meaning for it.
TextAsSpecified(zchars) ==
    LET decoded == DecodeZText(zchars)
        meaning == Meaning(zchars, MeaningOfEntries, Of(<<>>))
    IN  /\ decoded.fault = meaning.fault
        /\ ~decoded.fault => decoded.text = meaning.text

\* "Encoding is the exact inverse of the decoding" (dictionary.go): an entry
\* decodes to the word in lower case, as far as the Z-characters of an entry go,
\* and a construction that they cut decodes to nothing.
EncodingDecodes(word) ==
    \E k \in 0 .. Len(word) :
       /\ DecodeZText(EncodeDictionaryWord(word)) = Of([i \in 1 .. k |-> LowerCase(word[i])])
       /\ k = Len(word) \/ Len(AllZChars(SubSeq(word, 1, k + 1))) > DictionaryZChars

=============================================================================
