----------------------------- MODULE Dictionary -----------------------------
(***************************************************************************)
(* The dictionary and the look-up of typed words (dictionary.go).  `view'  *)
(* is memory as a Machine sees it, and `size' its length: the table is     *)
(* read from there each time a line is analysed.  An entry begins with its *)
(* Z-characters, here one to a byte.                                       *)
(***************************************************************************)
EXTENDS StoryFile, ZText

ASSUME DictionaryAssumption ==
    /\ ZLimit <= ByteLimit
    /\ DictionaryZChars <= EntryLengthMin

\* readDictionary
ReadDictionary(view, size, address) ==
    IF DictionaryFits(view, size, address)
    THEN [fault |-> FALSE, table |-> DictionaryHeader(view, address)]
    ELSE [fault |-> TRUE, table |-> [separators |-> {}, entryLength |-> 0, count |-> 0, entries |-> 0]]

\* Z-characters as one number, the first the most significant.
AsNumber(zchars) ==
    LET number[i \in 0 .. DictionaryZChars] ==
            IF i = 0 THEN 0 ELSE number[i - 1] * ByteLimit + zchars[i]
    IN  number[DictionaryZChars]

EntryAddress(table, k) == table.entries + k * table.entryLength

EntryZChars(view, table, k) ==
    [i \in 1 .. DictionaryZChars |-> view[EntryAddress(table, k) + i - 1]]

\* A mutant: the entry in the middle is left out on both sides.
NarrowedTooFar(low, middle, high, below) ==
    IF below THEN <<middle + 1, high>> ELSE <<low, middle - 1>>

\* The entries from low on and before high that can still be the word, `below'
\* saying that the entry in the middle comes before it.
Narrowed(low, middle, high, below) ==
    IF below THEN <<middle + 1, high>> ELSE <<low, middle>>

Middle(low, high) == low + (high - low) \div 2

\* The chop has nothing left to look at, or the word in the middle.
ChopEnds(view, table, zchars, low, high) ==
    low < high => AsNumber(EntryZChars(view, table, Middle(low, high))) = AsNumber(zchars)

\* One round of the chop on the entries from <<low, high>>.
ChopRound(view, table, zchars, r) ==
    LET middle == Middle(r[1], r[2])
    IN  IF ChopEnds(view, table, zchars, r[1], r[2])
        THEN r
        ELSE Narrowed(r[1], middle, r[2],
                      AsNumber(EntryZChars(view, table, middle)) < AsNumber(zchars))

\* lookupDictionaryWord, the entry's place instead of its address; -1 if none.
\* Each round leaves out one entry at least, so it takes no more rounds than
\* there are entries.
LookupPlace(view, table, zchars) ==
    LET left[n \in 0 .. table.count] ==
            IF n = 0 THEN <<0, table.count>> ELSE ChopRound(view, table, zchars, left[n - 1])
        end == left[table.count]
    IN  IF end[1] < end[2] THEN Middle(end[1], end[2]) ELSE -1

\* What is written into the parse buffer: 0 for a word that is not there, and
\* no address that does not fit in a word.
LookupDictionaryWord(view, table, zchars) ==
    LET k == LookupPlace(view, table, zchars)
        address == IF k = -1 THEN 0 ELSE EntryAddress(table, k)
    IN  [fault |-> address >= WordLimit, entry |-> address]

-----------------------------------------------------------------------------
\* S 13.5: in numerical order, no two entries alike.
Sorted(view, table) ==
    \A j, k \in 0 .. table.count - 1 :
       j < k => AsNumber(EntryZChars(view, table, j)) < AsNumber(EntryZChars(view, table, k))

\* A word that is found is the word that was asked for, whatever the order of
\* the entries; in a dictionary in order every entry is found.
ChopIsExact(view, table, words) ==
    /\ \A zchars \in words :
          LET k == LookupPlace(view, table, zchars)
          IN  k # -1 => k \in 0 .. table.count - 1 /\ EntryZChars(view, table, k) = zchars
    /\ Sorted(view, table) =>
          \A k \in 0 .. table.count - 1 :
             LookupPlace(view, table, EntryZChars(view, table, k)) = k

=============================================================================
