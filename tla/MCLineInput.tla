---------------------------- MODULE MCLineInput ----------------------------
(***************************************************************************)
(* Bytes of three bits, a header of one byte, a dictionary of three words. *)
(* The codes are 0 null, 1 space, 2 a, 3 b, 4 the comma, which is also the *)
(* separator, 5 a character outside the alphabets, 6 A and 7 B.            *)
(***************************************************************************)
EXTENDS LineInput

MCA0 == (6 :> 2) @@ (7 :> 3)
MCA1 == (6 :> 6) @@ (7 :> 7)
MCA2 == (6 :> 0) @@ (7 :> 4)

MCOutputCodes == 1 .. 7

MCAbbreviations == [i \in 0 .. 23 |-> [fault |-> TRUE, zchars |-> <<>>]]

\* What a host can type, the bell and a character that is not in ZSCII included.
MCCharacters == {"a", "A", "b", " ", ",", "!", "bell", "rune"}

MCTypedCode ==
    [ c \in MCCharacters |->
        CASE c \in {"a", "A"} -> 2 [] c = "b" -> 3 [] c = " " -> 1 [] c = "," -> 4
          [] c = "!" -> 5 [] c = "bell" -> 0 [] c = "rune" -> -1 ]

MCNoCode == -1

MCLines == { <<>>, <<"A", ",", "b">>, <<"b", " ", "a">>, <<" ", "bell", "!", "rune", "a">> }

-----------------------------------------------------------------------------
\* A comma, a and b, with a byte of data each.
Entries == <<5, 7, 0, 6, 5, 0, 7, 5, 0>>

DictionaryBytes == <<1, 4, 3, 0, 3>> \o Entries

\* Where a story keeps two buffers: one of text for three letters and one of
\* parsed words for three, of which the third lies beyond dynamic memory.
Buffers == (4 :> 4) @@ (9 :> 3)

BytesWith(length, dictionary) ==
    [ a \in 0 .. length - 1 |->
        CASE a \in DOMAIN Buffers -> Buffers[a]
          [] a \in dictionary .. dictionary + Len(DictionaryBytes) - 1 ->
               DictionaryBytes[a - dictionary + 1]
          [] OTHER -> 0 ]

FileWith(length, dictionary) ==
    [ length |-> length, version |-> 3, declared |-> 0, staticBase |-> 19, highBase |-> 19,
      initialPC |-> 19, objectTable |-> 1, globals |-> 2, abbreviations |-> 0,
      dictionary |-> dictionary, bytes |-> BytesWith(length, dictionary) ]

Ordinary == FileWith(33, 19)

\* The dictionary in dynamic memory.
Dynamic == [FileWith(34, 19) EXCEPT !.staticBase = 33, !.highBase = 33]

\* The third entry of the dictionary has an address beyond the words.
Long == FileWith(70, 55)

\* A header at the limits of what LoadStory accepts, and some just beyond them.
AtTheLimits ==
    [FileWith(34, 19) EXCEPT !.objectTable = 18, !.globals = 17, !.abbreviations = 32, !.declared = 17]

BeyondThem ==
    { [Ordinary EXCEPT !.globals = 18], [Ordinary EXCEPT !.objectTable = 19],
      [Ordinary EXCEPT !.abbreviations = 32], [Ordinary EXCEPT !.version = 4],
      [Ordinary EXCEPT !.initialPC = 33], [Ordinary EXCEPT !.declared = 16],
      [Ordinary EXCEPT !.declared = 17], [Ordinary EXCEPT !.bytes = [@ EXCEPT ![23] = 4]],
      [Ordinary EXCEPT !.bytes = [@ EXCEPT ![21] = 1]], FileWith(33, 32) }

MCFiles == {Ordinary, Dynamic, Long, AtTheLimits} \cup BeyondThem

-----------------------------------------------------------------------------
MCTextBuffers == {4, 14, 19}

MCParseBuffers == {6, 9, 18}

\* The sizes of the buffers, the count of an earlier line, and, where they can
\* be written, the number of separators and the entries of the dictionary.
MCStores == { <<4, 2>>, <<9, 2>>, <<10, 7>>, <<14, 2>>, <<19, 7>>, <<27, 7>> }

=============================================================================
