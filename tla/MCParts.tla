------------------------------ MODULE MCParts ------------------------------
(***************************************************************************)
(* Words of four bits, Z-characters of three, bytes of text of five, and   *)
(* all 256 opcode bytes.                                                   *)
(***************************************************************************)
EXTENDS Parts, TLC

-----------------------------------------------------------------------------
MCByteChoices ==
    [ field \in {"opcode", "types", "operands", "store", "branch", "branchLow", "text"} |->
        CASE field = "opcode" -> 0 .. 255
          [] field = "types" -> {26, 31, 85, 155, 247, 255}
          [] field = "operands" -> {1, 255}
          [] field = "store" -> {0, 16}
          [] field = "branch" -> {0, 31, 32, 63, 64, 65, 127, 128, 160, 193}
          [] field = "branchLow" -> {0, 1, 255}
          [] field = "text" -> {0, 128} ]

MCA0 == (6 :> 2) @@ (7 :> 3)
MCA1 == (6 :> 6) @@ (7 :> 7)
MCA2 == (6 :> 0) @@ (7 :> 4)

MCOutputCodes == 1 .. 7

\* The texts of the table of abbreviations, by where they lie: ordinary ones, one
\* with an abbreviation in it, one that its end cuts, one that ends in a shift.
MCTexts == (50 :> <<4, 6, 0>>) @@ (52 :> <<6, 1, 0>>) @@ (54 :> <<7, 6, 3>>) @@ (56 :> <<7, 4>>)

\* Where each of them is; the entry 1 names an address outside the story.
MCTextOf ==
    [ i \in 0 .. 23 |->
        CASE i = 1 -> 2046 [] i = 2 -> 52 [] i = 8 -> 54 [] i = 9 -> 56 [] OTHER -> 50 ]

MCTable == 2

MCTextAt == 60

MCImageSize == 66

\* The table, the texts, and room for the name of an object and a text after it,
\* with words of which each would end a text.
MCImage ==
    LET WithTable(view) ==
            FoldLeft(LAMBDA v, i : Overlaid(v, MCTable + 2 * i, << MCTextOf[i] \div 64, (MCTextOf[i] \div 2) % 32 >>),
                     view, [i \in 1 .. 23 |-> i] \o <<0>>)
    IN  FoldLeft(LAMBDA v, a : Overlaid(v, a, Packed(Padded(MCTexts[a]))),
                 WithTable([a \in 0 .. MCImageSize - 1 |-> 31]), <<50, 52, 54, 56>>)

\* The first entry of the table and the last.
MCLaidIndices == {0, 23}

MCAbbreviations == [i \in 0 .. 23 |-> AbbreviationEntry(MCImage, MCImageSize, MCTable, i)]

MCTypedCodes == {1, 2, 4, 5, 6}

\* The smallest word of three bits, one below IntervalSeed, and the largest.
MCRanges == {-4, -2, 0, 3}

MCHostSeeds == {-1, 0, 15}

MCNoSeed == -1

MCPcgNumbers == [from \in 0 .. 17 |-> <<from, 1>>]

MCEntropy == {7}

MCNoEntropy == -1

\* Nothing tells one request from another.
MCSymmetry == Permutations(Machines)

FrotzChunk(a, interval, counter) ==
    [ kind |-> "frotz", legal |-> TRUE, predictable |-> TRUE, from |-> 0, drawn |-> 0,
      a |-> a, interval |-> interval, counter |-> counter ]

\* Among them a state and a counter beyond their limits, a state of the wrong size
\* and a generator that does not exist.
MCForeignChunks ==
    { FrotzChunk(13, 2, 3), [FrotzChunk(1, 0, 0) EXCEPT !.legal = FALSE],
      [FrotzChunk(1, 0, 0) EXCEPT !.kind = "unknown"],
      [FrotzChunk(1, 0, 0) EXCEPT !.kind = "pcg", !.from = 7, !.drawn = 1] }

\* Behind the last byte there is no room: as a size byte it is the end if it is
\* zero and malformed if it is not, whatever else it is.
MCLastBytes == {0, MaxProperty}

=============================================================================
