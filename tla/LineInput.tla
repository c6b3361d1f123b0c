----------------------------- MODULE LineInput -----------------------------
(***************************************************************************)
(* sread (input.go): the line that the host has supplied goes, reduced to  *)
(* what ZSCII can express, into the text buffer, is broken into words, and *)
(* the parse buffer receives what the dictionary says of each.  Where the  *)
(* two buffers are, how large they say they are and what they overlap is   *)
(* up to the story, which also stores what it likes in between.            *)
(* The status line, which sread displays first, is that of Machine.        *)
(***************************************************************************)
EXTENDS Dictionary

CONSTANTS
    Files,          \* the story files a host may load
    Characters,     \* what a line is made of
    TypedCode,      \* the code of each in lower case, or NoCode
    NoCode,         \* ZSCII cannot represent the character
    Lines,          \* the lines a host may supply
    TextBuffers,    \* the operands a story gives to sread
    ParseBuffers,
    Stores,         \* the <<address, value>> a story stores in between
    MaxSteps        \* bound for model checking: stores and lines read

VARIABLES
    story,          \* the Story that the host has loaded
    mem,            \* dynamic memory
    input,          \* the line for the next sread, or NoLine
    read,           \* how the last sread ended, and with which operands
    steps           \* the instructions that have stored anything

lineVars == <<story, mem, input, read, steps>>

NoLine == <<"no line">>

NothingRead == [status |-> "none", text |-> 0, parse |-> 0, line |-> <<>>]

TextBufferMin == 3
ParseBufferMin == 6
ParseHeader == 2
ParseEntry == 4

ASSUME LineAssumption ==
    /\ \A file \in Files :
          /\ {file.length, file.declared, file.staticBase, file.objectTable, file.globals,
              file.abbreviations, file.dictionary} \subseteq Nat
          /\ file.bytes \in [0 .. file.length - 1 -> Byte]
    /\ TypedCode \in [Characters -> Byte \cup {NoCode}] /\ NoCode \notin Byte
    /\ Lines \subseteq Seq(Characters)
    /\ TextBuffers \cup ParseBuffers \subseteq Words
    /\ Stores \subseteq Words \X Byte
    /\ MaxSteps \in Nat

\* Memory as the Machine sees it, its dynamic part being m.
View(m) ==
    [a \in 0 .. story.length - 1 |-> IF a < story.staticBase THEN m[a] ELSE story.image[a]]

Writable(address, width) == Lies(address, width, story.staticBase)

\* Memory while an instruction stores in it: `ok' until a store is refused.
Store(s, address, values) ==
    IF s.ok /\ Writable(address, Len(values))
    THEN [s EXCEPT !.mem =
            [a \in DOMAIN s.mem |->
                IF a \in address .. address + Len(values) - 1 THEN values[a - address + 1] ELSE s.mem[a]]]
    ELSE [s EXCEPT !.ok = FALSE]

-----------------------------------------------------------------------------
MaxLetters(size) == size - 1

\* A mutant: what ZSCII cannot represent is part of the line.
KeptWhole(line) == [i \in 1 .. Len(line) |-> TypedCode[line[i]]]

\* Control codes and what ZSCII cannot represent are not part of a line.
KeptCode(code) == IF code # NoCode /\ code >= Space THEN <<code>> ELSE <<>>

Kept(line) ==
    LET kept[i \in 0 .. Len(line)] ==
            IF i = 0 THEN <<>> ELSE kept[i - 1] \o KeptCode(TypedCode[line[i]])
    IN  kept[Len(line)]

Letters(line, size) ==
    LET kept == Kept(line) IN SubSeq(kept, 1, Min({MaxLetters(size), Len(kept)}))

TextBufferFits(m, address) ==
    /\ address < story.length
    /\ View(m)[address] + 1 >= TextBufferMin
    /\ Writable(address, View(m)[address] + 1)

\* storeInputLine
StoreInputLine(address, line) ==
    IF TextBufferFits(mem, address)
    THEN Store([mem |-> mem, ok |-> TRUE], address + 1, Letters(line, View(mem)[address]) \o <<0>>)
    ELSE [mem |-> mem, ok |-> FALSE]

-----------------------------------------------------------------------------
(***************************************************************************)
(* splitInputWords goes through the text once; `start' is where the word   *)
(* in progress began, 0 if there is none.  Positions begin at 1, which is  *)
(* where the text begins in its buffer.                                    *)
(***************************************************************************)
Flushed(s, text, end) ==
    IF s.start = 0
    THEN s
    ELSE [start |-> 0, words |-> Append(s.words, [start |-> s.start, text |-> SubSeq(text, s.start, end)])]

\* A mutant: a separator ends a word and is none itself.
AtCharacterNoWord(s, text, i, separators) ==
    CASE text[i] = Space \/ text[i] \in separators -> Flushed(s, text, i - 1)
      [] s.start = 0 /\ text[i] \notin separators \cup {Space} -> [s EXCEPT !.start = i]
      [] OTHER -> s

\* One character of the text, a space being tested before the separators.
AtCharacter(s, text, i, separators) ==
    CASE text[i] = Space -> Flushed(s, text, i - 1)
      [] text[i] # Space /\ text[i] \in separators ->
           [start |-> 0,
            words |-> Append(Flushed(s, text, i - 1).words, [start |-> i, text |-> <<text[i]>>])]
      [] s.start = 0 /\ text[i] \notin separators \cup {Space} -> [s EXCEPT !.start = i]
      [] OTHER -> s

SplitInputWords(text, separators) ==
    LET split[i \in 0 .. Len(text)] ==
            IF i = 0
            THEN [start |-> 0, words |-> <<>>]
            ELSE AtCharacter(split[i - 1], text, i, separators)
    IN  Flushed(split[Len(text)], text, Len(text)).words

-----------------------------------------------------------------------------
\* A mutant: the whole buffer that the story promises has to be there.
ParseBufferFitsWhole(m, address) ==
    /\ address < story.length
    /\ ParseHeader + ParseEntry * View(m)[address] >= ParseBufferMin
    /\ Writable(address, ParseHeader + ParseEntry * View(m)[address])

\* Only the header of the parse buffer is checked beforehand.
ParseBufferFits(m, address) ==
    /\ address < story.length
    /\ ParseHeader + ParseEntry * View(m)[address] >= ParseBufferMin
    /\ Writable(address, ParseHeader)

\* One word: its look-up, in memory as the blocks before it have left it, and
\* the three stores of its block, each of which may be refused.
WriteBlock(s, address, table, words, k) ==
    LET block == address + ParseHeader + (k - 1) * ParseEntry
        found == LookupDictionaryWord(View(s.mem), table, EncodeDictionaryWord(words[k].text))
        entry == Store(s, block, <<found.entry \div ByteLimit, found.entry % ByteLimit>>)
        letters == Store(entry, block + 2, <<Len(words[k].text)>>)
    IN  IF s.ok /\ ~found.fault
        THEN Store(letters, block + 3, <<words[k].start>>)
        ELSE [s EXCEPT !.ok = FALSE]

Blocks(s, address, table, words, count) ==
    LET written[k \in 0 .. count] ==
            IF k = 0 THEN s ELSE WriteBlock(written[k - 1], address, table, words, k)
    IN  written[count]

\* A mutant: the number of words is written before their blocks.
WithWordsCounted(s, address, table, words, count) ==
    Blocks(Store(s, address + 1, <<count>>), address, table, words, count)

\* The blocks, and after them the number of words in byte 1.
WithWords(s, address, table, words, count) ==
    Store(Blocks(s, address, table, words, count), address + 1, <<count>>)

\* tokeniseInput
TokeniseInput(s, address, text) ==
    LET dictionary == ReadDictionary(View(s.mem), story.length, story.dictionary)
        words == SplitInputWords(text, dictionary.table.separators)
    IN  IF s.ok /\ ~dictionary.fault /\ ParseBufferFits(s.mem, address)
        THEN WithWords(s, address, dictionary.table, words,
                       Min({Len(words), View(s.mem)[address]}))
        ELSE [s EXCEPT !.ok = FALSE]

-----------------------------------------------------------------------------
\* The host loads a file, and New gives the Machine a copy of its dynamic part.
LineInit ==
    \E file \in {f \in Files : Acceptable(f)} :
       /\ story = Loaded(file)
       /\ mem = [a \in 0 .. file.staticBase - 1 |-> file.bytes[a]]
       /\ input = NoLine
       /\ read = NothingRead
       /\ steps = 0

\* Run, the machine being at an sread.
Supply ==
    /\ input = NoLine
    /\ input' \in Lines
    /\ UNCHANGED <<story, mem, read, steps>>

Counted == steps < MaxSteps /\ steps' = steps + 1

\* storeb and all other instructions that store.
StoryStores ==
    /\ Counted
    /\ \E store \in Stores :
          /\ Writable(store[1], 1)
          /\ mem' = [mem EXCEPT ![store[1]] = store[2]]
          /\ mem' # mem
    /\ read' = NothingRead
    /\ UNCHANGED <<story, input>>

\* executeSRead: the line is gone also when a buffer is refused after that, and
\* what was stored before the refusal stays.
SRead ==
    /\ Counted
    /\ input # NoLine
    /\ \E text \in TextBuffers, parse \in ParseBuffers :
          LET stored == StoreInputLine(text, input)
              letters == IF stored.ok THEN Letters(input, View(mem)[text]) ELSE <<>>
              done == TokeniseInput(stored, parse, letters)
          IN  /\ mem' = done.mem
              /\ read' = [status |-> IF done.ok THEN "done" ELSE "refused",
                          text |-> text, parse |-> parse, line |-> input]
    /\ input' = NoLine
    /\ UNCHANGED story

\* A wrong number of operands is refused before the line is taken.
SReadMisused ==
    /\ input # NoLine
    /\ read' = NothingRead
    /\ UNCHANGED <<story, mem, input, steps>>

LineNext == Supply \/ StoryStores \/ SRead \/ SReadMisused

LineSpec == LineInit /\ [][LineNext]_lineVars

-----------------------------------------------------------------------------
LineTypeOK ==
    /\ mem \in [0 .. story.staticBase - 1 -> Byte]
    /\ input \in Lines \cup {NoLine}
    /\ read.status \in {"none", "done", "refused"}
    /\ steps \in 0 .. MaxSteps

\* No check is repeated when an instruction reads a table of the header: each
\* table that LoadStory has accepted stays readable, those of variables and
\* objects writable and clear of the header, and a dictionary that the story
\* cannot write stays one.
TablesMapped ==
    /\ {story.globals, story.objectTable} \subseteq HeaderSize .. story.staticBase - 1
    /\ story.globals + GlobalsSize - 1 \in DOMAIN mem
    /\ story.objectTable + DefaultsSize - 1 \in DOMAIN mem
    /\ story.abbreviations # 0 => story.abbreviations + AbbreviationsSize - 1 \in DOMAIN View(mem)
    /\ story.dictionary >= story.staticBase =>
          ~ReadDictionary(View(mem), story.length, story.dictionary).fault

\* "The reads below cannot fail for a loaded story" (dictionary.go): not of a
\* dictionary that LoadStory has accepted in dynamic memory.
DictionaryNeverFails ==
    ~ReadDictionary(View(mem), story.length, story.dictionary).fault

\* The chop finds what is there and nothing else, in whatever the story has made
\* of a dictionary that it can write.
LookupExact ==
    LET dictionary == ReadDictionary(View(mem), story.length, story.dictionary)
    IN  ~dictionary.fault =>
          ChopIsExact(View(mem), dictionary.table, [1 .. DictionaryZChars -> ZChar])

-----------------------------------------------------------------------------
\* S 13.6.1 without an automaton: the words of a text are its separators and
\* the longest pieces without separators and spaces, <<first, last>>.
WordsOf(text, separators) ==
    LET divides(i) == text[i] \in separators \cup {Space}
        outside(i) == i \notin 1 .. Len(text) \/ divides(i)
    IN  {<<i, i>> : i \in {j \in 1 .. Len(text) : divides(j) /\ text[j] # Space}}
        \cup {w \in (1 .. Len(text)) \X (1 .. Len(text)) :
                /\ w[1] <= w[2] /\ \A i \in w[1] .. w[2] : ~divides(i)
                /\ outside(w[1] - 1) /\ outside(w[2] + 1)}

\* The text that a story finds in its text buffer.
TextIn(address) ==
    LET size == View(mem)[address]
        end == Min({i \in 1 .. size : mem[address + i] = 0})
    IN  [i \in 1 .. end - 1 |-> mem[address + i]]

TextArea(address) ==
    IF address \in DOMAIN View(mem) THEN address .. address + View(mem)[address] ELSE {}

\* The blocks that a line of so many words is given, and the header.
ParseArea(address, count) == address .. address + ParseHeader + ParseEntry * count - 1

\* What a story may rely on once sread has ended well, if its buffers lie apart
\* and off the dictionary: the parse buffer describes the words in the text
\* buffer, in order and as many as it asked for, each by its place, its length
\* and the entry of the dictionary that spells it, if there is one.
ParseDescribesText ==
    LET p == read.parse
        text == TextIn(read.text)
        table == DictionaryHeader(View(mem), story.dictionary)
        words == WordsOf(text, table.separators)
        count == mem[p + 1]
        Describes(k, w) ==
            LET b == p + ParseHeader + (k - 1) * ParseEntry
                entry == WordAt(mem, b)
                zchars == EncodeDictionaryWord(SubSeq(text, w[1], w[2]))
            IN  /\ mem[b + 2] = w[2] - w[1] + 1
                /\ mem[b + 3] = w[1]
                /\ IF entry = 0
                   THEN Sorted(View(mem), table) =>
                          \A j \in 0 .. table.count - 1 : EntryZChars(View(mem), table, j) # zchars
                   ELSE \E j \in 0 .. table.count - 1 :
                          /\ EntryAddress(table, j) = entry
                          /\ EntryZChars(View(mem), table, j) = zchars
    IN  (read.status = "done"
         /\ story.dictionary >= story.staticBase
         /\ TextArea(read.text) \cap ParseArea(p, mem[p]) = {})
        =>
        /\ count = Min({Cardinality(words), mem[p]})
        /\ \A k \in 1 .. count :
              \E w \in words :
                 /\ Cardinality({v \in words : v[1] < w[1]}) = k - 1
                 /\ Describes(k, w)

\* The step takes the line.
Reads == input # NoLine /\ input' = NoLine

\* Whatever the operands and wherever it stops, sread changes only the buffers,
\* as long as they say they are, and not the byte of a buffer that says it.
\* Where it is refused, the number of words that the story reads is the old one.
OnlyBuffersWritten ==
    [][Reads =>
         LET changed == {a \in DOMAIN mem : mem'[a] # mem[a]}
             texts == TextArea(read'.text) \ {read'.text}
             blocks == ParseArea(read'.parse, mem'[read'.parse]) \ {read'.parse}
         IN  IF read'.parse \in DOMAIN mem
             THEN /\ changed \subseteq texts \cup blocks
                  /\ read'.status = "refused" => read'.parse + 1 \notin changed \ texts
             ELSE changed \subseteq texts]_lineVars

\* A line is not refused in vain: buffers of a legal size, apart, with room for
\* the words that the line has even where they promise room for more, and a
\* dictionary whose addresses fit in a word, are all it takes.
NotRefusedInVain ==
    [][Reads /\ read'.status = "refused" =>
         LET t == read'.text
             p == read'.parse
             table == DictionaryHeader(View(mem), story.dictionary)
             words == WordsOf(Letters(input, View(mem)[t]), table.separators)
             count == Min({Cardinality(words), View(mem)[p]})
         IN  ~ ( /\ {t, p} \subseteq DOMAIN mem
                 /\ story.dictionary >= story.staticBase
                 /\ EntryAddress(table, table.count) <= WordLimit
                 /\ TextArea(t) \subseteq DOMAIN mem
                 /\ View(mem)[t] >= 2
                 /\ ParseArea(p, count) \subseteq DOMAIN mem
                 /\ View(mem)[p] >= 1
                 /\ TextArea(t) \cap ParseArea(p, count) = {} )]_lineVars

=============================================================================
