------------------------ MODULE OutputStreamsProofs ------------------------
(***************************************************************************)
(* Proofs about OutputStreams, for every size of dynamic memory, every     *)
(* width of a byte, every depth of nesting and every text of one or two    *)
(* characters at a time.                                                   *)
(***************************************************************************)
EXTENDS OutputStreams, SequenceTheorems, NumberFacts

-----------------------------------------------------------------------------
\* The inductive invariant, part by part.

\* The histories are sequences as long as the list of selected tables.
HistoriesTyped == sent \in Seq(Seq(Character)) /\ undisturbed \in Seq(BOOLEAN)

\* A selected table and its text lie inside dynamic memory.
TablesInside ==
    \A i \in 1 .. Innermost :
       out.tables[i].table + 1 + out.tables[i].count < DynamicSize

IInv == TypeOK /\ HistoriesTyped /\ TablesInside /\ TablesHoldText

LEMMA CountLimitNat == CountLimit \in Nat
<1>1. ByteLimit \in Nat /\ ByteLimit >= 2
  BY OutputAssumption
<1>2. ByteLimit * ByteLimit >= ByteLimit
  <2>1. ByteLimit * (ByteLimit - 1) >= 0
    BY <1>1
  <2> QED BY <1>1, <2>1
<1> QED BY <1>1, <1>2 DEF CountLimit

\* What the invariant says of one selected table.
LEMMA TableOf ==
  ASSUME IInv, NEW i \in 1 .. Innermost
  PROVE  /\ Innermost \in Nat
         /\ out.tables \in Seq(Table) /\ out.tables[i] \in Table
         /\ out.tables[i].table \in Nat /\ out.tables[i].count \in Nat
         /\ out.tables[i].table + 1 + out.tables[i].count < DynamicSize
         /\ sent[i] \in Seq(Character) /\ out.tables[i].count = Len(sent[i])
         /\ undisturbed[i] \in BOOLEAN
<1>1. out.tables \in Seq(Table)
  BY DEF IInv, TypeOK, Output
<1>2. out.tables[i] \in Table /\ Innermost \in Nat
  BY <1>1, ElementOfSeq, LenProperties DEF Innermost
<1>3. sent[i] \in Seq(Character) /\ undisturbed[i] \in BOOLEAN
  <2>1. Len(sent) = Innermost /\ Len(undisturbed) = Innermost
    BY DEF IInv, TypeOK
  <2> QED BY <2>1, ElementOfSeq DEF IInv, HistoriesTyped
<1>4. DynamicSize \in Nat /\ CountLimit \in Int
  BY OutputAssumption DEF CountLimit
<1>5. out.tables[i].table \in Nat /\ out.tables[i].count \in Nat
  BY <1>2, <1>4 DEF Table, Place
<1>6. out.tables[i].table + 1 + out.tables[i].count < DynamicSize
  BY DEF IInv, TablesInside
<1>7. out.tables[i].count = Len(sent[i])
  BY DEF IInv, TablesHoldText
<1> QED BY <1>1, <1>2, <1>3, <1>5, <1>6, <1>7

\* The parts of a step that leaves memory and the selected tables alone.
LEMMA SameTables ==
  ASSUME IInv, bytes' = bytes, out' \in Output, out'.tables = out.tables,
         sent' = sent, undisturbed' = undisturbed, outcome' \in {"done", "closed", "reset", "fault"}
  PROVE  IInv'
<1>1. TypeOK'
  BY DEF IInv, TypeOK, Innermost
<1>2. HistoriesTyped' /\ TablesInside'
  BY DEF IInv, HistoriesTyped, TablesInside, Innermost
<1>3. TablesHoldText'
  BY DEF IInv, TablesHoldText, Innermost
<1> QED BY <1>1, <1>2, <1>3 DEF IInv

LEMMA InitialOutputType == InitialOutput \in Output /\ InitialOutput.tables = <<>>
<1>1. <<>> \in Seq(Table)
  BY EmptySeq
<1> QED BY <1>1, OutputAssumption DEF InitialOutput, Output, Window

\* A machine without a selected table.
LEMMA ResetKeeps ==
  ASSUME NEW memory \in [Place -> Byte], Reset(memory)
  PROVE  IInv'
<1>1. out' = InitialOutput /\ out'.tables = <<>> /\ out' \in Output
  BY InitialOutputType DEF Reset
<1>2. /\ Innermost' = 0 /\ sent' = <<>> /\ undisturbed' = <<>>
      /\ Len(sent') = 0 /\ Len(undisturbed') = 0
  BY <1>1 DEF Reset, Innermost
<1>3. sent' \in Seq(Seq(Character)) /\ undisturbed' \in Seq(BOOLEAN)
  BY <1>2, EmptySeq
<1>4. TypeOK'
  BY <1>1, <1>2, OutputAssumption DEF Reset, TypeOK
<1>5. TablesInside' /\ TablesHoldText'
  BY <1>2 DEF TablesInside, TablesHoldText
<1> QED BY <1>3, <1>4, <1>5 DEF IInv, HistoriesTyped

LEMMA BlankType == Blank \in [Place -> Byte]
BY OutputAssumption DEF Blank, Byte

\* An output state field by field, without its captured text.
LEMMA WithoutCapture ==
  ASSUME NEW C, NEW W, NEW H, NEW B, NEW T, 0 \in C,
         NEW o \in [ screen : C, upper : C, window : W, height : H, stream1 : B, tables : T ],
         NEW e, e = [o EXCEPT !.screen = 0, !.upper = 0]
  PROVE  e = [ screen |-> 0, upper |-> 0, window |-> o.window, height |-> o.height,
               stream1 |-> o.stream1, tables |-> o.tables ]
OBVIOUS

LEMMA Uncaptured == 0 \in 0 .. MaxCaptured
BY OutputAssumption

-----------------------------------------------------------------------------
\* Words and their bytes.

\* A word fits its two bytes.
LEMMA CountFits ==
  ASSUME NEW count \in 0 .. CountLimit
  PROVE  /\ HighByte(count) \in Byte /\ LowByte(count) \in Byte
         /\ HighByte(count) * ByteLimit + LowByte(count) = count
<1> DEFINE b == ByteLimit
           q == count \div b
           r == count % b
<1>1. b \in Nat \ {0} /\ count \in Int /\ count >= 0 /\ count < b * b
  BY OutputAssumption, CountLimitNat DEF CountLimit
<1>2. count = b * q + r /\ q \in Nat /\ r \in 0 .. b - 1
  BY <1>1, DivisionParts
<1> HIDE DEF q, r
<1>3. q <= b - 1
  <2> SUFFICES ASSUME q > b - 1
               PROVE  FALSE
    BY <1>1, <1>2
  <2>1. b - 1 \in Int /\ q \in Int
    BY <1>1, <1>2
  <2>2. b * (b - 1) + b <= b * q
    BY <1>1, <2>1, MultiplesApart
  <2>3. b * (b - 1) + b = b * b
    BY <1>1
  <2> QED BY <1>1, <1>2, <2>2, <2>3
<1>4. q * b + r = count
  BY <1>1, <1>2
<1>5. q \in Byte /\ r \in Byte
  BY <1>1, <1>2, <1>3 DEF Byte
<1>6. q % b = q
  <2>1. q \in 0 .. b - 1
    BY <1>1, <1>2, <1>3
  <2> QED BY <1>1, <2>1, RemainderOfSmall
<1>7. HighByte(count) = q /\ LowByte(count) = r
  BY <1>6 DEF HighByte, LowByte, q, r
<1> QED BY <1>4, <1>5, <1>7

\* A word is read back from its two bytes.
LEMMA FieldRestored ==
  ASSUME NEW n \in 0 .. CountLimit
  PROVE  FieldOf(BytesOf(n)) = n
BY CountFits DEF FieldOf, BytesOf

\* Every place of dynamic memory has a word for its address, as every height and
\* every count has one.
LEMMA FieldsAreWords ==
  /\ DynamicSize \in Nat
  /\ \A a \in Place : a \in 0 .. CountLimit
  /\ \A h \in Height : h \in 0 .. CountLimit
<1> DEFINE s == ByteLimit * ByteLimit
<1>1. s \in Nat /\ CountLimit = s - 1
  BY CountLimitNat, OutputAssumption DEF CountLimit
<1>2. DynamicSize \in 2 .. s /\ Height \subseteq 0 .. s - 1
  BY OutputAssumption
<1> HIDE DEF s
<1> QED BY <1>1, <1>2 DEF Place

-----------------------------------------------------------------------------
\* The screen chunk of a state this machine is in is believed, and brings back
\* what it was made from.
LEMMA ChunkBelieved ==
  ASSUME IInv
  PROVE  ScreenSurvives
<1>1. out \in Output /\ Innermost <= StreamDepth
  BY DEF IInv, TypeOK
<1> DEFINE chunk == Encoded(out)
           back == [i \in 1 .. Len(chunk.tables) |->
                       [ table |-> FieldOf(chunk.tables[i].table),
                         count |-> FieldOf(chunk.tables[i].count) ]]
<1>2. /\ out.tables \in Seq(Table) /\ Innermost \in Nat
      /\ out.window \in Window /\ out.height \in Height
  BY <1>1, LenProperties DEF Output, Innermost
<1>3. /\ chunk.window = out.window /\ chunk.stream1 = out.stream1
      /\ chunk.height = BytesOf(out.height)
      /\ chunk.tables = [i \in 1 .. Innermost |->
                            [ table |-> BytesOf(out.tables[i].table),
                              count |-> BytesOf(out.tables[i].count) ]]
  BY DEF Encoded, Innermost
<1> HIDE DEF chunk
<1>4. Len(chunk.tables) = Innermost
  BY <1>2, <1>3
<1>5. ASSUME NEW i \in 1 .. Innermost
      PROVE  /\ FieldOf(chunk.tables[i].table) = out.tables[i].table
             /\ FieldOf(chunk.tables[i].count) = out.tables[i].count
             /\ out.tables[i] = [ table |-> out.tables[i].table, count |-> out.tables[i].count ]
             /\ HeaderFits(out.tables[i].table)
  <2>1. /\ out.tables[i] \in Table
        /\ out.tables[i].table \in Nat /\ out.tables[i].count \in Nat
        /\ out.tables[i].table + 1 + out.tables[i].count < DynamicSize
    BY TableOf
  <2>2. out.tables[i].table \in 0 .. CountLimit /\ out.tables[i].count \in 0 .. CountLimit
    BY <2>1, FieldsAreWords DEF Table
  <2>3. HeaderFits(out.tables[i].table)
    BY <2>1, FieldsAreWords DEF HeaderFits
  <2>4. /\ FieldOf(BytesOf(out.tables[i].table)) = out.tables[i].table
        /\ FieldOf(BytesOf(out.tables[i].count)) = out.tables[i].count
    BY <2>2, FieldRestored
  <2>5. /\ chunk.tables[i].table = BytesOf(out.tables[i].table)
        /\ chunk.tables[i].count = BytesOf(out.tables[i].count)
    BY <1>3
  <2>6. out.tables[i] = [ table |-> out.tables[i].table, count |-> out.tables[i].count ]
    BY <2>1 DEF Table
  <2> QED BY <2>3, <2>4, <2>5, <2>6
<1>6. Believable(chunk)
  <2>1. \A i \in 1 .. Innermost : HeaderFits(FieldOf(chunk.tables[i].table))
    BY <1>5
  <2> QED BY <1>1, <1>2, <1>3, <1>4, <2>1 DEF Believable
<1>7. back = out.tables
  <2>1. back = [i \in 1 .. Innermost |-> out.tables[i]]
    BY <1>4, <1>5
  <2>2. out.tables = [i \in 1 .. Innermost |-> out.tables[i]]
    BY <1>2 DEF Innermost
  <2> QED BY <2>1, <2>2
<1>8. FieldOf(chunk.height) = out.height
  BY <1>2, <1>3, FieldsAreWords, FieldRestored
<1>9. Decoded(chunk) =
         [ screen |-> 0, upper |-> 0, window |-> chunk.window,
           height |-> FieldOf(chunk.height), stream1 |-> chunk.stream1, tables |-> back ]
  BY <1>6 DEF Decoded
<1> HIDE DEF back
<1>10. PICK e : e = [out EXCEPT !.screen = 0, !.upper = 0]
  OBVIOUS
<1>11. e = [ screen |-> 0, upper |-> 0, window |-> out.window, height |-> out.height,
             stream1 |-> out.stream1, tables |-> out.tables ]
  BY <1>1, <1>10, WithoutCapture, Uncaptured DEF Output
<1>12. Decoded(chunk) = e
  BY <1>3, <1>7, <1>8, <1>9, <1>11
<1> QED BY <1>10, <1>12 DEF ScreenSurvives, chunk

LEMMA ResumeKeeps ==
  ASSUME IInv, Resume
  PROVE  IInv'
<1>1. out' = [out EXCEPT !.screen = 0, !.upper = 0]
  BY ChunkBelieved DEF Resume, ScreenSurvives
<1>2. out' \in Output /\ out'.tables = out.tables
  BY <1>1, Uncaptured DEF IInv, TypeOK, Output
<1>3. sent' = sent /\ undisturbed' = undisturbed
  <2>1. Len(sent) = Len(out'.tables) /\ Len(undisturbed) = Len(out'.tables)
    BY <1>2 DEF IInv, TypeOK, Innermost
  <2> QED BY <2>1, SubSeqFull DEF Resume, IInv, HistoriesTyped
<1> QED BY <1>2, <1>3, SameTables DEF Resume

\* The actions that change the captured text or the window only.
LEMMA ScreenKeeps ==
  ASSUME IInv,
         \/ BeginInvocation \/ SplitWindow \/ SetWindow \/ SwitchScreen
         \/ \E length \in Nat : PrintToScreen(length)
  PROVE  IInv'
<1>1. out \in Output
  BY DEF IInv, TypeOK
<1>2. CASE BeginInvocation
  <2>1. out' \in Output /\ out'.tables = out.tables
    BY <1>1, <1>2, Uncaptured DEF BeginInvocation, Output
  <2> QED BY <1>2, <2>1, SameTables DEF BeginInvocation
<1>3. CASE SplitWindow
  <2>1. out' \in Output /\ out'.tables = out.tables
    BY <1>1, <1>3, Uncaptured DEF SplitWindow, Output
  <2> QED BY <1>3, <2>1, SameTables DEF SplitWindow
<1>4. CASE SetWindow
  BY <1>1, <1>4, SameTables DEF SetWindow, Output
<1>5. CASE SwitchScreen
  BY <1>1, <1>5, SameTables DEF SwitchScreen, Output
<1>6. CASE \E length \in Nat : PrintToScreen(length)
  <2>1. PICK length \in Nat : PrintToScreen(length)
    BY <1>6
  <2>2. \A n \in 0 .. MaxCaptured : Least(n + length, MaxCaptured) \in 0 .. MaxCaptured
    BY OutputAssumption DEF Least
  <2>3. out' \in Output /\ out'.tables = out.tables
    BY <1>1, <2>1, <2>2 DEF PrintToScreen, Output
  <2> QED BY <2>1, <2>3, SameTables DEF PrintToScreen
<1> QED BY <1>2, <1>3, <1>4, <1>5, <1>6

-----------------------------------------------------------------------------
\* The actions that change memory or the selected tables.

\* Which tables are still as they were written, after a step that leaves n of
\* them selected.
LEMMA DisturbedAfter ==
  ASSUME IInv, NEW written, NEW writer, NEW n \in 0 .. Innermost,
         Disturb(written, writer), Len(out'.tables) = n
  PROVE  /\ undisturbed' \in Seq(BOOLEAN) /\ Len(undisturbed') = n
         /\ \A i \in 1 .. n :
               undisturbed'[i] => /\ undisturbed[i]
                                  /\ i = writer \/ written \cap TextOf(out.tables[i]) = {}
<1>1. Innermost \in Nat /\ n \in Nat
  BY LenProperties DEF IInv, TypeOK, Output, Innermost
<1> DEFINE After(i) == undisturbed[i] /\ (i = writer \/ written \cap TextOf(out.tables[i]) = {})
<1>2. undisturbed' = [i \in 1 .. n |-> After(i)]
  BY DEF Disturb
<1>3. \A i \in 1 .. n : After(i) \in BOOLEAN
  OBVIOUS
<1>4. \A i \in 1 .. n : After(i) => /\ undisturbed[i]
                                    /\ i = writer \/ written \cap TextOf(out.tables[i]) = {}
  OBVIOUS
<1> HIDE DEF After
<1>5. undisturbed' \in Seq(BOOLEAN) /\ Len(undisturbed') = n
  BY <1>1, <1>2, <1>3
<1>6. \A i \in 1 .. n : undisturbed'[i] = After(i)
  BY <1>2
<1> QED BY <1>4, <1>5, <1>6

\* The text of a table stays where nothing was written over it.
LEMMA TextKept ==
  ASSUME IInv, NEW i \in 1 .. Innermost, undisturbed[i],
         NEW written, written \cap TextOf(out.tables[i]) = {},
         \A a \in Place \ written : bytes'[a] = bytes[a]
  PROVE  \A k \in 1 .. out.tables[i].count :
            bytes'[out.tables[i].table + 1 + k] = sent[i][k]
<1> DEFINE t == out.tables[i]
<1>1. /\ t.table \in Nat /\ t.count \in Nat /\ t.table + 1 + t.count < DynamicSize
      /\ DynamicSize \in Nat
  BY TableOf, OutputAssumption
<1>2. \A k \in 1 .. t.count : bytes[t.table + 1 + k] = sent[i][k]
  BY DEF IInv, TablesHoldText
<1>3. TextOf(t) = t.table + 2 .. t.table + 1 + t.count
  BY DEF TextOf
<1>4. TextOf(t) \cap written = {}
  OBVIOUS
<1> HIDE DEF t
<1> SUFFICES ASSUME NEW k \in 1 .. t.count
             PROVE  bytes'[t.table + 1 + k] = sent[i][k]
  BY DEF t
<1>5. t.table + 1 + k \in Place /\ t.table + 1 + k \in TextOf(t)
  BY <1>1, <1>3, SMTT(20) DEF Place
<1>6. bytes'[t.table + 1 + k] = bytes[t.table + 1 + k]
  BY <1>4, <1>5
<1> QED BY <1>2, <1>6

LEMMA StoreByteKeeps ==
  ASSUME IInv, StoreByte
  PROVE  IInv'
<1>1. PICK a \in Place : /\ bytes' = [bytes EXCEPT ![a] = 0]
                         /\ UNCHANGED <<out, sent>>
                         /\ Disturb({a}, 0) /\ outcome' = "done"
  BY DEF StoreByte
<1>2. Innermost \in Nat /\ Innermost' = Innermost /\ Len(out'.tables) = Innermost
  BY <1>1, LenProperties DEF IInv, TypeOK, Output, Innermost
<1>3. /\ undisturbed' \in Seq(BOOLEAN) /\ Len(undisturbed') = Innermost
      /\ \A i \in 1 .. Innermost :
            undisturbed'[i] => undisturbed[i] /\ (i = 0 \/ {a} \cap TextOf(out.tables[i]) = {})
  <2>1. Innermost \in 0 .. Innermost
    BY <1>2
  <2> QED BY <1>1, <1>2, <2>1, DisturbedAfter
<1>4. bytes' \in [Place -> Byte] /\ \A b \in Place \ {a} : bytes'[b] = bytes[b]
  <2>1. 0 \in Byte
    BY OutputAssumption DEF Byte
  <2> QED BY <1>1, <2>1 DEF IInv, TypeOK
<1>5. TypeOK' /\ HistoriesTyped'
  BY <1>1, <1>2, <1>3, <1>4 DEF IInv, TypeOK, HistoriesTyped
<1>6. TablesInside'
  BY <1>1, <1>2 DEF IInv, TablesInside
<1>7. TablesHoldText'
  <2> SUFFICES ASSUME NEW i \in 1 .. Innermost
               PROVE  /\ out.tables[i].count = Len(sent[i])
                      /\ undisturbed'[i] => \A k \in 1 .. out.tables[i].count :
                            bytes'[out.tables[i].table + 1 + k] = sent[i][k]
    BY <1>1, <1>2 DEF TablesHoldText
  <2>1. out.tables[i].count = Len(sent[i])
    BY DEF IInv, TablesHoldText
  <2>2. ASSUME undisturbed'[i]
        PROVE  \A k \in 1 .. out.tables[i].count :
                  bytes'[out.tables[i].table + 1 + k] = sent[i][k]
    <3>1. undisturbed[i] /\ {a} \cap TextOf(out.tables[i]) = {}
      BY <1>2, <1>3, <2>2
    <3> QED BY <1>4, <3>1, TextKept
  <2> QED BY <2>1, <2>2
<1> QED BY <1>5, <1>6, <1>7 DEF IInv

LEMMA SelectKeeps ==
  ASSUME IInv, Select
  PROVE  IInv'
<1>1. PICK address \in 0 .. DynamicSize :
         \/ /\ NestingLeft /\ HeaderFits(address)
            /\ out' = [out EXCEPT !.tables = Append(@, [table |-> address, count |-> 0])]
            /\ sent' = Append(sent, <<>>)
            /\ undisturbed' = Append(undisturbed, TRUE)
            /\ outcome' = "done"
            /\ UNCHANGED bytes
         \/ /\ outcome' = "fault"
            /\ UNCHANGED <<bytes, out, sent, undisturbed>>
  BY DEF Select
<1>2. CASE outcome' = "fault" /\ UNCHANGED <<bytes, out, sent, undisturbed>>
  BY <1>2, SameTables DEF IInv, TypeOK
<1>3. CASE /\ NestingLeft /\ HeaderFits(address)
           /\ out' = [out EXCEPT !.tables = Append(@, [table |-> address, count |-> 0])]
           /\ sent' = Append(sent, <<>>)
           /\ undisturbed' = Append(undisturbed, TRUE)
           /\ outcome' = "done"
           /\ UNCHANGED bytes
  <2> DEFINE new == [table |-> address, count |-> 0]
  <2>1. new \in Table /\ new.table = address /\ new.count = 0
    BY <1>3, OutputAssumption, CountLimitNat DEF HeaderFits, Table, Place
  <2>2. new.table + 1 + new.count < DynamicSize
    BY <1>3, OutputAssumption, <2>1 DEF HeaderFits
  <2> HIDE DEF new
  <2>3. out \in Output /\ out.tables \in Seq(Table) /\ Innermost \in Nat
    BY LenProperties DEF IInv, TypeOK, Output, Innermost
  <2>4. out'.tables = Append(out.tables, new)
    BY <1>3, <2>3 DEF new, Output
  <2>5. /\ out'.tables \in Seq(Table) /\ Innermost' = Innermost + 1
        /\ \A i \in 1 .. Innermost : out'.tables[i] = out.tables[i]
        /\ out'.tables[Innermost + 1] = new
    BY <2>1, <2>3, <2>4, AppendProperties DEF Innermost
  <2>6. out' \in Output
    BY <1>3, <2>3, <2>4, <2>5 DEF Output
  <2>7. /\ sent' \in Seq(Seq(Character)) /\ Len(sent') = Innermost + 1
        /\ \A i \in 1 .. Innermost : sent'[i] = sent[i]
        /\ sent'[Innermost + 1] = <<>>
    <3>1. <<>> \in Seq(Character)
      BY EmptySeq
    <3> QED BY <1>3, <3>1, AppendProperties DEF IInv, TypeOK, HistoriesTyped
  <2>8. /\ undisturbed' \in Seq(BOOLEAN) /\ Len(undisturbed') = Innermost + 1
        /\ \A i \in 1 .. Innermost : undisturbed'[i] = undisturbed[i]
    <3>1. undisturbed \in Seq(BOOLEAN) /\ Len(undisturbed) = Innermost
      BY DEF IInv, TypeOK, HistoriesTyped
    <3>2. TRUE \in BOOLEAN /\ undisturbed' = Append(undisturbed, TRUE)
      BY <1>3
    <3> QED BY <3>1, <3>2, AppendProperties, ZenonT(40)
  <2>9. Innermost + 1 <= StreamDepth
    BY <1>3, <2>3, OutputAssumption DEF NestingLeft
  <2>10. TypeOK' /\ HistoriesTyped'
    BY <1>3, <2>5, <2>6, <2>7, <2>8, <2>9 DEF IInv, TypeOK, HistoriesTyped
  <2>11. \A i \in 1 .. Innermost + 1 : i \in 1 .. Innermost \/ i = Innermost + 1
    BY <2>3
  <2>12. TablesInside'
    BY <2>2, <2>5, <2>11 DEF IInv, TablesInside
  <2>13. TablesHoldText'
    <3>1. ASSUME NEW i \in 1 .. Innermost
          PROVE  /\ out'.tables[i].count = Len(sent'[i])
                 /\ undisturbed'[i] => \A k \in 1 .. out'.tables[i].count :
                       bytes'[out'.tables[i].table + 1 + k] = sent'[i][k]
      <4>1. /\ out.tables[i].count = Len(sent[i])
            /\ undisturbed[i] => \A k \in 1 .. out.tables[i].count :
                                    bytes[out.tables[i].table + 1 + k] = sent[i][k]
        BY DEF IInv, TablesHoldText
      <4>2. /\ out'.tables[i] = out.tables[i] /\ sent'[i] = sent[i]
            /\ undisturbed'[i] = undisturbed[i] /\ bytes' = bytes
        BY <1>3, <2>5, <2>7, <2>8
      <4> QED BY <4>1, <4>2, Zenon
    <3>2. /\ out'.tables[Innermost + 1].count = Len(sent'[Innermost + 1])
          /\ 1 .. out'.tables[Innermost + 1].count = {}
      BY <2>1, <2>5, <2>7, EmptySeq
    <3> QED BY <2>5, <2>11, <3>1, <3>2 DEF TablesHoldText
  <2> QED BY <2>10, <2>12, <2>13 DEF IInv
<1> QED BY <1>1, <1>2, <1>3

LEMMA CharacterByte == \A c \in Character : c \in Byte
<1>1. ByteLimit \in Nat /\ \A c \in Character : c \in 1 .. ByteLimit - 1
  BY OutputAssumption
<1> QED BY <1>1 DEF Byte

\* What print writes and how much of it fits.
LEMMA TextTyped ==
  ASSUME NEW text \in Character \X Character \cup {<<c>> : c \in Character}
  PROVE  text \in Seq(Character) /\ Len(text) \in 1 .. 2
<1>1. CASE text \in Character \X Character
  <2>1. PICK c \in Character, d \in Character : text = <<c, d>>
    BY <1>1
  <2> QED BY <2>1
<1>2. CASE text \in {<<c>> : c \in Character}
  <2>1. PICK c \in Character : text = <<c>>
    BY <1>2
  <2> QED BY <2>1
<1> QED BY <1>1, <1>2

LEMMA RoomLeft ==
  ASSUME IInv, Innermost > 0
  PROVE  LET t == out.tables[Innermost]
         IN  /\ Room(t) \in Nat /\ t.count + Room(t) <= CountLimit
             /\ t.table + 1 + t.count + Room(t) < DynamicSize
<1>1. Innermost \in Nat /\ Innermost \in 1 .. Innermost
  BY LenProperties DEF IInv, TypeOK, Output, Innermost
<1> DEFINE t == out.tables[Innermost]
<1>2. /\ t \in Table /\ t.table \in Nat /\ t.count \in Nat
      /\ t.table + 1 + t.count < DynamicSize
  BY <1>1, TableOf
<1>3. t.count <= CountLimit /\ CountLimit \in Nat /\ DynamicSize \in Nat
  BY <1>2, CountLimitNat, OutputAssumption DEF Table
<1> HIDE DEF t
<1>4. Room(t) \in Nat /\ t.count + Room(t) <= CountLimit
      /\ t.table + 1 + t.count + Room(t) < DynamicSize
  BY <1>2, <1>3 DEF Room
<1> QED BY <1>4 DEF t

\* Where the k-th character of a table with c characters is, counted from the
\* end of them.
LEMMA TextIndex ==
  ASSUME NEW p \in Int, NEW c \in Int, NEW k \in Int, NEW a \in Int, a = p + 1 + k
  PROVE  a - (p + 2 + c) + 1 = k - c
OBVIOUS

LEMMA PrintToTableKeeps ==
  ASSUME IInv, Innermost > 0, NEW text \in Seq(Character), PrintToTable(text)
  PROVE  IInv'
<1> DEFINE last == Innermost
           t == out.tables[last]
           n == Least(Room(t), Len(text))
           start == t.table + 2 + t.count
           written == start .. start + n - 1
           grown == Counted(t, n, Len(text))
           part == SubSeq(text, 1, n)
<1>1. /\ bytes' = [a \in Place |->
                     IF a \in written THEN text[a - start + 1] ELSE bytes[a]]
      /\ out' = [out EXCEPT !.tables[last] = grown]
      /\ sent' = [sent EXCEPT ![last] = @ \o part]
      /\ Disturb(written, last)
      /\ outcome' \in {"done", "fault"}
  BY DEF PrintToTable
<1>2. /\ last \in Nat /\ last \in 1 .. last /\ Innermost = last /\ last = Len(out.tables)
      /\ last \in 0 .. last
  BY LenProperties DEF IInv, TypeOK, Output, Innermost
<1>3. /\ t \in Table /\ t.table \in Nat /\ t.count \in Nat
      /\ sent[last] \in Seq(Character) /\ t.count = Len(sent[last])
      /\ out.tables \in Seq(Table)
  BY <1>2, TableOf
<1>4. /\ n \in 0 .. Len(text) /\ t.count + n <= CountLimit
      /\ t.table + 1 + t.count + n < DynamicSize
  <2>1. /\ Room(t) \in Nat /\ t.count + Room(t) <= CountLimit
        /\ t.table + 1 + t.count + Room(t) < DynamicSize
    BY RoomLeft
  <2>2. CountLimit \in Nat /\ DynamicSize \in Nat /\ Len(text) \in Nat
    BY CountLimitNat, OutputAssumption, LenProperties
  <2> HIDE DEF t
  <2> QED BY <1>3, <2>1, <2>2 DEF Least
<1>5. grown \in Table /\ grown.table = t.table /\ grown.count = t.count + n
  <2> HIDE DEF t, n
  <2>1. t.count + n \in 0 .. CountLimit
    BY <1>3, <1>4, CountLimitNat
  <2> QED BY <1>3, <2>1 DEF Counted, Table
<1>6. /\ part \in Seq(Character) /\ Len(part) = n
      /\ \A i \in 1 .. n : part[i] = text[i]
  <2> HIDE DEF n
  <2>1. Len(text) \in Nat /\ \A i \in 1 .. n : text[i] \in Character
    BY <1>4, LenProperties, ElementOfSeq
  <2> QED BY <1>4, <2>1, SubSeqProperties
<1>7. \A i \in 1 .. n : text[i] \in Byte
  <2> HIDE DEF n
  <2>1. Len(text) \in Nat /\ \A i \in 1 .. n : text[i] \in Character
    BY <1>4, LenProperties, ElementOfSeq
  <2> QED BY <2>1, CharacterByte
<1>8. start \in Nat /\ start = t.table + 2 + t.count /\ written = start .. start + n - 1
  <2> HIDE DEF t, n
  <2> QED BY <1>3
<1> HIDE DEF t, n, start, grown, part, last
<1>9. /\ bytes' \in [Place -> Byte]
      /\ \A a \in Place \ written : bytes'[a] = bytes[a]
      /\ \A a \in Place : a \in written => bytes'[a] = text[a - start + 1]
  <2>1. \A a \in written : a - start + 1 \in 1 .. n
    BY <1>4, <1>8
  <2>2. bytes \in [Place -> Byte]
    BY DEF IInv, TypeOK
  <2> HIDE DEF written
  <2> QED BY <1>1, <1>7, <2>1, <2>2
<1>10. out'.tables = [out.tables EXCEPT ![last] = grown]
  BY <1>1 DEF IInv, TypeOK, Output
<1>11. /\ out'.tables \in Seq(Table) /\ Innermost' = last
       /\ Len(out'.tables) = last
       /\ out'.tables[last] = grown
       /\ \A i \in 1 .. last : i # last => out'.tables[i] = out.tables[i]
  BY <1>2, <1>3, <1>5, <1>10, ExceptSeq DEF Innermost
<1>12. out' \in Output
  <2>1. out \in Output
    BY DEF IInv, TypeOK
  <2>2. out' = [out EXCEPT !.tables = [out.tables EXCEPT ![last] = grown]]
    BY <1>1, <2>1 DEF Output
  <2> QED BY <1>10, <1>11, <2>1, <2>2 DEF Output
<1>13. /\ sent' \in Seq(Seq(Character)) /\ Len(sent') = last
       /\ sent'[last] = sent[last] \o part
       /\ \A i \in 1 .. last : i # last => sent'[i] = sent[i]
  <2>1. sent[last] \o part \in Seq(Character)
    BY <1>3, <1>6, ConcatProperties
  <2>2. sent \in Seq(Seq(Character)) /\ Len(sent) = last
    BY <1>2 DEF IInv, TypeOK, HistoriesTyped
  <2>3. sent' = [sent EXCEPT ![last] = sent[last] \o part]
    BY <1>1
  <2> QED BY <1>2, <2>1, <2>2, <2>3, ExceptSeq
<1>14. /\ undisturbed' \in Seq(BOOLEAN) /\ Len(undisturbed') = last
       /\ \A i \in 1 .. last :
             undisturbed'[i] => /\ undisturbed[i]
                                /\ i = last \/ written \cap TextOf(out.tables[i]) = {}
  <2> HIDE DEF written
  <2> QED BY <1>1, <1>2, <1>11, DisturbedAfter, ZenonT(40)
<1>15. TypeOK' /\ HistoriesTyped'
  BY <1>1, <1>2, <1>9, <1>11, <1>12, <1>13, <1>14 DEF IInv, TypeOK, HistoriesTyped
<1>16. TablesInside'
  <2> SUFFICES ASSUME NEW i \in 1 .. last
               PROVE  out'.tables[i].table + 1 + out'.tables[i].count < DynamicSize
    BY <1>11 DEF TablesInside
  <2>1. CASE i = last
    <3>1. t.table + 1 + (t.count + n) < DynamicSize
      BY <1>3, <1>4, LenProperties
    <3> QED BY <1>5, <1>11, <2>1, <3>1
  <2>2. CASE i # last
    BY <1>2, <1>11, <2>2 DEF IInv, TablesInside
  <2> QED BY <2>1, <2>2
<1>17. \A k \in 1 .. t.count + n : (sent[last] \o part)[k] =
          IF k <= t.count THEN sent[last][k] ELSE part[k - t.count]
  BY <1>3, <1>6, ConcatProperties
<1>18. /\ grown.count = Len(sent'[last])
       /\ undisturbed'[last] =>
             \A k \in 1 .. grown.count : bytes'[grown.table + 1 + k] = sent'[last][k]
  <2>1. grown.count = Len(sent'[last])
    <3>1. Len(sent[last] \o part) = Len(sent[last]) + Len(part)
      BY <1>3, <1>6, ConcatProperties
    <3> QED BY <1>3, <1>5, <1>6, <1>13, <3>1
  <2>2. ASSUME undisturbed'[last], NEW k \in 1 .. t.count + n
        PROVE  bytes'[t.table + 1 + k] = sent'[last][k]
    <3>1. undisturbed[last]
      BY <1>2, <1>14, <2>2
    <3>2. DynamicSize \in Nat /\ t.table + 1 + k \in Int /\ n \in Nat
      BY <1>3, <1>4, OutputAssumption, LenProperties
    <3>3. t.table + 1 + k \in Place
      BY <1>3, <1>4, <3>2, SMTT(20) DEF Place
    <3>4. CASE k <= t.count
      <4>1. t.table + 1 + k \notin written
        BY <1>3, <1>8, <3>2, <3>4, SMTT(20)
      <4>2. bytes'[t.table + 1 + k] = bytes[t.table + 1 + k]
        BY <1>9, <3>3, <4>1
      <4>3. k \in 1 .. t.count
        BY <1>3, <3>4, <3>2
      <4>4. bytes[t.table + 1 + k] = sent[last][k]
        BY <1>2, <3>1, <4>3 DEF IInv, TablesHoldText, t
      <4> QED BY <1>13, <1>17, <3>4, <4>2, <4>4
    <3>5. CASE k > t.count
      <4>1. n \in Int /\ k \in Int /\ k <= t.count + n
        BY <1>3, <3>2
      <4>2. k - t.count \in 1 .. n /\ ~(k <= t.count)
        BY <1>3, <3>5, <4>1
      <4>3. PICK a : a = t.table + 1 + k
        OBVIOUS
      <4>4. /\ a \in Int /\ a >= start /\ a <= start + n - 1
            /\ a - start + 1 = k - t.count
        <5>1. PICK p \in Int, c \in Int : p = t.table /\ c = t.count
          BY <1>3
        <5>2. a = p + 1 + k /\ start = p + 2 + c /\ k > c /\ k <= c + n
          BY <1>8, <3>5, <4>1, <4>3, <5>1
        <5>3. a \in Int /\ start \in Int
          BY <4>1, <5>2
        <5>4. a >= start /\ a <= start + n - 1
          BY <4>1, <5>2, <5>3
        <5>5. a - start + 1 = k - c
          BY <4>1, <5>2, <5>3, TextIndex
        <5> QED BY <5>1, <5>3, <5>4, <5>5
      <4>6. a \in written /\ a \in Place
        BY <1>8, <3>2, <3>3, <4>3, <4>4
      <4>7. bytes'[a] = text[k - t.count]
        <5> HIDE DEF written
        <5> QED BY <1>9, <4>4, <4>6
      <4>8. sent'[last][k] = part[k - t.count]
        BY <1>13, <1>17, <4>2
      <4> QED BY <1>6, <4>2, <4>3, <4>7, <4>8
    <3> QED BY <1>3, <3>2, <3>4, <3>5
  <2> QED BY <1>5, <2>1, <2>2
<1>19. TablesHoldText'
  <2> SUFFICES ASSUME NEW i \in 1 .. last
               PROVE  /\ out'.tables[i].count = Len(sent'[i])
                      /\ undisturbed'[i] => \A k \in 1 .. out'.tables[i].count :
                            bytes'[out'.tables[i].table + 1 + k] = sent'[i][k]
    BY <1>11 DEF TablesHoldText
  <2>1. CASE i = last
    BY <1>11, <1>18, <2>1
  <2>2. CASE i # last
    <3>1. out'.tables[i] = out.tables[i] /\ sent'[i] = sent[i]
      BY <1>11, <1>13, <2>2
    <3>2. out.tables[i].count = Len(sent[i])
      BY <1>2 DEF IInv, TablesHoldText
    <3>3. ASSUME undisturbed'[i]
          PROVE  \A k \in 1 .. out.tables[i].count :
                    bytes'[out.tables[i].table + 1 + k] = sent[i][k]
      <4>1. undisturbed[i] /\ written \cap TextOf(out.tables[i]) = {}
        BY <1>14, <2>2, <3>3
      <4> HIDE DEF written
      <4> QED BY <1>2, <1>9, <4>1, TextKept, ZenonT(40)
    <3> QED BY <3>1, <3>2, <3>3
  <2> QED BY <2>1, <2>2
<1> QED BY <1>15, <1>16, <1>19 DEF IInv

\* What closing the innermost table leaves behind.
LEMMA Closed ==
  ASSUME IInv, Deselect, Innermost > 0
  PROVE  LET t == out.tables[Innermost]
         IN  /\ bytes' \in [Place -> Byte]
             /\ bytes'[t.table] = HighByte(t.count)
             /\ bytes'[t.table + 1] = LowByte(t.count)
             /\ \A a \in Place \ {t.table, t.table + 1} : bytes'[a] = bytes[a]
             /\ t.count \in 0 .. CountLimit
<1> DEFINE t == out.tables[Innermost]
<1>1. Innermost \in Nat /\ Innermost \in 1 .. Innermost
  BY LenProperties DEF IInv, TypeOK, Output, Innermost
<1>2. /\ t \in Table /\ t.table \in Nat /\ t.count \in Nat
      /\ t.table + 1 + t.count < DynamicSize /\ DynamicSize \in Nat
  BY <1>1, TableOf, OutputAssumption
<1>3. bytes' = [bytes EXCEPT ![t.table] = HighByte(t.count), ![t.table + 1] = LowByte(t.count)]
  BY DEF Deselect
<1> HIDE DEF t
<1>4. t.table \in Place /\ t.table + 1 \in Place /\ t.table # t.table + 1
  BY <1>2 DEF Place
<1>5. t.count \in 0 .. CountLimit
  BY <1>2 DEF Table
<1>6. HighByte(t.count) \in Byte /\ LowByte(t.count) \in Byte
  BY <1>5, CountFits
<1>7. bytes \in [Place -> Byte]
  BY DEF IInv, TypeOK
<1>8. /\ bytes' \in [Place -> Byte]
      /\ bytes'[t.table] = HighByte(t.count)
      /\ bytes'[t.table + 1] = LowByte(t.count)
      /\ \A a \in Place \ {t.table, t.table + 1} : bytes'[a] = bytes[a]
  BY <1>3, <1>4, <1>6, <1>7
<1> QED BY <1>5, <1>8 DEF t

LEMMA DeselectKeeps ==
  ASSUME IInv, Deselect
  PROVE  IInv'
<1> DEFINE last == Innermost
           t == out.tables[last]
           head == {t.table, t.table + 1}
<1>1. CASE Innermost = 0
  <2>1. outcome' = "done" /\ UNCHANGED <<bytes, out, sent, undisturbed>>
    BY <1>1 DEF Deselect
  <2> QED BY <2>1, SameTables DEF IInv, TypeOK
<1>2. CASE Innermost > 0
  <2>1. /\ out' = [out EXCEPT !.tables = SubSeq(out.tables, 1, last - 1)]
        /\ sent' = SubSeq(sent, 1, last - 1)
        /\ Disturb(head, last)
        /\ outcome' = "closed"
    BY <1>2 DEF Deselect
  <2>2. /\ bytes' \in [Place -> Byte]
        /\ \A a \in Place \ head : bytes'[a] = bytes[a]
    BY <1>2, Closed
  <2>3. /\ last \in Nat \ {0} /\ Innermost = last /\ last = Len(out.tables)
        /\ out.tables \in Seq(Table) /\ out \in Output
    BY <1>2, LenProperties DEF IInv, TypeOK, Output, Innermost
  <2> HIDE DEF last, t, head
  <2>4. /\ out'.tables = SubSeq(out.tables, 1, last - 1)
        /\ out'.tables \in Seq(Table) /\ Len(out'.tables) = last - 1
        /\ \A i \in 1 .. last - 1 : out'.tables[i] = out.tables[i]
    <3>1. out'.tables = SubSeq(out.tables, 1, last - 1)
      BY <2>1, <2>3 DEF Output
    <3>2. \A i \in 1 .. last - 1 : out.tables[i] \in Table
      BY <2>3, ElementOfSeq
    <3> QED BY <2>3, <3>1, <3>2, SubSeqProperties
  <2>5. Innermost' = last - 1
    BY <2>4 DEF Innermost
  <2>6. out' \in Output
    BY <2>1, <2>3, <2>4 DEF Output
  <2>7. /\ sent' \in Seq(Seq(Character)) /\ Len(sent') = last - 1
        /\ \A i \in 1 .. last - 1 : sent'[i] = sent[i]
    <3>1. sent \in Seq(Seq(Character)) /\ Len(sent) = last
      BY <2>3 DEF IInv, TypeOK, HistoriesTyped
    <3>2. \A i \in 1 .. last - 1 : sent[i] \in Seq(Character)
      BY <2>3, <3>1, ElementOfSeq
    <3>3. 1 \in Int /\ last - 1 \in Int /\ last - 1 >= 0
      BY <2>3
    <3> DEFINE Texts == Seq(Character)
               kept == SubSeq(sent, 1, last - 1)
    <3>4. \A i \in 1 .. last - 1 : sent[i] \in Texts
      BY <3>2
    <3> HIDE DEF Texts
    <3>5. /\ kept \in Seq(Texts)
          /\ Len(kept) = IF 1 <= last - 1 THEN last - 1 - 1 + 1 ELSE 0
          /\ \A i \in 1 .. last - 1 - 1 + 1 : kept[i] = sent[1 + i - 1]
      BY <3>3, <3>4, SubSeqProperties
    <3>6. /\ Len(kept) = last - 1
          /\ \A i \in 1 .. last - 1 : i \in 1 .. last - 1 - 1 + 1 /\ 1 + i - 1 = i
      BY <2>3, <3>5
    <3>7. sent' = kept /\ kept \in Seq(Seq(Character))
      BY <2>1, <3>5 DEF Texts
    <3> HIDE DEF kept
    <3> QED BY <3>5, <3>6, <3>7
  <2>8. /\ undisturbed' \in Seq(BOOLEAN) /\ Len(undisturbed') = last - 1
        /\ \A i \in 1 .. last - 1 :
              undisturbed'[i] => /\ undisturbed[i]
                                 /\ i = last \/ head \cap TextOf(out.tables[i]) = {}
    <3>1. last - 1 \in 0 .. Innermost
      BY <2>3
    <3> QED BY <2>1, <2>4, <3>1, DisturbedAfter
  <2>9. last - 1 <= StreamDepth
    <3>1. last <= StreamDepth /\ StreamDepth \in Nat
      BY <2>3, OutputAssumption DEF IInv, TypeOK
    <3> QED BY <2>3, <3>1
  <2>10. TypeOK' /\ HistoriesTyped'
    BY <2>1, <2>2, <2>5, <2>6, <2>7, <2>8, <2>9 DEF TypeOK, HistoriesTyped
  <2>11. \A i \in 1 .. last - 1 : i \in 1 .. Innermost /\ i # last
    BY <2>3
  <2>12. TablesInside'
    BY <2>4, <2>5, <2>11 DEF IInv, TablesInside
  <2>13. TablesHoldText'
    <3> SUFFICES ASSUME NEW i \in 1 .. last - 1
                 PROVE  /\ out'.tables[i].count = Len(sent'[i])
                        /\ undisturbed'[i] => \A k \in 1 .. out'.tables[i].count :
                              bytes'[out'.tables[i].table + 1 + k] = sent'[i][k]
      BY <2>5 DEF TablesHoldText
    <3>1. out'.tables[i] = out.tables[i] /\ sent'[i] = sent[i]
      BY <2>4, <2>7
    <3>2. out.tables[i].count = Len(sent[i])
      BY <2>11 DEF IInv, TablesHoldText
    <3>3. ASSUME undisturbed'[i]
          PROVE  \A k \in 1 .. out.tables[i].count :
                    bytes'[out.tables[i].table + 1 + k] = sent[i][k]
      <4>1. undisturbed[i] /\ head \cap TextOf(out.tables[i]) = {}
        BY <2>8, <2>11, <3>3
      <4> QED BY <2>2, <2>11, <4>1, TextKept
    <3> QED BY <3>1, <3>2, <3>3
  <2> QED BY <2>10, <2>12, <2>13 DEF IInv
<1>3. Innermost \in Nat
  BY LenProperties DEF IInv, TypeOK, Output, Innermost
<1> QED BY <1>1, <1>2, <1>3

-----------------------------------------------------------------------------
LEMMA PrintTextKeeps ==
  ASSUME IInv, PrintText
  PROVE  IInv'
<1>1. PICK text \in Character \X Character \cup {<<c>> : c \in Character} :
         \/ Redirected /\ PrintToTable(text)
         \/ ~Redirected /\ PrintToScreen(Len(text))
  BY DEF PrintText
<1>2. text \in Seq(Character) /\ Len(text) \in Nat
  BY TextTyped
<1>3. CASE Redirected /\ PrintToTable(text)
  BY <1>2, <1>3, PrintToTableKeeps DEF Redirected
<1>4. CASE ~Redirected /\ PrintToScreen(Len(text))
  BY <1>2, <1>4, ScreenKeeps
<1> QED BY <1>1, <1>3, <1>4

LEMMA InitKeeps == Init => IInv
<1> SUFFICES ASSUME Init
             PROVE  IInv
  OBVIOUS
<1>1. /\ out \in Output /\ out.tables = <<>> /\ Innermost = 0
  BY InitialOutputType DEF Init, Innermost
<1>2. /\ sent \in Seq(Seq(Character)) /\ Len(sent) = 0
      /\ undisturbed \in Seq(BOOLEAN) /\ Len(undisturbed) = 0
  BY EmptySeq DEF Init
<1>3. TypeOK
  BY <1>1, <1>2, BlankType, OutputAssumption DEF Init, TypeOK
<1>4. TablesInside /\ TablesHoldText
  BY <1>1 DEF TablesInside, TablesHoldText
<1> QED BY <1>2, <1>3, <1>4 DEF IInv, HistoriesTyped

LEMMA NextKeeps ==
  ASSUME IInv, [Next]_vars
  PROVE  IInv'
<1>1. CASE Restart
  BY <1>1, BlankType, ResetKeeps DEF Restart
<1>2. CASE RestoreWithoutScreen
  BY <1>2, ResetKeeps DEF RestoreWithoutScreen, IInv, TypeOK
<1>3. CASE Resume
  BY <1>3, ResumeKeeps
<1>4. CASE PrintText
  BY <1>4, PrintTextKeeps
<1>5. CASE BeginInvocation \/ SplitWindow \/ SetWindow \/ SwitchScreen
  BY <1>5, ScreenKeeps
<1>6. CASE Select
  BY <1>6, SelectKeeps
<1>7. CASE Deselect
  BY <1>7, DeselectKeeps
<1>8. CASE StoreByte
  BY <1>8, StoreByteKeeps
<1>9. CASE UNCHANGED vars
  BY <1>9, SameTables DEF vars, IInv, TypeOK
<1> QED BY <1>1, <1>2, <1>3, <1>4, <1>5, <1>6, <1>7, <1>8, <1>9 DEF Next

LEMMA AlwaysIInv == Spec => []IInv
BY InitKeeps, NextKeeps, PTL DEF Spec

\* The variables have their types, and no more tables are selected than the
\* code allows.
THEOREM OutputTyped == Spec => []TypeOK
<1>1. IInv => TypeOK
  BY DEF IInv
<1> QED BY <1>1, AlwaysIInv, PTL

\* printText never puts a character of a selected table anywhere but at its end,
\* and never counts one that it dropped, whatever is selected inside it, printed,
\* deselected or rebuilt in between.
THEOREM TextAlwaysHeld == Spec => []TablesHoldText
<1>1. IInv => TablesHoldText
  BY DEF IInv
<1> QED BY <1>1, AlwaysIInv, PTL

\* decodeOutputState believes every chunk that encodeOutputState makes, and
\* brings back what it was made from.
THEOREM ScreenAlwaysSurvives == Spec => []ScreenSurvives
<1>1. IInv => ScreenSurvives
  BY ChunkBelieved
<1> QED BY <1>1, AlwaysIInv, PTL

\* output_stream -3 leaves the number of characters that were printed in the
\* table's first word, high byte first, and does not touch the characters.
THEOREM ClosedTablesComplete == Spec => ClosedTableComplete
<1> DEFINE t == out.tables[Innermost]
           Complete == /\ WordAt(t.table) = Len(sent[Innermost])
                       /\ undisturbed[Innermost] =>
                             \A k \in 1 .. t.count :
                                bytes'[t.table + 1 + k] = sent[Innermost][k]
<1>1. ASSUME IInv, Next, outcome' = "closed"
      PROVE  Complete
  <2>1. Deselect /\ Innermost > 0
    <3>1. Innermost \in Nat
      BY <1>1, LenProperties DEF IInv, TypeOK, Output, Innermost
    <3>2. Deselect
      BY <1>1 DEF Next, BeginInvocation, Restart, RestoreWithoutScreen, Reset, Resume,
                  PrintText, PrintToTable, PrintToScreen, SplitWindow, SetWindow,
                  SwitchScreen, Select, StoreByte
    <3> QED BY <1>1, <3>1, <3>2 DEF Deselect
  <2>2. Innermost \in 1 .. Innermost
    BY <1>1, <2>1, LenProperties DEF IInv, TypeOK, Output, Innermost
  <2>3. /\ bytes'[t.table] = HighByte(t.count) /\ bytes'[t.table + 1] = LowByte(t.count)
        /\ \A a \in Place \ {t.table, t.table + 1} : bytes'[a] = bytes[a]
        /\ t.count \in 0 .. CountLimit
    BY <1>1, <2>1, Closed
  <2>4. /\ t.table \in Nat /\ t.count \in Nat /\ t.table + 1 + t.count < DynamicSize
        /\ t.count = Len(sent[Innermost])
    BY <1>1, <2>2, TableOf
  <2>5. WordAt(t.table) = Len(sent[Innermost])
    <3> HIDE DEF t
    <3>1. HighByte(t.count) * ByteLimit + LowByte(t.count) = t.count
      BY <2>3, CountFits
    <3> QED BY <2>3, <2>4, <3>1 DEF WordAt
  <2>6. ASSUME undisturbed[Innermost]
        PROVE  \A k \in 1 .. t.count : bytes'[t.table + 1 + k] = sent[Innermost][k]
    <3>1. {t.table, t.table + 1} \cap TextOf(t) = {}
      <4> HIDE DEF t
      <4> QED BY <2>4 DEF TextOf
    <3> QED BY <1>1, <2>2, <2>3, <2>6, <3>1, TextKept
  <2> QED BY <2>5, <2>6
<1>2. ASSUME IInv, [Next]_vars
      PROVE  [outcome' = "closed" => Complete]_vars
  BY <1>1, <1>2
<1> QED BY <1>2, AlwaysIInv, PTL DEF Spec, ClosedTableComplete

\* While a table is selected no instruction captures text for a window.
THEOREM AlwaysSilentWhileRedirected == Spec => SilentWhileRedirected
<1> DEFINE Silent == /\ out'.screen \in {0, out.screen}
                     /\ out'.upper \in {0, out.upper}
<1>1. ASSUME IInv, Next, Innermost > 0
      PROVE  Silent
  <2>1. out \in Output
    BY <1>1 DEF IInv, TypeOK
  <2>2. CASE Restart \/ RestoreWithoutScreen
    BY <2>2 DEF Restart, RestoreWithoutScreen, Reset, InitialOutput
  <2>3. CASE Resume
    <3>1. out' = [out EXCEPT !.screen = 0, !.upper = 0]
      BY <1>1, <2>3, ChunkBelieved DEF Resume, ScreenSurvives
    <3> QED BY <2>1, <3>1 DEF Output
  <2>4. CASE PrintText
    <3>1. PICK text : PrintToTable(text)
      BY <1>1, <2>4 DEF PrintText, Redirected
    <3>2. PICK tables : out' = [out EXCEPT !.tables = tables]
      BY <3>1 DEF PrintToTable
    <3> QED BY <2>1, <3>2 DEF Output
  <2>5. CASE BeginInvocation
    BY <2>1, <2>5 DEF BeginInvocation, Output
  <2>6. CASE SplitWindow
    BY <2>1, <2>6 DEF SplitWindow, Output
  <2>7. CASE SetWindow \/ SwitchScreen
    BY <2>1, <2>7 DEF SetWindow, SwitchScreen, Output
  <2>8. CASE Select
    BY <2>1, <2>8 DEF Select, Output
  <2>9. CASE Deselect
    BY <2>1, <2>9 DEF Deselect, Output
  <2>10. CASE StoreByte
    BY <2>10 DEF StoreByte
  <2> QED BY <1>1, <2>2, <2>3, <2>4, <2>5, <2>6, <2>7, <2>8, <2>9, <2>10 DEF Next
<1>2. ASSUME IInv, [Next]_vars
      PROVE  [Innermost > 0 => Silent]_vars
  BY <1>1, <1>2
<1> QED BY <1>2, AlwaysIInv, PTL DEF Spec, SilentWhileRedirected

=============================================================================
