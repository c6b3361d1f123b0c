----------------------------- MODULE CodeProofs -----------------------------
(***************************************************************************)
(* Proofs about what the interpreter reads from a story: instructions      *)
(* (Decoder), texts and words (ZText), and texts where memory has them     *)
(* (StoryText).  Each byte of an instruction is checked against the        *)
(* encoding of what has been read so far: the decoder keeps that what it   *)
(* has read is the encoding of what it has made of it, up to the byte it   *)
(* expects next.  A text is decoded from the left and its grammar read     *)
(* from the right: what has been printed so far, and what the grammar says *)
(* of the rest, are always what the grammar says of the whole.             *)
(***************************************************************************)
EXTENDS Decoder, StoryText, NumberFacts, SequenceTheorems, FiniteSetTheorems, TLAPS

-----------------------------------------------------------------------------
(* Sequences that are put together.                                        *)

\* A join begins empty and grows by one piece at a time.
LEMMA JoinsUnfold ==
  ASSUME NEW n \in Nat, NEW piece, NEW f, Joins(f, n, piece)
  PROVE  f[0] = <<>> /\ \A i \in 1 .. n : f[i] = f[i - 1] \o piece[i]
<1>1. 0 \in 0 .. n /\ \A i \in 1 .. n : i \in 0 .. n /\ i # 0
  OBVIOUS
<1>2. \A i \in 0 .. n : f[i] = IF i = 0 THEN <<>> ELSE f[i - 1] \o piece[i]
  BY DEF Joins
<1> QED BY <1>1, <1>2

\* All of the sequences, one after the other, are what a loop makes of them.
LEMMA FlattenIs ==
  ASSUME NEW B, NEW ss \in Seq(Seq(B)), NEW f, Joins(f, Len(ss), ss)
  PROVE  FlattenSeq(ss) = f[Len(ss)]
<1> DEFINE n == Len(ss)
           Steps(g) == [i \in 1 .. n |-> IF i = 1 THEN ss[i] ELSE g[i - 1] \o ss[i]]
           g == CHOOSE h : h = Steps(h)
<1>1. n \in Nat /\ ss \in [1 .. n -> Seq(B)]
  BY LenProperties
<1>2. f[0] = <<>> /\ \A i \in 1 .. n : f[i] = f[i - 1] \o ss[i]
  BY <1>1, JoinsUnfold
<1>3. CASE n = 0
  BY <1>2, <1>3 DEF FlattenSeq
<1>4. CASE n # 0
  <2>1. f[1] = ss[1]
    <3>1. 1 \in 1 .. n /\ ss[1] \in Seq(B)
      BY <1>1, <1>4
    <3>2. f[1] = f[0] \o ss[1]
      <4>1. 1 - 1 = 0
        OBVIOUS
      <4> QED BY <1>2, <3>1, <4>1
    <3> QED BY <1>2, <3>1, <3>2, ConcatEmptySeq
  <2>2. \E h : h = Steps(h)
    <3> DEFINE h == [i \in 1 .. n |-> f[i]]
    <3>1. \A i \in 1 .. n : h[i] = Steps(h)[i]
      <4> SUFFICES ASSUME NEW i \in 1 .. n
                   PROVE  f[i] = IF i = 1 THEN ss[i] ELSE h[i - 1] \o ss[i]
        OBVIOUS
      <4>1. i # 1 => i - 1 \in 1 .. n /\ h[i - 1] = f[i - 1]
        OBVIOUS
      <4> QED BY <1>2, <2>1, <4>1
    <3>2. h = [i \in 1 .. n |-> h[i]] /\ Steps(h) = [i \in 1 .. n |-> Steps(h)[i]]
      OBVIOUS
    <3> HIDE DEF h, Steps
    <3>3. h = Steps(h)
      BY <3>1, <3>2
    <3> QED BY <3>3
  <2>3. g = Steps(g)
    <3> HIDE DEF Steps
    <3> QED BY <2>2
  <2>4. FlattenSeq(ss) = g[n]
    BY <1>4 DEF FlattenSeq
  <2> HIDE DEF g
  <2>5. \A i \in 1 .. n : g[i] = IF i = 1 THEN ss[i] ELSE g[i - 1] \o ss[i]
    <3>1. \A i \in 1 .. n : Steps(g)[i] = IF i = 1 THEN ss[i] ELSE g[i - 1] \o ss[i]
      OBVIOUS
    <3> HIDE DEF Steps
    <3> QED BY <2>3, <3>1
  <2> DEFINE S == {k \in Nat : k + 1 <= n => g[k + 1] = f[k + 1]}
  <2>6. 0 \in S
    <3>1. 1 \in 1 .. n
      BY <1>1, <1>4
    <3> QED BY <2>1, <2>5, <3>1
  <2>7. ASSUME NEW k \in Nat, k \in S
        PROVE  k + 1 \in S
    <3> SUFFICES ASSUME (k + 1) + 1 <= n
                 PROVE  g[(k + 1) + 1] = f[(k + 1) + 1]
      OBVIOUS
    <3>1. PICK i : i = (k + 1) + 1
      OBVIOUS
    <3>2. i \in 1 .. n /\ i # 1 /\ i - 1 = k + 1 /\ k + 1 <= n
      BY <1>1, <3>1
    <3>3. g[i - 1] = f[i - 1]
      BY <2>7, <3>2
    <3> QED BY <1>2, <2>5, <3>1, <3>2, <3>3
  <2> HIDE DEF S
  <2>8. Nat \subseteq S
    BY <2>6, <2>7, SetInduction
  <2>9. PICK k \in Nat : k + 1 = n
    <3>1. n - 1 \in Nat /\ (n - 1) + 1 = n
      BY <1>1, <1>4
    <3> QED BY <3>1
  <2>10. g[k + 1] = f[k + 1]
    <3>1. k \in S /\ k + 1 <= n
      BY <1>1, <2>8, <2>9
    <3> HIDE DEF n
    <3> QED BY <3>1 DEF S
  <2> QED BY <2>4, <2>9, <2>10
<1> QED BY <1>3, <1>4

\* What is put together has the elements of its pieces.
LEMMA FlattenTyped ==
  ASSUME NEW B, NEW ss \in Seq(Seq(B))
  PROVE  FlattenSeq(ss) \in Seq(B)
<1>1. Len(ss) \in Nat /\ ss \in [1 .. Len(ss) -> Seq(B)]
  BY LenProperties
<1>2. PICK f : Joins(f, Len(ss), ss)
  BY <1>1, JoinsExist
<1>3. FlattenSeq(ss) = f[Len(ss)]
  BY <1>2, FlattenIs
<1>4. f[Len(ss)] \in Seq(B)
  BY <1>1, <1>2, JoinsTyped
<1> QED BY <1>3, <1>4

\* One more sequence is put behind the others.
LEMMA FlattenMore ==
  ASSUME NEW B, NEW n \in Nat, NEW ss \in [1 .. n -> Seq(B)], NEW tt \in [1 .. n + 1 -> Seq(B)],
         \A i \in 1 .. n : tt[i] = ss[i]
  PROVE  FlattenSeq(tt) = FlattenSeq(ss) \o tt[n + 1]
<1>1. n + 1 \in Nat
  OBVIOUS
<1>2. tt \in Seq(Seq(B)) /\ Len(tt) = n + 1
  BY <1>1
<1>3. ss \in Seq(Seq(B)) /\ Len(ss) = n
  OBVIOUS
<1>4. PICK f : Joins(f, n + 1, tt)
  BY <1>1, JoinsExist
<1>5. f[0] = <<>> /\ \A i \in 1 .. n + 1 : f[i] = f[i - 1] \o tt[i]
  BY <1>1, <1>4, JoinsUnfold
<1>6. FlattenSeq(tt) = f[n + 1]
  BY <1>2, <1>4, FlattenIs
<1>7. FlattenSeq(ss) = f[n]
  <2> DEFINE h == [i \in 0 .. n |-> f[i]]
             Steps == [i \in 0 .. n |-> IF i = 0 THEN <<>> ELSE h[i - 1] \o ss[i]]
  <2>1. \A i \in 0 .. n : h[i] = Steps[i]
    <3> SUFFICES ASSUME NEW i \in 0 .. n
                 PROVE  f[i] = IF i = 0 THEN <<>> ELSE h[i - 1] \o ss[i]
      OBVIOUS
    <3>1. i # 0 => i - 1 \in 0 .. n /\ h[i - 1] = f[i - 1] /\ i \in 1 .. n + 1 /\ tt[i] = ss[i]
      BY <1>2
    <3> QED BY <1>5, <3>1
  <2>2. h = Steps
    <3>1. h = [i \in 0 .. n |-> h[i]] /\ Steps = [i \in 0 .. n |-> Steps[i]]
      OBVIOUS
    <3> HIDE DEF h, Steps
    <3> QED BY <2>1, <3>1
  <2>3. h[n] = f[n]
    BY <1>2
  <2> HIDE DEF h
  <2>4. Joins(h, n, ss)
    BY <2>2 DEF Joins
  <2>5. FlattenSeq(ss) = h[n]
    BY <1>3, <2>4, FlattenIs
  <2> QED BY <2>3, <2>5
<1>8. f[n + 1] = f[n] \o tt[n + 1]
  <2>1. n + 1 \in 1 .. n + 1 /\ (n + 1) - 1 = n
    BY <1>2
  <2> QED BY <1>2, <1>5, <2>1
<1> QED BY <1>6, <1>7, <1>8

LEMMA IntFlattenMore ==
  ASSUME NEW n \in Nat, NEW ss \in [1 .. n -> Seq(Int)], NEW tt \in [1 .. n + 1 -> Seq(Int)],
         \A i \in 1 .. n : tt[i] = ss[i]
  PROVE  FlattenSeq(tt) = FlattenSeq(ss) \o tt[n + 1]
BY FlattenMore

-----------------------------------------------------------------------------
(* The decoder.                                                            *)

Octet == 0 .. 255

\* The words of an instruction, as far as they have been read.
Instruction ==
    [ form : {"none", "long", "short", "variable"},
      count : {"count0OP", "count1OP", "count2OP", "countVAR"},
      number : Nat, types : Seq(0 .. 3), ops : Seq(Nat), store : Int,
      branch : [onTrue : BOOLEAN, long : BOOLEAN, offset : Int], text : Seq(Nat) ]

\* What an assembler writes before the store byte, and before the branch.
Lead(i) == OpcodeBytes(i) \o OperandBytes(i)

StorePart(i) == IF i.form # "none" /\ Has(i, "store") THEN <<i.store>> ELSE <<>>

Opening(i) == Lead(i) \o StorePart(i)

Branches(i) == i.form = "none" \/ Has(i, "branch")

Unread(i) == i.store = -1 /\ i.branch = NoBranch /\ i.text = <<>>

FirstByte(i) == 192 + (IF i.count = "countVAR" THEN 32 ELSE 0) + i.number

FirstBranchByte(branch) == (IF branch.onTrue THEN 128 ELSE 0) + branch.offset

\* The numbers of a branch of two bytes.
LongRange(branch) == branch.offset \in LongOffsets

\* The bytes c of an instruction i are read back, with its numbers as they are.
Complete(c, i) ==
    /\ Encoding(i) = c
    /\ i.branch.long => LongRange(i.branch)
    /\ ~i.branch.long => i.branch.offset \in 0 .. 63
    /\ i.text # <<>> => \A k \in 1 .. Len(i.text) : (i.text[k] >= 32768) = (k = Len(i.text))

\* What has been read, of which the field p comes next, is what an assembler
\* writes of the instruction up to there.
Begun(p, c, i) ==
    /\ p \in {"opcode", "fault"} => c = <<>> /\ i = NoInstruction
    /\ p = "types" =>
          /\ i.form = "variable" /\ i.count \in {"count2OP", "countVAR"}
          /\ i.types = <<>> /\ i.ops = <<>> /\ Unread(i)
          /\ c = <<FirstByte(i)>>
    /\ p # "types" => OpcodeBytes(i) \in Seq(Int)
    /\ p \in {"operands", "store"} => i.form # "none" /\ Unread(i) /\ c = Lead(i)
    /\ p = "store" => Has(i, "store") /\ Len(i.ops) = Len(i.types)
    /\ p = "branch" => Branches(i) /\ i.branch = NoBranch /\ i.text = <<>> /\ c = Opening(i)
    /\ p = "branchLow" =>
          /\ Branches(i) /\ i.text = <<>> /\ i.branch.long /\ i.branch.offset \in 0 .. 63
          /\ c = Opening(i) \o <<FirstBranchByte(i.branch)>>
    /\ p = "text" =>
          /\ ~Branches(i) /\ i.branch = NoBranch
          /\ \A k \in 1 .. Len(i.text) : i.text[k] < 32768
          /\ c = Opening(i) \o TextBytes(i.text)
    /\ p = "done" => Complete(c, i)

Decoding(p, c, i) ==
    /\ p \in DecoderPhases /\ c \in Seq(Octet) /\ i \in Instruction
    /\ Len(i.ops) <= Len(i.types) /\ Len(i.types) <= 4
    /\ Begun(p, c, i)

DecoderInv == Decoding(phase, code, inst)

-----------------------------------------------------------------------------
\* The sequences of bytes that are put together.
LEMMA OperandsOf ==
  ASSUME NEW i, i.ops \in Seq(Nat)
  PROVE  /\ OperandBytes(i) \in Seq(Int)
         /\ i.ops = <<>> => OperandBytes(i) = <<>>
         /\ \A v \in Nat : \A j : j.ops = Append(i.ops, v) /\ j.types = i.types =>
              OperandBytes(j) =
                OperandBytes(i) \o (IF i.types[Len(i.ops) + 1] = Large THEN WordBytes(v) ELSE <<v>>)
<1> DEFINE Piece(t, v) == IF t = Large THEN WordBytes(v) ELSE <<v>>
           pieces == [k \in 1 .. Len(i.ops) |-> Piece(i.types[k], i.ops[k])]
<1>1. \A t, v : v \in Nat => Piece(t, v) \in Seq(Int)
  BY DEF WordBytes
<1>2. Len(i.ops) \in Nat /\ \A k \in 1 .. Len(i.ops) : i.ops[k] \in Nat
  BY LenProperties, ElementOfSeq
<1> HIDE DEF Piece
<1>3. pieces \in Seq(Seq(Int)) /\ Len(pieces) = Len(i.ops)
  BY <1>1, <1>2
<1>4. OperandBytes(i) = FlattenSeq(pieces)
  BY DEF OperandBytes, Piece
<1>5. ASSUME i.ops = <<>>
      PROVE  OperandBytes(i) = <<>>
  <2>1. Len(pieces) = 0 /\ pieces = <<>>
    BY <1>3, <1>5
  <2> HIDE DEF pieces
  <2> QED BY <1>4, <2>1 DEF FlattenSeq
<1>6. ASSUME NEW v \in Nat, NEW j, j.ops = Append(i.ops, v), j.types = i.types
      PROVE  OperandBytes(j) = OperandBytes(i) \o Piece(i.types[Len(i.ops) + 1], v)
  <2> DEFINE more == [k \in 1 .. Len(j.ops) |-> Piece(j.types[k], j.ops[k])]
  <2>1. PICK n \in Nat : n = Len(i.ops)
    BY <1>2
  <2>2. Len(j.ops) = n + 1 /\ j.ops[n + 1] = v /\ \A k \in 1 .. n : j.ops[k] = i.ops[k]
    BY <1>6, <2>1, AppendProperties
  <2>3. \A k \in 1 .. n + 1 : more[k] = Piece(j.types[k], j.ops[k])
    BY <2>2
  <2>4. more = [k \in 1 .. n + 1 |-> more[k]] /\ OperandBytes(j) = FlattenSeq(more)
    BY <2>2 DEF OperandBytes, Piece
  <2> HIDE DEF more
  <2>5. \A k \in 1 .. n + 1 : j.ops[k] \in Nat
    <3>1. \A k \in 1 .. n + 1 : k = n + 1 \/ k \in 1 .. n
      OBVIOUS
    <3> QED BY <1>2, <2>1, <2>2, <3>1
  <2>6. more \in [1 .. n + 1 -> Seq(Int)]
    BY <1>1, <2>3, <2>4, <2>5
  <2>7. pieces \in [1 .. n -> Seq(Int)] /\ \A k \in 1 .. n : more[k] = pieces[k]
    <3>1. \A k \in 1 .. n : k \in 1 .. n + 1
      OBVIOUS
    <3> QED BY <1>1, <1>2, <1>6, <2>1, <2>2, <2>3, <3>1
  <2> HIDE DEF pieces
  <2>8. more[n + 1] = Piece(i.types[n + 1], v)
    <3>1. n + 1 \in 1 .. n + 1
      OBVIOUS
    <3> QED BY <1>6, <2>2, <2>3, <3>1
  <2>9. FlattenSeq(more) = FlattenSeq(pieces) \o more[n + 1]
    BY <2>6, <2>7, FlattenMore
  <2> QED BY <1>4, <2>1, <2>4, <2>8, <2>9
<1> HIDE DEF pieces
<1>7. OperandBytes(i) \in Seq(Int)
  BY <1>3, <1>4, FlattenTyped
<1> QED BY <1>5, <1>6, <1>7 DEF Piece

LEMMA TextOf ==
  ASSUME NEW words \in Seq(Nat)
  PROVE  /\ TextBytes(words) \in Seq(Int)
         /\ words = <<>> => TextBytes(words) = <<>>
         /\ \A w \in Nat : TextBytes(Append(words, w)) = TextBytes(words) \o WordBytes(w)
<1> DEFINE pieces == [k \in 1 .. Len(words) |-> WordBytes(words[k])]
           n == Len(words)
<1>1. \A w \in Nat : WordBytes(w) \in Seq(Int)
  BY DEF WordBytes
<1>2. n \in Nat /\ \A k \in 1 .. n : words[k] \in Nat
  BY LenProperties, ElementOfSeq
<1>3. pieces \in Seq(Seq(Int)) /\ Len(pieces) = n /\ pieces \in [1 .. n -> Seq(Int)]
  <2>1. pieces \in [1 .. n -> Seq(Int)]
    BY <1>1, <1>2
  <2> HIDE DEF pieces
  <2> QED BY <1>2, <2>1
<1>4. TextBytes(words) = FlattenSeq(pieces)
  BY DEF TextBytes
<1>5. ASSUME words = <<>>
      PROVE  TextBytes(words) = <<>>
  <2>1. Len(pieces) = 0 /\ pieces = <<>>
    BY <1>3, <1>5
  <2> HIDE DEF pieces
  <2> QED BY <1>4, <2>1 DEF FlattenSeq
<1>6. ASSUME NEW w \in Nat
      PROVE  TextBytes(Append(words, w)) = TextBytes(words) \o WordBytes(w)
  <2>1. PICK all : all = Append(words, w)
    OBVIOUS
  <2> DEFINE more == [k \in 1 .. Len(all) |-> WordBytes(all[k])]
  <2>2. Len(all) = n + 1 /\ all[n + 1] = w /\ \A k \in 1 .. n : all[k] = words[k]
    BY <2>1, AppendProperties
  <2>3. \A k \in 1 .. n + 1 : more[k] = WordBytes(all[k])
    BY <2>2
  <2>4. more = [k \in 1 .. n + 1 |-> more[k]] /\ TextBytes(all) = FlattenSeq(more)
    BY <2>2 DEF TextBytes
  <2> HIDE DEF more
  <2>5. \A k \in 1 .. n + 1 : all[k] \in Nat
    <3>1. \A k \in 1 .. n + 1 : k = n + 1 \/ k \in 1 .. n
      BY <1>2
    <3> QED BY <1>2, <2>2, <3>1
  <2>6. more \in [1 .. n + 1 -> Seq(Int)]
    BY <1>1, <2>3, <2>4, <2>5
  <2>7. \A k \in 1 .. n : more[k] = pieces[k]
    <3>1. \A k \in 1 .. n : k \in 1 .. n + 1
      BY <1>2
    <3> QED BY <2>2, <2>3, <3>1
  <2> HIDE DEF pieces
  <2>8. more[n + 1] = WordBytes(w)
    <3>1. n + 1 \in 1 .. n + 1
      BY <1>2
    <3> QED BY <2>2, <2>3, <3>1
  <2>9. FlattenSeq(more) = FlattenSeq(pieces) \o more[n + 1]
    <3>1. n \in Nat /\ pieces \in [1 .. n -> Seq(Int)]
      BY <1>2, <1>3
    <3> HIDE DEF n
    <3> QED BY <2>6, <2>7, <3>1, IntFlattenMore
  <2> QED BY <1>4, <2>1, <2>4, <2>8, <2>9
<1> HIDE DEF pieces
<1>7. TextBytes(words) \in Seq(Int)
  BY <1>3, <1>4, FlattenTyped
<1> QED BY <1>5, <1>6, <1>7

-----------------------------------------------------------------------------
\* The numbers of a byte, and of two.
\* The bits of a byte.
LEMMA OctetRemainders ==
  ASSUME NEW q \in Nat
  PROVE  /\ \A r \in 0 .. 127 : (128 * q + r) % 128 = r
         /\ \A r \in 0 .. 63 : (64 * q + r) % 64 = r
         /\ \A r \in 0 .. 31 : (32 * q + r) % 32 = r
         /\ \A r \in 0 .. 3 : (4 * q + r) % 4 = r
<1>1. \A r \in 0 .. 127 : (128 * q + r) % 128 = r
  OBVIOUS
<1>2. \A r \in 0 .. 63 : (64 * q + r) % 64 = r
  OBVIOUS
<1>3. \A r \in 0 .. 31 : (32 * q + r) % 32 = r
  OBVIOUS
<1>4. \A r \in 0 .. 3 : (4 * q + r) % 4 = r
  OBVIOUS
<1> QED BY <1>1, <1>2, <1>3, <1>4

\* A byte is its bits, as the masks of decode.go take it apart.
LEMMA OctetBits ==
  ASSUME NEW b \in Octet
  PROVE  \E b7, b6, b5, b4 \in {0, 1}, n \in 0 .. 15 :
            /\ b = 128 * b7 + 64 * b6 + 32 * b5 + 16 * b4 + n
            /\ b % 128 = 64 * b6 + 32 * b5 + 16 * b4 + n
            /\ b % 64 = 32 * b5 + 16 * b4 + n
            /\ b % 32 = 16 * b4 + n
            /\ b % 16 = n
            /\ (b \div 16) % 4 = 2 * b5 + b4
<1>1. PICK n, c : n = b % 16 /\ c = b \div 16
  OBVIOUS
<1>2. n \in 0 .. 15 /\ c \in 0 .. 15 /\ b = 16 * c + n
  BY <1>1 DEF Octet
<1>3. PICK b4, d : b4 = c % 2 /\ d = c \div 2
  OBVIOUS
<1>4. b4 \in {0, 1} /\ d \in 0 .. 7 /\ c = 2 * d + b4
  BY <1>2, <1>3
<1>5. PICK b5, e : b5 = d % 2 /\ e = d \div 2
  OBVIOUS
<1>6. b5 \in {0, 1} /\ e \in 0 .. 3 /\ d = 2 * e + b5
  BY <1>4, <1>5
<1>7. PICK b6, b7 : b6 = e % 2 /\ b7 = e \div 2
  OBVIOUS
<1>8. b6 \in {0, 1} /\ b7 \in {0, 1} /\ e = 2 * b7 + b6
  BY <1>6, <1>7
<1>9. b = 128 * b7 + 64 * b6 + 32 * b5 + 16 * b4 + n
  BY <1>2, <1>4, <1>6, <1>8
<1>10. b % 128 = 64 * b6 + 32 * b5 + 16 * b4 + n
  <2>1. PICK r : r = 64 * b6 + 32 * b5 + 16 * b4 + n
    OBVIOUS
  <2>2. r \in 0 .. 127 /\ b7 \in Nat /\ b = 128 * b7 + r
    BY <1>2, <1>4, <1>6, <1>8, <1>9, <2>1
  <2> QED BY <2>1, <2>2, OctetRemainders, Zenon
<1>11. b % 64 = 32 * b5 + 16 * b4 + n
  <2>1. PICK r, q : r = 32 * b5 + 16 * b4 + n /\ q = 2 * b7 + b6
    OBVIOUS
  <2>2. r \in 0 .. 63 /\ q \in Nat /\ b = 64 * q + r
    BY <1>2, <1>4, <1>6, <1>8, <1>9, <2>1
  <2> QED BY <2>1, <2>2, OctetRemainders, Zenon
<1>12. b % 32 = 16 * b4 + n
  <2>1. PICK r, q : r = 16 * b4 + n /\ q = 4 * b7 + 2 * b6 + b5
    OBVIOUS
  <2>2. r \in 0 .. 31 /\ q \in Nat /\ b = 32 * q + r
    BY <1>2, <1>4, <1>6, <1>8, <1>9, <2>1
  <2> QED BY <2>1, <2>2, OctetRemainders, Zenon
<1>13. c % 4 = 2 * b5 + b4
  <2>1. PICK r : r = 2 * b5 + b4
    OBVIOUS
  <2>2. r \in 0 .. 3 /\ e \in Nat /\ c = 4 * e + r
    BY <1>2, <1>4, <1>6, <2>1
  <2> QED BY <2>1, <2>2, OctetRemainders, Zenon
<1>14. b % 16 = n /\ (b \div 16) % 4 = 2 * b5 + b4
  BY <1>1, <1>13
<1>15. b7 \in {0, 1} /\ b6 \in {0, 1} /\ b5 \in {0, 1} /\ b4 \in {0, 1} /\ n \in 0 .. 15
  BY <1>2, <1>4, <1>6, <1>8
<1> USE <1>15
<1> WITNESS b7 \in {0, 1}, b6 \in {0, 1}, b5 \in {0, 1}, b4 \in {0, 1}, n \in 0 .. 15
<1> QED BY <1>9, <1>10, <1>11, <1>12, <1>14, Zenon

\* The three forms of the first byte.
LEMMA VariableOpcode ==
  ASSUME NEW b \in Int, b >= 192
  PROVE  FromOpcodeByte(b) = Opcode("variable", IF b % 64 >= 32 THEN "countVAR" ELSE "count2OP", b % 32, <<>>)
<1>1. b \notin 128 .. 191 /\ ~(b < 128)
  OBVIOUS
<1> QED BY <1>1 DEF FromOpcodeByte

\* The opcode bytes of the short form, and of the long one.
LEMMA ShortOpcode ==
  ASSUME NEW b \in Int, b >= 128, b <= 191, NEW t, t = (b \div 16) % 4
  PROVE  FromOpcodeByte(b) =
           IF t = Omitted THEN Opcode("short", "count0OP", b % 16, <<>>) ELSE Opcode("short", "count1OP", b % 16, <<t>>)
<1>1. b \in 128 .. 191 /\ ~(b >= 192) /\ ~(b < 128)
  OBVIOUS
<1> QED BY <1>1 DEF FromOpcodeByte

LEMMA LongOpcode ==
  ASSUME NEW b \in Int, b < 128
  PROVE  FromOpcodeByte(b) =
           Opcode("long", "count2OP", b % 32,
                  << IF b % 128 >= 64 THEN Variable ELSE Small, IF b % 64 >= 32 THEN Variable ELSE Small >>)
<1>1. b \notin 128 .. 191 /\ ~(b >= 192)
  OBVIOUS
<1> QED BY <1>1 DEF FromOpcodeByte

\* What an opcode byte begins is an instruction of which nothing else has been read.
LEMMA OpcodeTyped ==
  ASSUME NEW form \in {"long", "short", "variable"}, NEW count \in {"count0OP", "count1OP", "count2OP", "countVAR"},
         NEW number \in Nat, NEW types \in Seq(0 .. 3)
  PROVE  Opcode(form, count, number, types) \in Instruction
BY DEF Opcode, Instruction, NoBranch

\* An assembler writes the opcode byte back (decodeInstruction, decode.go).
LEMMA OpcodeRead ==
  ASSUME NEW b \in Octet, NEW i, i = FromOpcodeByte(b)
  PROVE  /\ i \in Instruction /\ i.form # "none" /\ i.ops = <<>> /\ Unread(i)
         /\ Len(i.types) <= 4
         /\ i.form = "variable" =>
               i.types = <<>> /\ i.count \in {"count2OP", "countVAR"} /\ b = FirstByte(i)
         /\ i.form # "variable" => OpcodeBytes(i) = <<b>>
<1>1. PICK b7 \in {0, 1}, b6 \in {0, 1}, b5 \in {0, 1}, b4 \in {0, 1}, n \in 0 .. 15 :
            /\ b = 128 * b7 + 64 * b6 + 32 * b5 + 16 * b4 + n
            /\ b % 128 = 64 * b6 + 32 * b5 + 16 * b4 + n
            /\ b % 64 = 32 * b5 + 16 * b4 + n
            /\ b % 32 = 16 * b4 + n
            /\ b % 16 = n
            /\ (b \div 16) % 4 = 2 * b5 + b4
  BY OctetBits
<1>2. CASE b7 = 1 /\ b6 = 1
  <2>1. PICK c : c = IF b5 = 1 THEN "countVAR" ELSE "count2OP"
    OBVIOUS
  <2>2. b \in Int /\ b >= 192 /\ (b % 64 >= 32 <=> b5 = 1)
    BY <1>1, <1>2
  <2>3. i = Opcode("variable", c, 16 * b4 + n, <<>>)
    BY <1>1, <2>1, <2>2, VariableOpcode
  <2>4. b = 192 + (IF c = "countVAR" THEN 32 ELSE 0) + (16 * b4 + n)
    BY <1>1, <1>2, <2>1
  <2>5. /\ i.form = "variable" /\ i.count = c /\ i.number = 16 * b4 + n /\ i.types = <<>>
        /\ i.ops = <<>> /\ Unread(i)
    BY <2>3 DEF Opcode, Unread
  <2>6. b = FirstByte(i)
    BY <2>4, <2>5 DEF FirstByte
  <2>7. i \in Instruction
    <3>1. 16 * b4 + n \in Nat /\ <<>> \in Seq(0 .. 3) /\ c \in {"count0OP", "count1OP", "count2OP", "countVAR"}
      BY <1>1, <2>1
    <3> QED BY <2>3, <3>1, OpcodeTyped
  <2> QED BY <2>1, <2>5, <2>6, <2>7
<1>3. CASE b7 = 1 /\ b6 = 0
  <2>1. b >= 128 /\ b <= 191 /\ b \in Int
    BY <1>1, <1>3 DEF Octet
  <2>2. PICK t : t = 2 * b5 + b4
    OBVIOUS
  <2>3. i = IF t = Omitted THEN Opcode("short", "count0OP", n, <<>>) ELSE Opcode("short", "count1OP", n, <<t>>)
    BY <1>1, <2>1, <2>2, ShortOpcode
  <2>4. t \in 0 .. 3 /\ b = 128 + 16 * t + n
    BY <1>1, <1>3, <2>2
  <2>5. CASE t = Omitted
    <3>1. i = Opcode("short", "count0OP", n, <<>>)
      BY <2>3, <2>5
    <3>2. i.form = "short" /\ i.count = "count0OP" /\ i.number = n
      BY <3>1 DEF Opcode
    <3>3. OpcodeBytes(i) = <<b>>
      BY <2>4, <2>5, <3>2 DEF OpcodeBytes
    <3>4. i \in Instruction
      <4>1. n \in Nat /\ <<>> \in Seq(0 .. 3)
        BY <1>1
      <4> QED BY <3>1, <4>1, OpcodeTyped
    <3> QED BY <3>1, <3>2, <3>3, <3>4 DEF Opcode, Unread
  <2>6. CASE t # Omitted
    <3>1. i = Opcode("short", "count1OP", n, <<t>>)
      BY <2>3, <2>6
    <3>2. i.form = "short" /\ i.count = "count1OP" /\ i.number = n /\ i.types = <<t>>
      BY <3>1 DEF Opcode
    <3>3. OpcodeBytes(i) = <<b>>
      BY <2>4, <3>2 DEF OpcodeBytes
    <3>4. i \in Instruction
      <4>1. n \in Nat /\ <<t>> \in Seq(0 .. 3)
        BY <1>1, <2>4
      <4> QED BY <3>1, <4>1, OpcodeTyped
    <3> QED BY <3>1, <3>2, <3>3, <3>4 DEF Opcode, Unread
  <2> QED BY <2>5, <2>6
<1>4. CASE b7 = 0
  <2>1. b < 128 /\ b \in Int
    BY <1>1, <1>4
  <2>2. PICK t, u : t = (IF b6 = 1 THEN Variable ELSE Small) /\ u = (IF b5 = 1 THEN Variable ELSE Small)
    OBVIOUS
  <2>3. t \in 0 .. 3 /\ u \in 0 .. 3
    BY <2>2 DEF Variable, Small
  <2>4. b = (IF t = Variable THEN 64 ELSE 0) + (IF u = Variable THEN 32 ELSE 0) + (16 * b4 + n)
    BY <1>1, <1>4, <2>2 DEF Variable, Small
  <2>5. (b % 128 >= 64 <=> b6 = 1) /\ (b % 64 >= 32 <=> b5 = 1)
    BY <1>1
  <2>6. i = Opcode("long", "count2OP", 16 * b4 + n, <<t, u>>)
    BY <1>1, <2>1, <2>2, <2>5, LongOpcode
  <2>7. i.form = "long" /\ i.number = 16 * b4 + n /\ i.types[1] = t /\ i.types[2] = u
    BY <2>6 DEF Opcode
  <2>8. OpcodeBytes(i) = <<b>>
    BY <2>4, <2>7 DEF OpcodeBytes
  <2>9. i \in Instruction
    <3>1. 16 * b4 + n \in Nat /\ <<t, u>> \in Seq(0 .. 3)
      BY <1>1, <2>3
    <3> QED BY <2>6, <3>1, OpcodeTyped
  <2> QED BY <2>6, <2>7, <2>8, <2>9 DEF Opcode, Unread
<1> QED BY <1>1, <1>2, <1>3, <1>4

\* The types byte: as many types as are given, and the byte that an assembler writes of them.
LEMMA TypesRead ==
  ASSUME NEW b \in Octet, TypesLegal(b)
  PROVE  /\ TypesGiven(b) \in Seq(0 .. 3) /\ Len(TypesGiven(b)) <= 4
         /\ TypesByte(TypesGiven(b)) = b
<1> DEFINE omitted == {i \in 1 .. 4 : TypeField(b, i) = Omitted}
           count == IF omitted = {} THEN 4 ELSE Min(omitted) - 1
<1>1. /\ TypeField(b, 1) = (b \div 64) % 4 /\ TypeField(b, 2) = (b \div 16) % 4
      /\ TypeField(b, 3) = (b \div 4) % 4 /\ TypeField(b, 4) = (b \div 1) % 4
  BY DEF TypeField
<1>2. \A i \in 1 .. 4 : TypeField(b, i) \in 0 .. 3
  <2>1. \A i \in 1 .. 4 : i = 1 \/ i = 2 \/ i = 3 \/ i = 4
    OBVIOUS
  <2> QED BY <1>1, <2>1 DEF Octet
<1>3. b = 64 * TypeField(b, 1) + 16 * TypeField(b, 2) + 4 * TypeField(b, 3) + TypeField(b, 4)
  <2>1. PICK c, d, e : c = b \div 4 /\ d = b \div 16 /\ e = b \div 64
    OBVIOUS
  <2>2. b = 4 * c + (b % 4) /\ c = 4 * d + (c % 4) /\ d = 4 * e + (d % 4) /\ e \in 0 .. 3
    <3>1. b = 4 * c + (b % 4) /\ c \in 0 .. 63
      BY <2>1 DEF Octet
    <3>2. c = 4 * (c \div 4) + (c % 4) /\ c \div 4 = d /\ d \in 0 .. 15
      BY <2>1, <3>1 DEF Octet
    <3>3. d = 4 * (d \div 4) + (d % 4) /\ d \div 4 = e /\ e \in 0 .. 3
      BY <2>1, <3>2 DEF Octet
    <3> QED BY <3>1, <3>2, <3>3
  <2>3. e % 4 = e /\ b \div 1 = b
    BY <2>2 DEF Octet
  <2> QED BY <1>1, <2>1, <2>2, <2>3 DEF Octet
<1>4. count \in 0 .. 4 /\ \A i \in 1 .. 4 : i > count <=> TypeField(b, i) = Omitted
  <2>1. CASE omitted = {}
    BY <2>1
  <2>2. CASE omitted # {}
    <3>1. PICK m \in omitted : \A y \in omitted : m <= y
      <4>1. omitted \subseteq Nat
        OBVIOUS
      <4> HIDE DEF omitted
      <4> QED BY <2>2, <4>1, LeastNumber
    <3>2. \E x \in omitted : \A y \in omitted : x <= y
      BY <3>1
    <3>3. Min(omitted) \in omitted /\ \A y \in omitted : Min(omitted) <= y
      <4> HIDE DEF omitted
      <4> QED BY <3>2 DEF Min
    <3>4. m \in 1 .. 4 /\ TypeField(b, m) = Omitted /\ Min(omitted) = m
      BY <3>1, <3>3
    <3>5. count = m - 1
      BY <2>2, <3>4
    <3>6. \A i \in 1 .. 4 : m < i => TypeField(b, i) = Omitted
      BY <3>4 DEF TypesLegal
    <3>7. \A i \in 1 .. 4 : i < m => TypeField(b, i) # Omitted
      BY <3>1, <3>4
    <3> HIDE DEF omitted, count
    <3> QED BY <3>4, <3>5, <3>6, <3>7
  <2> QED BY <2>1, <2>2
<1>5. TypesGiven(b) = [i \in 1 .. count |-> TypeField(b, i)]
  BY DEF TypesGiven
<1>6. PICK n, types : n \in 0 .. 4 /\ n = count /\ types = TypesGiven(b)
  BY <1>4
<1> HIDE DEF omitted, count
<1>7. types = [i \in 1 .. n |-> TypeField(b, i)] /\ \A i \in 1 .. n : i \in 1 .. 4
  <2>1. types = [i \in 1 .. n |-> TypeField(b, i)]
    BY <1>5, <1>6, Zenon
  <2>2. \A i \in 1 .. n : i \in 1 .. 4
    BY <1>6
  <2> QED BY <2>1, <2>2
<1>8. types \in Seq(0 .. 3) /\ Len(types) = n
  <2>1. \A i \in 1 .. n : TypeField(b, i) \in 0 .. 3
    BY <1>2, <1>7
  <2>2. n \in Nat /\ types \in [1 .. n -> 0 .. 3]
    BY <1>6, <1>7, <2>1
  <2> QED BY <2>2
<1>9. \A i \in 1 .. 4 : (IF i <= Len(types) THEN types[i] ELSE Omitted) = TypeField(b, i)
  BY <1>4, <1>6, <1>7, <1>8
<1>10. TypesByte(types) = b
  <2>1. 1 \in 1 .. 4 /\ 2 \in 1 .. 4 /\ 3 \in 1 .. 4 /\ 4 \in 1 .. 4
    OBVIOUS
  <2> QED BY <1>3, <1>9, <2>1 DEF TypesByte
<1> QED BY <1>6, <1>8, <1>10

\* A word is its two bytes.
LEMMA WordRead ==
  ASSUME NEW high \in Octet, NEW low \in Octet
  PROVE  high * 256 + low \in Nat /\ WordBytes(high * 256 + low) = <<high, low>>
<1>1. (high * 256 + low) \div 256 = high /\ (high * 256 + low) % 256 = low
  BY DEF Octet
<1> QED BY <1>1 DEF WordBytes, Octet

\* A branch of two bytes: a number of fourteen bits with its sign.
LEMMA LongBranchRead ==
  ASSUME NEW offset \in 0 .. 63, NEW b \in Octet, NEW onTrue \in BOOLEAN,
         NEW branch, branch = [onTrue |-> onTrue, long |-> TRUE, offset |-> LongOffset(offset, b)]
  PROVE  /\ LongRange(branch)
         /\ BranchBytes(branch) = <<(IF onTrue THEN 128 ELSE 0) + offset, b>>
<1>1. PICK w, v : w = offset * 256 + b /\ v = branch.offset
  OBVIOUS
<1>2. w \in 0 .. 16383 /\ w \div 256 = offset /\ w % 256 = b
  BY <1>1, SMTT(30) DEF Octet
<1>3. v = IF w < 8192 THEN w ELSE w - 16384
  <2>1. offset % 64 = offset /\ w % 16384 = w /\ 16384 \div 2 = 8192
    <3>1. offset % 64 = offset
      OBVIOUS
    <3>2. w % 16384 = w
      BY <1>2
    <3> QED BY <3>1, <3>2
  <2> QED BY <1>1, <2>1 DEF LongOffset, SignExtend
<1>4. v \in -8192 .. 8191 /\ v % 16384 = w
  <2>1. w \in Int /\ 0 <= w /\ w <= 16383
    BY <1>2
  <2>2. CASE w < 8192
    <3>1. v = w
      BY <1>3, <2>2
    <3>2. w % 16384 = w
      BY <2>1
    <3> QED BY <2>1, <2>2, <3>1, <3>2
  <2>3. CASE ~(w < 8192)
    <3>1. v = w - 16384
      BY <1>3, <2>3
    <3>2. (w - 16384) % 16384 = w
      BY <2>1, SMTT(30)
    <3> QED BY <2>1, <2>3, <3>1, <3>2
  <2> QED BY <2>2, <2>3
<1>5. branch.long /\ branch.onTrue = onTrue /\ branch.offset = v
  BY <1>1
<1>6. LongRange(branch)
  <2>1. v \in LongOffsets
    BY <1>4 DEF LongOffsets
  <2> QED BY <1>5, <2>1 DEF LongRange
<1>7. BranchBytes(branch) = <<(IF onTrue THEN 128 ELSE 0) + offset, b>>
  BY <1>2, <1>4, <1>5, SMTT(30) DEF BranchBytes
<1> QED BY <1>6, <1>7

\* A branch of one.
LEMMA ShortBranchRead ==
  ASSUME NEW b \in Octet, NEW branch,
         branch = [onTrue |-> b >= 128, long |-> b % 128 < 64, offset |-> b % 64]
  PROVE  /\ branch.offset \in 0 .. 63 /\ branch \in [onTrue : BOOLEAN, long : BOOLEAN, offset : Int]
         /\ branch.long => FirstBranchByte(branch) = b
         /\ ~branch.long => BranchBytes(branch) = <<b>>
<1>1. /\ branch.onTrue = (b >= 128) /\ branch.long = (b % 128 < 64) /\ branch.offset = b % 64
      /\ branch.onTrue \in BOOLEAN /\ branch.long \in BOOLEAN
  OBVIOUS
<1>2. PICK b7 \in {0, 1}, b6 \in {0, 1}, b5 \in {0, 1}, b4 \in {0, 1}, n \in 0 .. 15 :
            /\ b = 128 * b7 + 64 * b6 + 32 * b5 + 16 * b4 + n
            /\ b % 128 = 64 * b6 + 32 * b5 + 16 * b4 + n
            /\ b % 64 = 32 * b5 + 16 * b4 + n
  BY OctetBits
<1>3. PICK r : r = 32 * b5 + 16 * b4 + n
  OBVIOUS
<1>4. /\ r \in 0 .. 63 /\ branch.offset = r
      /\ branch.onTrue <=> b7 = 1
      /\ branch.long <=> b6 = 0
      /\ b = 128 * b7 + 64 * b6 + r
  <2>1. r \in 0 .. 63 /\ b % 64 = r /\ b % 128 = 64 * b6 + r /\ b = 128 * b7 + 64 * b6 + r
    BY <1>2, <1>3
  <2>2. (b >= 128 <=> b7 = 1) /\ (64 * b6 + r < 64 <=> b6 = 0)
    BY <1>2, <2>1
  <2> QED BY <1>1, <2>1, <2>2
<1>5. branch.long => FirstBranchByte(branch) = b
  BY <1>1, <1>4 DEF FirstBranchByte
<1>6. ~branch.long => BranchBytes(branch) = <<b>>
  BY <1>1, <1>4 DEF BranchBytes
<1>7. branch \in [onTrue : BOOLEAN, long : BOOLEAN, offset : Int]
  BY <1>4
<1> QED BY <1>4, <1>5, <1>6, <1>7

-----------------------------------------------------------------------------
\* Fields that the bytes up to the branch are made of.
SameOpening(i, j) ==
    j.form = i.form /\ j.count = i.count /\ j.number = i.number /\ j.types = i.types /\ j.ops = i.ops

\* Fields that are read later do not change what has been read before.
LEMMA OpcodeSame ==
  ASSUME NEW i, NEW j, j.form = i.form, j.count = i.count, j.number = i.number, j.types = i.types
  PROVE  OpcodeBytes(j) = OpcodeBytes(i)
BY DEF OpcodeBytes

LEMMA OpeningOf ==
  ASSUME NEW i, NEW j, SameOpening(i, j)
  PROVE  /\ OpcodeBytes(j) = OpcodeBytes(i) /\ Lead(j) = Lead(i)
         /\ \A feature : Has(j, feature) <=> Has(i, feature)
         /\ Branches(j) <=> Branches(i)
         /\ j.store = i.store => Opening(j) = Opening(i)
<1>1. OpcodeBytes(j) = OpcodeBytes(i)
  BY DEF SameOpening, OpcodeBytes
<1>2. OperandBytes(j) = OperandBytes(i)
  BY DEF SameOpening, OperandBytes
<1>3. \A feature : Has(j, feature) <=> Has(i, feature)
  BY DEF SameOpening, Has
<1>4. Branches(j) <=> Branches(i)
  BY <1>3 DEF Branches, SameOpening
<1>5. Lead(j) = Lead(i)
  BY <1>1, <1>2 DEF Lead
<1>6. j.store = i.store => Opening(j) = Opening(i)
  BY <1>3, <1>5 DEF Opening, StorePart, SameOpening
<1> QED BY <1>1, <1>3, <1>4, <1>5, <1>6

\* The bytes up to the branch are numbers.
LEMMA OpeningTyped ==
  ASSUME NEW i \in Instruction, OpcodeBytes(i) \in Seq(Int)
  PROVE  Lead(i) \in Seq(Int) /\ Opening(i) \in Seq(Int)
<1>1. i.ops \in Seq(Nat) /\ i.store \in Int
  BY DEF Instruction
<1>2. OperandBytes(i) \in Seq(Int)
  BY <1>1, OperandsOf
<1>3. Lead(i) \in Seq(Int)
  BY <1>2, ConcatProperties DEF Lead
<1>4. StorePart(i) \in Seq(Int)
  BY <1>1 DEF StorePart
<1> QED BY <1>3, <1>4, ConcatProperties DEF Opening

\* The bytes of an instruction are those up to the branch, the branch, and the text.
LEMMA EncodingParts ==
  ASSUME NEW i
  PROVE  Encoding(i) = (Opening(i) \o (IF Branches(i) THEN BranchBytes(i.branch) ELSE <<>>)) \o TextBytes(i.text)
BY DEF Encoding, Opening, Lead, StorePart, Branches

\* What comes next, once the byte of the result has been read or there is none.
LEMMA Continues ==
  ASSUME NEW i \in Instruction, NEW c, c = Opening(i), OpcodeBytes(i) \in Seq(Int),
         i.form # "none", i.branch = NoBranch, i.text = <<>>, 
         NEW p, p = IF Has(i, "branch") THEN "branch" ELSE IF Has(i, "text") THEN "text" ELSE "done"
  PROVE  p \in DecoderPhases /\ Begun(p, c, i)
<1>1. Opening(i) \in Seq(Int)
  BY OpeningTyped
<1>2. TextBytes(i.text) = <<>>
  <2>1. <<>> \in Seq(Nat)
    OBVIOUS
  <2> QED BY <2>1, TextOf
<1>3. Opening(i) \o <<>> = Opening(i)
  BY <1>1, ConcatEmptySeq
<1>4. CASE Has(i, "branch")
  BY <1>4 DEF Begun, Branches, DecoderPhases
<1>5. CASE ~Has(i, "branch") /\ Has(i, "text")
  <2>1. p = "text" /\ ~Branches(i) /\ c = Opening(i) \o TextBytes(i.text)
    BY <1>2, <1>3, <1>5 DEF Branches
  <2>2. \A k \in 1 .. Len(i.text) : i.text[k] < 32768
    OBVIOUS
  <2> QED BY <2>1, <2>2 DEF Begun, DecoderPhases
<1>6. CASE ~Has(i, "branch") /\ ~Has(i, "text")
  <2>1. p = "done" /\ ~Branches(i)
    BY <1>6 DEF Branches
  <2>2. Encoding(i) = c
    BY <1>2, <1>3, <2>1, EncodingParts
  <2>3. i.branch.offset = 0 /\ ~i.branch.long
    BY DEF NoBranch
  <2>4. Complete(c, i)
    BY <2>2, <2>3 DEF Complete
  <2> QED BY <2>1, <2>4 DEF Begun, DecoderPhases
<1> QED BY <1>4, <1>5, <1>6

\* Once the operands are complete, the field that comes next begins with what has been read.
LEMMA Settles ==
  ASSUME NEW i \in Instruction, NEW c, c = Lead(i), OpcodeBytes(i) \in Seq(Int),
         i.form # "none", Unread(i), Len(i.ops) <= Len(i.types)
  PROVE  AfterOperands(i) \in DecoderPhases /\ Begun(AfterOperands(i), c, i)
<1>1. Len(i.ops) \in Nat /\ Len(i.types) \in Nat
  BY LenProperties DEF Instruction
<1>2. CASE Len(i.ops) < Len(i.types)
  <2>1. AfterOperands(i) = "operands"
    BY <1>1, <1>2 DEF AfterOperands
  <2> QED BY <2>1 DEF Begun, DecoderPhases
<1>3. CASE Len(i.ops) = Len(i.types) /\ Has(i, "store")
  <2>1. AfterOperands(i) = "store"
    BY <1>1, <1>3 DEF AfterOperands, Unread
  <2> QED BY <1>3, <2>1 DEF Begun, DecoderPhases
<1>4. CASE Len(i.ops) = Len(i.types) /\ ~Has(i, "store")
  <2>1. AfterOperands(i) = IF Has(i, "branch") THEN "branch" ELSE IF Has(i, "text") THEN "text" ELSE "done"
    BY <1>1, <1>4 DEF AfterOperands
  <2>2. c = Opening(i)
    <3>1. StorePart(i) = <<>>
      BY <1>4 DEF StorePart
    <3> QED BY <3>1, OpeningTyped, ConcatEmptySeq DEF Opening
  <2>3. i.branch = NoBranch /\ i.text = <<>>
    BY DEF Unread
  <2> QED BY <2>1, <2>2, <2>3, Continues
<1> QED BY <1>1, <1>2, <1>3, <1>4

\* The same after the byte of the result.
LEMMA StoreKept ==
  ASSUME NEW i \in Instruction, NEW c, c = Opening(i), OpcodeBytes(i) \in Seq(Int),
         i.form # "none", i.branch = NoBranch, i.text = <<>>, Len(i.ops) = Len(i.types), i.store # -1
  PROVE  AfterOperands(i) \in DecoderPhases /\ Begun(AfterOperands(i), c, i)
<1>1. Len(i.ops) \in Nat /\ Len(i.types) \in Nat
  BY LenProperties DEF Instruction
<1>2. AfterOperands(i) = IF Has(i, "branch") THEN "branch" ELSE IF Has(i, "text") THEN "text" ELSE "done"
  BY <1>1 DEF AfterOperands
<1> QED BY <1>2, Continues

-----------------------------------------------------------------------------
\* Joining sequences of bytes.
LEMMA IntJoins ==
  \A s, t, u \in Seq(Int) : (s \o t) \o u = s \o (t \o u)
BY ConcatAssociative

LEMMA OctetJoins ==
  ASSUME NEW c \in Seq(Octet), NEW d \in Seq(Octet)
  PROVE  c \o d \in Seq(Octet) /\ c \in Seq(Int) /\ d \in Seq(Int)
<1>1. Octet \subseteq Int
  BY DEF Octet
<1> QED BY <1>1, ConcatProperties, SeqMonotonic

LEMMA OctetPair ==
  ASSUME NEW b \in Octet, NEW low \in Octet
  PROVE  /\ b \in Int /\ b \in Nat /\ b # -1 /\ low \in Int
         /\ <<b>> \in Seq(Octet) /\ <<b>> \in Seq(Int)
         /\ <<b, low>> \in Seq(Octet) /\ <<b, low>> \in Seq(Int)
<1>1. b \in Int /\ b \in Nat /\ b # -1 /\ low \in Int
  BY DEF Octet
<1>2. <<b>> \in Seq(Octet) /\ <<b, low>> \in Seq(Octet)
  OBVIOUS
<1>3. <<b>> \in Seq(Int) /\ <<b, low>> \in Seq(Int)
  BY <1>1
<1> QED BY <1>1, <1>2, <1>3

\* One field of an instruction is replaced.
LEMMA FieldTyped ==
  ASSUME NEW i \in Instruction
  PROVE  /\ \A types \in Seq(0 .. 3) : [i EXCEPT !.types = types] \in Instruction
         /\ \A ops \in Seq(Nat) : [i EXCEPT !.ops = ops] \in Instruction
         /\ \A store \in Int : [i EXCEPT !.store = store] \in Instruction
         /\ \A branch \in [onTrue : BOOLEAN, long : BOOLEAN, offset : Int] :
               [i EXCEPT !.branch = branch] \in Instruction
         /\ \A text \in Seq(Nat) : [i EXCEPT !.text = text] \in Instruction
<1> DEFINE types == Seq(0 .. 3)
           nats == Seq(Nat)
           branches == [onTrue : BOOLEAN, long : BOOLEAN, offset : Int]
<1>1. Instruction = [ form : {"none", "long", "short", "variable"},
                      count : {"count0OP", "count1OP", "count2OP", "countVAR"},
                      number : Nat, types : types, ops : nats, store : Int, branch : branches, text : nats ]
  BY DEF Instruction
<1> HIDE DEF types, nats, branches
<1>2. \A t \in types : [i EXCEPT !.types = t] \in Instruction
  BY <1>1
<1>3. \A t \in nats : [i EXCEPT !.ops = t] \in Instruction
  BY <1>1
<1>4. \A t \in Int : [i EXCEPT !.store = t] \in Instruction
  BY <1>1
<1>5. \A t \in branches : [i EXCEPT !.branch = t] \in Instruction
  BY <1>1
<1>6. \A t \in nats : [i EXCEPT !.text = t] \in Instruction
  BY <1>1
<1> QED BY <1>2, <1>3, <1>4, <1>5, <1>6 DEF types, nats, branches

\* A field is set, and the others stay as they are.
LEMMA StoreApart ==
  ASSUME NEW i \in Instruction, NEW x, NEW j, j = [i EXCEPT !.store = x]
  PROVE  /\ j.form = i.form /\ j.count = i.count /\ j.number = i.number /\ j.types = i.types /\ j.ops = i.ops
         /\ j.store = x /\ j.branch = i.branch /\ j.text = i.text
BY DEF Instruction

LEMMA BranchApart ==
  ASSUME NEW i \in Instruction, NEW x, NEW j, j = [i EXCEPT !.branch = x]
  PROVE  /\ j.form = i.form /\ j.count = i.count /\ j.number = i.number /\ j.types = i.types /\ j.ops = i.ops
         /\ j.store = i.store /\ j.branch = x /\ j.text = i.text
BY DEF Instruction

LEMMA TextApart ==
  ASSUME NEW i \in Instruction, NEW x, NEW j, j = [i EXCEPT !.text = x]
  PROVE  /\ j.form = i.form /\ j.count = i.count /\ j.number = i.number /\ j.types = i.types /\ j.ops = i.ops
         /\ j.store = i.store /\ j.branch = i.branch /\ j.text = x
BY DEF Instruction

LEMMA OpsApart ==
  ASSUME NEW i \in Instruction, NEW x, NEW j, j = [i EXCEPT !.ops = x]
  PROVE  /\ j.form = i.form /\ j.count = i.count /\ j.number = i.number /\ j.types = i.types /\ j.ops = x
         /\ j.store = i.store /\ j.branch = i.branch /\ j.text = i.text
BY DEF Instruction

LEMMA TypesApart ==
  ASSUME NEW i \in Instruction, NEW x, NEW j, j = [i EXCEPT !.types = x]
  PROVE  /\ j.form = i.form /\ j.count = i.count /\ j.number = i.number /\ j.types = x /\ j.ops = i.ops
         /\ j.store = i.store /\ j.branch = i.branch /\ j.text = i.text
BY DEF Instruction

LEMMA PairOf ==
  ASSUME NEW S, NEW a \in S, NEW b \in S
  PROVE  <<a>> \o <<b>> = <<a, b>> /\ Append(<<a>>, b) = <<a, b>>
<1>1. <<a>> \in Seq(S) /\ Len(<<a>>) = 1 /\ <<b>> \in Seq(S) /\ <<a>>[1] = a
  OBVIOUS
<1>2. PICK s : s = Append(<<a>>, b)
  OBVIOUS
<1>3. s \in Seq(S) /\ Len(s) = 2 /\ s[1] = a /\ s[2] = b /\ s = <<a>> \o <<b>>
  BY <1>1, <1>2, AppendProperties, AppendIsConcat
<1>4. PICK t : t = <<a, b>>
  OBVIOUS
<1>5. t \in Seq(S) /\ Len(t) = 2 /\ t[1] = a /\ t[2] = b
  BY <1>4
<1>6. \A k \in 1 .. Len(s) : s[k] = t[k]
  <2>1. \A k \in 1 .. 2 : k = 1 \/ k = 2
    OBVIOUS
  <2> QED BY <1>3, <1>5, <2>1
<1>7. s = t
  BY <1>3, <1>5, <1>6, SeqEqual
<1> QED BY <1>2, <1>3, <1>4, <1>7

\* Each field that is read keeps what has been read together: the opcode byte,
LEMMA OpcodeStep ==
  ASSUME NEW b \in Octet, NEW i, i = FromOpcodeByte(b),
         NEW p, p = IF i.form = "variable" THEN "types" ELSE AfterOperands(i)
  PROVE  Decoding(p, <<b>>, i)
<1>1. /\ i \in Instruction /\ i.form # "none" /\ i.ops = <<>> /\ Unread(i)
      /\ Len(i.types) <= 4
      /\ i.form = "variable" =>
            i.types = <<>> /\ i.count \in {"count2OP", "countVAR"} /\ b = FirstByte(i)
      /\ i.form # "variable" => OpcodeBytes(i) = <<b>>
  BY OpcodeRead
<1>2. Len(i.ops) = 0 /\ Len(i.types) \in Nat
  BY <1>1, LenProperties DEF Instruction
<1>3. <<b>> \in Seq(Octet)
  OBVIOUS
<1>4. p \in DecoderPhases /\ Begun(p, <<b>>, i)
  <2>1. CASE i.form = "variable"
    BY <1>1, <2>1 DEF Begun, DecoderPhases
  <2>2. CASE i.form # "variable"
    <3>1. OpcodeBytes(i) = <<b>> /\ <<b>> \in Seq(Int)
      BY <1>1, <2>2, OctetPair
    <3>2. OperandBytes(i) = <<>>
      <4>1. i.ops \in Seq(Nat)
        BY <1>1
      <4> QED BY <1>1, <4>1, OperandsOf
    <3>3. Lead(i) = <<b>>
      BY <3>1, <3>2, ConcatEmptySeq DEF Lead
    <3>4. Len(i.ops) <= Len(i.types) /\ OpcodeBytes(i) \in Seq(Int)
      BY <1>2, <3>1
    <3> QED BY <1>1, <2>2, <3>3, <3>4, Settles
  <2> QED BY <2>1, <2>2
<1> QED BY <1>1, <1>2, <1>3, <1>4 DEF Decoding

\* the types byte,
LEMMA TypesStep ==
  ASSUME NEW c, NEW i, Decoding("types", c, i), NEW b \in Octet, TypesLegal(b),
         NEW j, j = [i EXCEPT !.types = TypesGiven(b)]
  PROVE  Decoding(AfterOperands(j), Append(c, b), j)
<1>1. c \in Seq(Octet) /\ i \in Instruction
  BY DEF Decoding
<1>2. /\ i.form = "variable" /\ i.count \in {"count2OP", "countVAR"}
      /\ i.types = <<>> /\ i.ops = <<>> /\ Unread(i)
      /\ c = <<FirstByte(i)>>
  BY DEF Decoding, Begun
<1>3. /\ TypesGiven(b) \in Seq(0 .. 3) /\ Len(TypesGiven(b)) <= 4
      /\ TypesByte(TypesGiven(b)) = b
  BY TypesRead
<1>4. /\ j.form = "variable" /\ j.count = i.count /\ j.number = i.number /\ j.types = TypesGiven(b)
      /\ j.ops = <<>> /\ Unread(j) /\ j \in Instruction
  <2>1. j \in Instruction
    BY <1>1, <1>3, FieldTyped
  <2> QED BY <1>1, <1>2, <2>1, TypesApart DEF Unread
<1>5. Append(c, b) \in Seq(Octet)
  BY <1>1, AppendProperties
<1>6. Append(c, b) = <<FirstByte(i), b>>
  <2>1. PICK f : f = FirstByte(i)
    OBVIOUS
  <2>2. c = <<f>> /\ f \in Octet
    <3>1. c = <<f>> /\ c[1] = f /\ Len(c) = 1
      BY <1>2, <2>1
    <3>2. 1 \in 1 .. Len(c)
      BY <3>1
    <3> QED BY <1>1, <3>1, <3>2, ElementOfSeq
  <2>3. Append(<<f>>, b) = <<f, b>>
    BY <2>2, PairOf
  <2> QED BY <2>1, <2>2, <2>3
<1>7. OpcodeBytes(j) = <<FirstByte(i), b>>
  BY <1>3, <1>4 DEF OpcodeBytes, FirstByte
<1>8. OpcodeBytes(j) \in Seq(Int)
  <2>1. <<>> \in Seq(Octet)
    OBVIOUS
  <2> QED BY <1>5, <1>6, <1>7, <2>1, OctetJoins
<1>9. Lead(j) = OpcodeBytes(j)
  <2>1. OperandBytes(j) = <<>>
    <3>1. j.ops \in Seq(Nat)
      BY <1>4, EmptySeq
    <3> QED BY <1>4, <3>1, OperandsOf
  <2> QED BY <1>8, <2>1, ConcatEmptySeq DEF Lead
<1>10. Len(j.ops) = 0 /\ Len(j.types) \in Nat /\ Len(j.types) <= 4
  BY <1>3, <1>4, LenProperties
<1>11. AfterOperands(j) \in DecoderPhases /\ Begun(AfterOperands(j), Append(c, b), j)
  <2>1. j.form # "none" /\ Len(j.ops) <= Len(j.types) /\ Append(c, b) = Lead(j)
    BY <1>4, <1>6, <1>7, <1>9, <1>10
  <2> QED BY <1>4, <1>8, <2>1, Settles
<1> QED BY <1>4, <1>5, <1>10, <1>11 DEF Decoding

\* an operand of one or two bytes,
LEMMA OperandStep ==
  ASSUME NEW c, NEW i, Decoding("operands", c, i), Len(i.ops) < Len(i.types),
         NEW v \in Nat, NEW piece \in Seq(Octet),
         (IF i.types[Len(i.ops) + 1] = Large THEN WordBytes(v) ELSE <<v>>) = piece,
         NEW j, j = [i EXCEPT !.ops = Append(i.ops, v)]
  PROVE  Decoding(AfterOperands(j), c \o piece, j)
<1>1. c \in Seq(Octet) /\ i \in Instruction /\ Len(i.types) <= 4
  BY DEF Decoding
<1>2. OpcodeBytes(i) \in Seq(Int) /\ i.form # "none" /\ Unread(i) /\ c = Lead(i)
  BY DEF Decoding, Begun
<1>4. piece \in Seq(Int) /\ c \o piece \in Seq(Octet)
  BY <1>1, OctetJoins
<1>7. i.ops \in Seq(Nat) /\ Append(i.ops, v) \in Seq(Nat) /\ Len(Append(i.ops, v)) = Len(i.ops) + 1
  BY <1>1, AppendProperties DEF Instruction
<1>8. /\ j.form = i.form /\ j.count = i.count /\ j.number = i.number /\ j.types = i.types /\ j.ops = Append(i.ops, v)
      /\ j.store = i.store /\ j.branch = i.branch /\ j.text = i.text
  BY <1>1, OpsApart
<1>9. j \in Instruction
  BY <1>1, <1>7, FieldTyped
<1>10. OpcodeBytes(j) = OpcodeBytes(i)
  BY <1>8, OpcodeSame
<1>11. OperandBytes(j) = OperandBytes(i) \o piece /\ OperandBytes(i) \in Seq(Int)
  <2>1. OperandBytes(j) = OperandBytes(i) \o (IF i.types[Len(i.ops) + 1] = Large THEN WordBytes(v) ELSE <<v>>)
    BY <1>7, <1>8, OperandsOf
  <2> QED BY <1>7, <2>1, OperandsOf
<1>12. Lead(j) = c \o piece
  <2>1. Lead(j) = OpcodeBytes(i) \o (OperandBytes(i) \o piece)
    BY <1>10, <1>11 DEF Lead
  <2>2. c = OpcodeBytes(i) \o OperandBytes(i)
    BY <1>2 DEF Lead
  <2>3. (OpcodeBytes(i) \o OperandBytes(i)) \o piece = OpcodeBytes(i) \o (OperandBytes(i) \o piece)
    <3>1. OpcodeBytes(i) \in Seq(Int) /\ OperandBytes(i) \in Seq(Int) /\ piece \in Seq(Int)
      BY <1>2, <1>4, <1>11
    <3> QED BY <3>1, IntJoins, Zenon
  <2> QED BY <2>1, <2>2, <2>3
<1>13. Len(i.ops) \in Nat /\ Len(i.types) \in Nat
  BY <1>1, LenProperties DEF Instruction
<1>14. Len(j.ops) <= Len(j.types) /\ Len(j.types) <= 4
  BY <1>1, <1>7, <1>8, <1>13
<1>15. AfterOperands(j) \in DecoderPhases /\ Begun(AfterOperands(j), c \o piece, j)
  <2>1. Unread(j) /\ j.form # "none" /\ OpcodeBytes(j) \in Seq(Int)
    BY <1>2, <1>8, <1>10 DEF Unread
  <2> QED BY <1>9, <1>12, <1>14, <2>1, Settles
<1> QED BY <1>4, <1>9, <1>14, <1>15 DEF Decoding

\* the variable of the result,
LEMMA StoreStep ==
  ASSUME NEW c, NEW i, Decoding("store", c, i), NEW b \in Octet,
         NEW j, j = [i EXCEPT !.store = b]
  PROVE  Decoding(AfterOperands(j), Append(c, b), j)
<1>1. c \in Seq(Octet) /\ i \in Instruction /\ Len(i.types) <= 4
  BY DEF Decoding
<1>2. /\ OpcodeBytes(i) \in Seq(Int) /\ i.form # "none" /\ Unread(i) /\ c = Lead(i)
      /\ Has(i, "store") /\ Len(i.ops) = Len(i.types)
  BY DEF Decoding, Begun
<1>3. /\ SameOpening(i, j) /\ j.store = b /\ j.branch = NoBranch /\ j.text = <<>> /\ j \in Instruction
      /\ j.form = i.form /\ j.ops = i.ops /\ j.types = i.types
  <2>1. j \in Instruction
    BY <1>1, FieldTyped, OctetPair
  <2> QED BY <1>1, <1>2, <2>1, StoreApart DEF Unread, SameOpening
<1>4. OpcodeBytes(j) = OpcodeBytes(i) /\ Lead(j) = Lead(i) /\ Has(j, "store")
  BY <1>2, <1>3, OpeningOf
<1>5. Append(c, b) = c \o <<b>> /\ Append(c, b) \in Seq(Octet)
  BY <1>1, AppendIsConcat, AppendProperties
<1>6. Opening(j) = Append(c, b)
  BY <1>2, <1>3, <1>4, <1>5 DEF Opening, StorePart
<1>7. j.store # -1
  BY <1>3, OctetPair
<1>8. AfterOperands(j) \in DecoderPhases /\ Begun(AfterOperands(j), Append(c, b), j)
  BY <1>2, <1>3, <1>4, <1>6, <1>7, StoreKept
<1>9. Len(i.ops) \in Nat /\ Len(i.types) \in Nat
  BY <1>1, LenProperties DEF Instruction
<1> QED BY <1>1, <1>2, <1>3, <1>5, <1>8, <1>9 DEF Decoding

\* the first byte of a branch, which may be all of it,
LEMMA BranchStep ==
  ASSUME NEW c, NEW i, Decoding("branch", c, i), NEW b \in Octet,
         NEW j \in Instruction, SameOpening(i, j), j.store = i.store, j.text = i.text,
         j.branch.offset \in 0 .. 63,
         j.branch.long => FirstBranchByte(j.branch) = b,
         ~j.branch.long => BranchBytes(j.branch) = <<b>>
  PROVE  Decoding(IF j.branch.long THEN "branchLow" ELSE "done", Append(c, b), j)
<1>1. c \in Seq(Octet) /\ i \in Instruction /\ Len(i.types) <= 4 /\ Len(i.ops) <= Len(i.types)
  BY DEF Decoding
<1>2. OpcodeBytes(i) \in Seq(Int) /\ Branches(i) /\ i.text = <<>> /\ c = Opening(i)
  BY DEF Decoding, Begun
<1>3. Opening(j) = c /\ Branches(j) /\ OpcodeBytes(j) = OpcodeBytes(i)
  BY <1>2, OpeningOf
<1>4. PICK d : d = Append(c, b)
  OBVIOUS
<1>5. d = c \o <<b>> /\ d \in Seq(Octet)
  BY <1>1, <1>4, AppendIsConcat, AppendProperties
<1>6. Len(j.types) <= 4 /\ Len(j.ops) <= Len(j.types)
  BY <1>1 DEF SameOpening
<1>7. j.text = <<>> /\ OpcodeBytes(j) \in Seq(Int)
  BY <1>2, <1>3
<1>8. CASE j.branch.long
  <2>1. d = Opening(j) \o <<FirstBranchByte(j.branch)>>
    BY <1>3, <1>5, <1>8
  <2>2. Begun("branchLow", d, j)
    BY <1>3, <1>7, <1>8, <2>1 DEF Begun
  <2>3. Decoding("branchLow", d, j)
    BY <1>5, <1>6, <2>2 DEF Decoding, DecoderPhases
  <2> QED BY <1>4, <1>8, <2>3
<1>9. CASE ~j.branch.long
  <2>1. TextBytes(j.text) = <<>>
    BY <1>7, EmptySeq, TextOf
  <2>2. d \o <<>> = d
    BY <1>5, ConcatEmptySeq
  <2>3. Encoding(j) = d
    BY <1>3, <1>5, <1>9, <2>1, <2>2, EncodingParts
  <2>4. Complete(d, j)
    BY <1>7, <1>9, <2>3 DEF Complete
  <2>5. Begun("done", d, j)
    BY <1>7, <2>4 DEF Begun
  <2>6. Decoding("done", d, j)
    BY <1>5, <1>6, <2>5 DEF Decoding, DecoderPhases
  <2> QED BY <1>4, <1>9, <2>6
<1> QED BY <1>8, <1>9

\* A branch of two bytes ends its instruction.
LEMMA LongComplete ==
  ASSUME NEW i, NEW c, Encoding(i) = c, i.text = <<>>, i.branch.long, LongRange(i.branch)
  PROVE  Complete(c, i)
BY DEF Complete

\* the second byte of a branch,
LEMMA BranchLowStep ==
  ASSUME NEW c, NEW i, Decoding("branchLow", c, i), NEW b \in Octet,
         NEW j \in Instruction, SameOpening(i, j), j.store = i.store, j.text = i.text,
         j.branch.long = TRUE, LongRange(j.branch),
         BranchBytes(j.branch) = <<FirstBranchByte(i.branch), b>>
  PROVE  Decoding("done", Append(c, b), j)
<1>1. c \in Seq(Octet) /\ i \in Instruction /\ Len(i.types) <= 4 /\ Len(i.ops) <= Len(i.types)
  BY DEF Decoding
<1>2. /\ OpcodeBytes(i) \in Seq(Int) /\ Branches(i) /\ i.text = <<>>
      /\ i.branch.offset \in 0 .. 63
      /\ c = Opening(i) \o <<FirstBranchByte(i.branch)>>
  BY DEF Decoding, Begun
<1>3. Opening(j) = Opening(i) /\ Branches(j) /\ OpcodeBytes(j) = OpcodeBytes(i)
  BY <1>2, OpeningOf
<1>4. OpcodeBytes(j) \in Seq(Int) /\ Opening(i) \in Seq(Int)
  BY <1>1, <1>2, <1>3, OpeningTyped
<1>5. PICK d, f : d = Append(c, b) /\ f = FirstBranchByte(i.branch)
  OBVIOUS
<1>6. d = c \o <<b>> /\ d \in Seq(Octet)
  BY <1>1, <1>5, AppendIsConcat, AppendProperties
<1>7. d = Opening(j) \o BranchBytes(j.branch)
  <2>1. f \in Int /\ b \in Int
    <3>1. i.branch.offset \in Int
      <4>1. i.branch.offset \in 0 .. 63
        BY <1>2, Zenon
      <4> QED BY <4>1
    <3> QED BY <1>5, <3>1, OctetPair DEF FirstBranchByte
  <2>2. <<f>> \in Seq(Int) /\ <<b>> \in Seq(Int)
    BY <2>1
  <2>3. <<f>> \o <<b>> = <<f, b>>
    BY <2>1, PairOf
  <2>4. (Opening(i) \o <<f>>) \o <<b>> = Opening(i) \o (<<f>> \o <<b>>)
    BY <1>4, <2>2, IntJoins, Zenon
  <2> QED BY <1>2, <1>3, <1>5, <1>6, <2>3, <2>4
<1>8. TextBytes(j.text) = <<>>
  BY <1>2, EmptySeq, TextOf
<1>9. d \o <<>> = d
  BY <1>6, ConcatEmptySeq
<1>10. Encoding(j) = d
  BY <1>3, <1>7, <1>8, <1>9, EncodingParts
<1>11. Complete(d, j)
  <2>1. j.text = <<>>
    BY <1>2
  <2>2. j.branch.long /\ LongRange(j.branch)
    OBVIOUS
  <2> QED BY <1>10, <2>1, <2>2, LongComplete
<1>12. Begun("done", d, j)
  BY <1>4, <1>11 DEF Begun
<1>13. Len(j.types) <= 4 /\ Len(j.ops) <= Len(j.types)
  BY <1>1 DEF SameOpening
<1>14. Decoding("done", d, j)
  BY <1>6, <1>12, <1>13 DEF Decoding, DecoderPhases
<1> QED BY <1>5, <1>14

\* and a word of the text, which its mark ends.
LEMMA TextStep ==
  ASSUME NEW c, NEW i, Decoding("text", c, i), NEW piece \in Seq(Octet),
         NEW w \in Nat, WordBytes(w) = piece,
         NEW j \in Instruction, SameOpening(i, j), j.store = i.store, j.branch = i.branch, j.text = Append(i.text, w)
  PROVE  Decoding(IF w >= 32768 THEN "done" ELSE "text", c \o piece, j)
<1>1. c \in Seq(Octet) /\ i \in Instruction /\ Len(i.types) <= 4 /\ Len(i.ops) <= Len(i.types)
  BY DEF Decoding
<1>2. /\ OpcodeBytes(i) \in Seq(Int) /\ ~Branches(i) /\ i.branch = NoBranch
      /\ \A k \in 1 .. Len(i.text) : i.text[k] < 32768
      /\ c = Opening(i) \o TextBytes(i.text)
  BY DEF Decoding, Begun
<1>3. PICK n, text, d : n = Len(i.text) /\ text = j.text /\ d = c \o piece
  OBVIOUS
<1>4. i.text \in Seq(Nat)
  BY <1>1 DEF Instruction
<1>5. n \in Nat /\ text \in Seq(Nat) /\ Len(text) = n + 1 /\ text[n + 1] = w /\ \A k \in 1 .. n : text[k] = i.text[k]
  BY <1>3, <1>4, AppendProperties, LenProperties
<1>6. Opening(j) = Opening(i) /\ ~Branches(j) /\ OpcodeBytes(j) = OpcodeBytes(i)
  BY <1>2, OpeningOf
<1>7. OpcodeBytes(j) \in Seq(Int) /\ Opening(i) \in Seq(Int)
  BY <1>1, <1>2, <1>6, OpeningTyped
<1>8. d \in Seq(Octet) /\ piece \in Seq(Int)
  BY <1>1, <1>3, OctetJoins
<1>9. TextBytes(text) = TextBytes(i.text) \o piece
  BY <1>3, <1>4, TextOf
<1>10. TextBytes(i.text) \in Seq(Int)
  BY <1>4, TextOf
<1>11. d = Opening(j) \o TextBytes(text)
  <2>1. (Opening(i) \o TextBytes(i.text)) \o piece = Opening(i) \o (TextBytes(i.text) \o piece)
    <3>1. Opening(i) \in Seq(Int) /\ TextBytes(i.text) \in Seq(Int) /\ piece \in Seq(Int)
      BY <1>7, <1>8, <1>10
    <3> QED BY <3>1, IntJoins, Zenon
  <2> QED BY <1>2, <1>3, <1>6, <1>9, <2>1
<1>12. \A k \in 1 .. n + 1 : text[k] = (IF k = n + 1 THEN w ELSE i.text[k]) /\ (k # n + 1 => k \in 1 .. n)
  BY <1>5
<1>13. \A k \in 1 .. n : i.text[k] \in Nat /\ i.text[k] < 32768
  <2>1. \A k \in 1 .. n : i.text[k] \in Nat
    BY <1>3, <1>4, ElementOfSeq
  <2>2. \A k \in 1 .. n : i.text[k] < 32768
    BY <1>2, <1>3
  <2> QED BY <2>1, <2>2
<1>14. Len(j.types) <= 4 /\ Len(j.ops) <= Len(j.types)
  BY <1>1 DEF SameOpening
<1>15. CASE w >= 32768
  <2>1. Encoding(j) = d
    <3>1. Opening(j) \o <<>> = Opening(j)
      BY <1>6, <1>7, ConcatEmptySeq
    <3> QED BY <1>3, <1>6, <1>11, <3>1, EncodingParts
  <2>2. \A k \in 1 .. Len(text) : (text[k] >= 32768) = (k = Len(text))
    <3>1. \A k \in 1 .. n + 1 : (text[k] >= 32768) <=> (k = n + 1)
      <4> SUFFICES ASSUME NEW k \in 1 .. n + 1
                   PROVE  text[k] >= 32768 <=> k = n + 1
        OBVIOUS
      <4>1. CASE k = n + 1
        BY <1>5, <1>15, <4>1
      <4>2. CASE k # n + 1
        <5>1. k \in 1 .. n
          BY <1>12, <4>2
        <5>2. text[k] = i.text[k]
          BY <1>5, <5>1
        <5>3. i.text[k] \in Nat /\ i.text[k] < 32768
          BY <1>13, <5>1
        <5>4. ~(text[k] >= 32768)
          BY <5>2, <5>3
        <5> QED BY <4>2, <5>4
      <4> QED BY <4>1, <4>2
    <3> QED BY <1>5, <3>1
  <2>3. j.branch.offset = 0 /\ ~j.branch.long
    BY <1>2 DEF NoBranch
  <2>4. Complete(d, j)
    <3>1. \A k \in 1 .. Len(j.text) : (j.text[k] >= 32768) = (k = Len(j.text))
      BY <1>3, <2>2
    <3> QED BY <2>1, <2>3, <3>1 DEF Complete
  <2>5. Begun("done", d, j)
    BY <1>7, <2>4 DEF Begun
  <2>6. Decoding("done", d, j)
    BY <1>8, <1>14, <2>5 DEF Decoding, DecoderPhases
  <2> QED BY <1>3, <1>15, <2>6
<1>16. CASE ~(w >= 32768)
  <2>1. \A k \in 1 .. Len(j.text) : j.text[k] < 32768
    <3>1. \A k \in 1 .. n + 1 : text[k] < 32768
      BY <1>5, <1>12, <1>13, <1>16
    <3> QED BY <1>3, <1>5, <3>1
  <2>2. Begun("text", d, j)
    <3>1. ~Branches(j) /\ j.branch = NoBranch /\ d = Opening(j) \o TextBytes(j.text)
      BY <1>2, <1>3, <1>6, <1>11
    <3> QED BY <1>7, <2>1, <3>1 DEF Begun
  <2>3. Decoding("text", d, j)
    BY <1>8, <1>14, <2>2 DEF Decoding, DecoderPhases
  <2> QED BY <1>3, <1>16, <2>3
<1> QED BY <1>15, <1>16

-----------------------------------------------------------------------------
\* Nothing has been read of an instruction.
LEMMA NothingRead ==
  ASSUME NEW p \in {"opcode", "branch", "fault"}
  PROVE  Decoding(p, <<>>, NoInstruction)
<1> DEFINE i == NoInstruction
<1>1. /\ i.form = "none" /\ i.count = "count0OP" /\ i.number = 0 /\ i.types = <<>> /\ i.ops = <<>>
      /\ i.store = -1 /\ i.branch = NoBranch /\ i.text = <<>>
  BY DEF NoInstruction, Opcode
<1>2. i \in Instruction
  BY DEF NoInstruction, Opcode, Instruction, NoBranch
<1>3. Len(i.ops) = 0 /\ Len(i.types) = 0
  BY <1>1, EmptySeq
<1> HIDE DEF i
<1>4. OpcodeBytes(i) = <<>> /\ <<>> \in Seq(Int) /\ <<>> \in Seq(Octet)
  BY <1>1, EmptySeq DEF OpcodeBytes
<1>5. OperandBytes(i) = <<>>
  BY <1>1, EmptySeq, OperandsOf
<1>6. StorePart(i) = <<>> /\ Branches(i)
  BY <1>1 DEF StorePart, Branches
<1>7. Opening(i) = <<>>
  BY <1>4, <1>5, <1>6, ConcatEmptySeq DEF Opening, Lead
<1>8. Begun(p, <<>>, i)
  <2>1. p \notin {"types", "operands", "store", "branchLow", "text", "done"}
    OBVIOUS
  <2>2. p \in {"opcode", "fault"} => i = NoInstruction
    BY DEF i
  <2> QED BY <1>1, <1>4, <1>6, <1>7, <2>1, <2>2 DEF Begun
<1>9. p \in DecoderPhases
  BY DEF DecoderPhases
<1> QED BY <1>2, <1>3, <1>4, <1>8, <1>9 DEF Decoding, i

LEMMA LongOffsetsWhole ==
  LongOffsets \subseteq Int
BY DEF LongOffsets

\* A decoder that has read nothing.
LEMMA DecoderStarts ==
  ASSUME DecoderInit \/ (phase = "opcode" /\ code = <<>> /\ inst = NoInstruction)
  PROVE  DecoderInv
<1>1. phase \in {"opcode", "branch"} /\ code = <<>> /\ inst = NoInstruction
  BY DEF DecoderInit
<1>2. phase \in {"opcode", "branch", "fault"}
  BY <1>1
<1> QED BY <1>1, <1>2, NothingRead DEF DecoderInv

\* Every byte that is read, and every refusal, keeps what has been read together.
LEMMA DecoderKept ==
  ASSUME DecoderInv, DecoderNext
  PROVE  DecoderInv'
<1>1. SUFFICES Decoding(phase', code', inst')
  BY DEF DecoderInv
<1>2. Decoding(phase, code, inst)
  BY DEF DecoderInv
<1>3. /\ ByteChoices["opcode"] \subseteq Octet /\ ByteChoices["types"] \subseteq Octet
      /\ ByteChoices["operands"] \subseteq Octet /\ ByteChoices["store"] \subseteq Octet
      /\ ByteChoices["branch"] \subseteq Octet /\ ByteChoices["branchLow"] \subseteq Octet
      /\ ByteChoices["text"] \subseteq Octet
  BY DecoderAssumption DEF Octet
<1>4. ASSUME DecodeFault
      PROVE  Decoding(phase', code', inst')
  BY <1>4, NothingRead DEF DecodeFault
<1>5. CASE Truncated \/ MalformedText
  BY <1>4, <1>5 DEF Truncated, MalformedText
<1>6. CASE DecodeNext
  BY <1>6, NothingRead DEF DecodeNext
<1>7. ASSUME NEW b, ReadOpcode(b)
      PROVE  Decoding(phase', code', inst')
  <2>1. PICK i : i = FromOpcodeByte(b)
    OBVIOUS
  <2>2. CASE Has(i, "defined")
    <3>1. /\ phase = "opcode" /\ b \in Octet /\ code' = Append(code, b) /\ inst' = i
          /\ phase' = IF i.form = "variable" THEN "types" ELSE AfterOperands(i)
      BY <1>3, <1>7, <2>1, <2>2 DEF ReadOpcode, Take
    <3>2. code = <<>>
      BY <1>2, <3>1 DEF Decoding, Begun
    <3>3. code' = <<b>>
      BY <3>1, <3>2
    <3>4. PICK p : p = IF i.form = "variable" THEN "types" ELSE AfterOperands(i)
      OBVIOUS
    <3>5. Decoding(p, <<b>>, i)
      BY <2>1, <3>1, <3>4, OpcodeStep
    <3> QED BY <3>1, <3>3, <3>4, <3>5
  <2>3. CASE ~Has(i, "defined")
    BY <1>4, <1>7, <2>1, <2>3 DEF ReadOpcode
  <2> QED BY <2>2, <2>3
<1>8. ASSUME NEW b, ReadTypes(b)
      PROVE  Decoding(phase', code', inst')
  <2>1. CASE TypesLegal(b)
    <3>1. /\ phase = "types" /\ b \in Octet /\ code' = Append(code, b)
          /\ inst' = [inst EXCEPT !.types = TypesGiven(b)] /\ phase' = AfterOperands(inst')
      BY <1>3, <1>8, <2>1 DEF ReadTypes, Take
    <3>2. PICK j : j = inst'
      OBVIOUS
    <3>3. Decoding(AfterOperands(j), Append(code, b), j)
      BY <1>2, <2>1, <3>1, <3>2, TypesStep
    <3> QED BY <3>1, <3>2, <3>3
  <2>2. CASE ~TypesLegal(b)
    BY <1>4, <1>8, <2>2 DEF ReadTypes
  <2> QED BY <2>1, <2>2
<1>9. ASSUME NEW b, NEW low, ReadOperand(b, low)
      PROVE  Decoding(phase', code', inst')
  <2>1. PICK type, v, piece :
            /\ type = inst.types[Len(inst.ops) + 1]
            /\ v = (IF type = Large THEN b * 256 + low ELSE b)
            /\ piece = (IF type = Large THEN <<b, low>> ELSE <<b>>)
    OBVIOUS
  <2>2. /\ Len(inst.ops) < Len(inst.types) /\ phase = "operands" /\ b \in Octet /\ low \in Octet
        /\ code' = code \o piece /\ inst' = [inst EXCEPT !.ops = Append(@, v)]
        /\ phase' = AfterOperands(inst')
    BY <1>3, <1>9, <2>1 DEF ReadOperand
  <2>3. v \in Nat /\ piece \in Seq(Octet) /\ (IF type = Large THEN WordBytes(v) ELSE <<v>>) = piece
    BY <2>1, <2>2, WordRead, OctetPair
  <2>4. PICK j : j = inst'
    OBVIOUS
  <2>5. j = [inst EXCEPT !.ops = Append(inst.ops, v)]
    BY <2>2, <2>4
  <2>6. Decoding("operands", code, inst)
    BY <1>2, <2>2
  <2>7. (IF inst.types[Len(inst.ops) + 1] = Large THEN WordBytes(v) ELSE <<v>>) = piece
    BY <2>1, <2>3
  <2>8. Decoding(AfterOperands(j), code \o piece, j)
    BY <2>2, <2>3, <2>5, <2>6, <2>7, OperandStep
  <2> QED BY <2>2, <2>4, <2>8
<1>10. ASSUME NEW b, ReadStore(b)
       PROVE  Decoding(phase', code', inst')
  <2>1. /\ phase = "store" /\ b \in Octet /\ code' = Append(code, b)
        /\ inst' = [inst EXCEPT !.store = b] /\ phase' = AfterOperands(inst')
    BY <1>3, <1>10 DEF ReadStore, Take
  <2>2. PICK j : j = inst'
    OBVIOUS
  <2>3. Decoding(AfterOperands(j), Append(code, b), j)
    BY <1>2, <2>1, <2>2, StoreStep
  <2> QED BY <2>1, <2>2, <2>3
<1>11. ASSUME NEW b, ReadBranch(b)
       PROVE  Decoding(phase', code', inst')
  <2>1. PICK branch : branch = [onTrue |-> b >= 128, long |-> b % 128 < 64, offset |-> b % 64]
    OBVIOUS
  <2>2. /\ phase = "branch" /\ b \in Octet /\ code' = Append(code, b)
        /\ inst' = [inst EXCEPT !.branch = branch]
        /\ phase' = IF b % 128 < 64 THEN "branchLow" ELSE "done"
    BY <1>3, <1>11, <2>1 DEF ReadBranch, Take
  <2>3. /\ branch.offset \in 0 .. 63 /\ branch \in [onTrue : BOOLEAN, long : BOOLEAN, offset : Int]
        /\ branch.long => FirstBranchByte(branch) = b
        /\ ~branch.long => BranchBytes(branch) = <<b>>
    BY <2>1, <2>2, ShortBranchRead
  <2>4. branch.long <=> b % 128 < 64
    BY <2>1
  <2>5. PICK j : j = inst'
    OBVIOUS
  <2>6. inst \in Instruction /\ Decoding("branch", code, inst)
    BY <1>2, <2>2 DEF Decoding
  <2>7. j \in Instruction
    BY <2>2, <2>3, <2>5, <2>6, FieldTyped
  <2>8. SameOpening(inst, j) /\ j.store = inst.store /\ j.branch = branch /\ j.text = inst.text
    BY <2>2, <2>5, <2>6, BranchApart DEF SameOpening
  <2>9. Decoding(IF j.branch.long THEN "branchLow" ELSE "done", Append(code, b), j)
    BY <2>2, <2>3, <2>6, <2>7, <2>8, BranchStep
  <2> QED BY <2>2, <2>4, <2>5, <2>8, <2>9
<1>12. ASSUME NEW b, ReadBranchLow(b)
       PROVE  Decoding(phase', code', inst')
  <2>1. /\ phase = "branchLow" /\ b \in Octet /\ code' = Append(code, b)
        /\ inst' = [inst EXCEPT !.branch.offset = LongOffset(@, b)] /\ phase' = "done"
    BY <1>3, <1>12 DEF ReadBranchLow, Take
  <2>2. PICK old, onTrue, offset, branch :
            /\ old = inst.branch /\ onTrue = old.onTrue /\ offset = old.offset
            /\ branch = [onTrue |-> onTrue, long |-> TRUE, offset |-> LongOffset(offset, b)]
    OBVIOUS
  <2>3. inst \in Instruction /\ Decoding("branchLow", code, inst)
    BY <1>2, <2>1 DEF Decoding
  <2>4. inst.branch.long /\ inst.branch.offset \in 0 .. 63
    BY <2>3 DEF Decoding, Begun
  <2>5. old \in [onTrue : BOOLEAN, long : BOOLEAN, offset : Int] /\ old.long /\ offset \in 0 .. 63
    BY <2>2, <2>3, <2>4 DEF Instruction
  <2>6. onTrue \in BOOLEAN /\ old.long = TRUE
    BY <2>2, <2>5
  <2>7. LongRange(branch) /\ BranchBytes(branch) = <<(IF onTrue THEN 128 ELSE 0) + offset, b>>
    <3>1. branch = [onTrue |-> onTrue, long |-> TRUE, offset |-> LongOffset(offset, b)]
      BY <2>2
    <3>2. b \in Octet /\ offset \in 0 .. 63 /\ onTrue \in BOOLEAN
      BY <2>1, <2>5, <2>6
    <3> QED BY <3>1, <3>2, LongBranchRead
  <2>8. BranchBytes(branch) = <<FirstBranchByte(inst.branch), b>>
    BY <2>2, <2>7 DEF FirstBranchByte
  <2>9. branch = [old EXCEPT !.offset = LongOffset(@, b)]
    <3>1. old = [onTrue |-> onTrue, long |-> TRUE, offset |-> offset]
      BY <2>2, <2>5, <2>6
    <3>2. PICK low : low = LongOffset(offset, b)
      OBVIOUS
    <3>3. low \in Int /\ branch.onTrue = old.onTrue /\ branch.long = old.long /\ branch.offset = low
      BY <2>2, <2>5, <2>7, <3>2, LongOffsetsWhole DEF LongRange
    <3>4. branch \in [onTrue : BOOLEAN, long : BOOLEAN, offset : Int]
      BY <2>2, <2>6, <3>2, <3>3
    <3>5. branch = [old EXCEPT !.offset = low]
      BY <2>5, <3>3, <3>4
    <3> QED BY <2>2, <3>2, <3>5
  <2>10. inst' = [inst EXCEPT !.branch = branch]
    BY <2>1, <2>2, <2>9
  <2>11. branch \in [onTrue : BOOLEAN, long : BOOLEAN, offset : Int] /\ branch.long = TRUE
    <3>1. LongOffset(offset, b) \in Int
      <4>1. branch.offset = LongOffset(offset, b)
        BY <2>2
      <4>2. branch.offset \in Int
        BY <2>7, LongOffsetsWhole DEF LongRange
      <4> QED BY <4>1, <4>2
    <3> QED BY <2>2, <2>6, <3>1
  <2>12. PICK j : j = inst'
    OBVIOUS
  <2>13. j \in Instruction
    BY <2>3, <2>10, <2>11, <2>12, FieldTyped
  <2>14. SameOpening(inst, j) /\ j.store = inst.store /\ j.branch = branch /\ j.text = inst.text
    BY <2>3, <2>10, <2>12, BranchApart DEF SameOpening
  <2>15. Decoding("done", Append(code, b), j)
    <3>1. j.branch.long = TRUE /\ LongRange(j.branch) /\ BranchBytes(j.branch) = <<FirstBranchByte(inst.branch), b>>
      BY <2>7, <2>8, <2>11, <2>14
    <3> QED BY <2>1, <2>3, <2>13, <2>14, <3>1, BranchLowStep
  <2> QED BY <2>1, <2>12, <2>15
<1>13. ASSUME NEW high, NEW low, ReadText(high, low)
       PROVE  Decoding(phase', code', inst')
  <2>1. PICK w, piece : w = high * 256 + low /\ piece = <<high, low>>
    OBVIOUS
  <2>2. /\ phase = "text" /\ high \in Octet /\ low \in Octet /\ code' = code \o piece
        /\ inst' = [inst EXCEPT !.text = Append(@, w)]
        /\ phase' = IF high >= 128 THEN "done" ELSE "text"
    BY <1>3, <1>13, <2>1 DEF ReadText
  <2>3. w \in Nat /\ WordBytes(w) = piece /\ piece \in Seq(Octet)
    BY <2>1, <2>2, WordRead, OctetPair
  <2>4. w >= 32768 <=> high >= 128
    <3>1. high \in 0 .. 255 /\ low \in 0 .. 255 /\ w = high * 256 + low
      BY <2>1, <2>2 DEF Octet
    <3> QED BY <3>1
  <2>5. inst \in Instruction /\ Decoding("text", code, inst)
    BY <1>2, <2>2 DEF Decoding
  <2>6. PICK j, text : j = inst' /\ text = Append(inst.text, w)
    OBVIOUS
  <2>7. text \in Seq(Nat)
    <3>1. inst.text \in Seq(Nat)
      BY <2>5 DEF Instruction
    <3> QED BY <2>3, <2>6, <3>1, AppendProperties
  <2>8. j = [inst EXCEPT !.text = text]
    BY <2>2, <2>6
  <2>9. j \in Instruction
    BY <2>5, <2>7, <2>8, FieldTyped
  <2>10. SameOpening(inst, j) /\ j.store = inst.store /\ j.branch = inst.branch /\ j.text = Append(inst.text, w)
    BY <2>5, <2>6, <2>8, TextApart DEF SameOpening
  <2>11. Decoding(IF w >= 32768 THEN "done" ELSE "text", code \o piece, j)
    BY <2>3, <2>5, <2>9, <2>10, TextStep
  <2> QED BY <2>2, <2>4, <2>6, <2>11
<1> QED BY <1>5, <1>6, <1>7, <1>8, <1>9, <1>10, <1>11, <1>12, <1>13 DEF DecoderNext

\* What the invariant says of a decoder, finished or not.
LEMMA DecoderMeans ==
  ASSUME DecoderInv
  PROVE  DecoderTypeOK /\ EncodesBack
<1>1. Decoding(phase, code, inst)
  BY DEF DecoderInv
<1>2. DecoderTypeOK
  BY <1>1 DEF Decoding, DecoderTypeOK, Octet
<1>3. ASSUME phase = "done"
      PROVE  /\ Encoding(inst) = code
             /\ inst.branch.offset \in (IF inst.branch.long THEN LongOffsets ELSE 0 .. 63)
             /\ inst.text # <<>> =>
                  \A i \in 1 .. Len(inst.text) : (inst.text[i] >= 32768) = (i = Len(inst.text))
  <2>1. Complete(code, inst)
    BY <1>1, <1>3 DEF Decoding, Begun
  <2>2. inst.branch.offset \in (IF inst.branch.long THEN LongOffsets ELSE 0 .. 63)
    <3>1. CASE inst.branch.long
      <4>1. LongRange(inst.branch)
        BY <2>1, <3>1 DEF Complete
      <4>2. inst.branch.offset \in LongOffsets
        BY <4>1 DEF LongRange
      <4> QED BY <3>1, <4>2
    <3>2. CASE ~inst.branch.long
      BY <2>1, <3>2 DEF Complete
    <3> QED BY <3>1, <3>2
  <2>3. Encoding(inst) = code
    BY <2>1 DEF Complete
  <2>4. inst.text # <<>> =>
          \A i \in 1 .. Len(inst.text) : (inst.text[i] >= 32768) = (i = Len(inst.text))
    BY <2>1 DEF Complete
  <2> QED BY <2>2, <2>3, <2>4
<1> QED BY <1>2, <1>3 DEF EncodesBack

-----------------------------------------------------------------------------
(* What is decoded, Z-character by Z-character.                            *)

\* A text that has been decoded, or refused.
Result == [text : Seq(Code), fault : BOOLEAN]

Expansions == [0 .. 3 * ZLimit - 1 -> Result]

\* Two texts that say the same: both are refused, or neither and they are equal.
SaysSame(d, m) == d.fault = m.fault /\ (~d.fault => d.text = m.text)

Expectations == {"nothing", "abbreviation", "escape", "escapeBottom", "fault"}

\* What decodeZText keeps from one Z-character to the next.
ReadingState ==
    [ expect : {"nothing", "abbreviation", "escape", "escapeBottom", "fault"},
      held : ZChar, shift : 0 .. 2, text : Seq(Code) ]

-----------------------------------------------------------------------------
\* Z-characters and codes are numbers.
LEMMA ZCharsWhole ==
  /\ ZLimit \in Nat /\ ZLimit > 7 /\ ZChar \subseteq Nat /\ 0 \in ZChar
  /\ Code \subseteq Nat /\ CodeLimit = ZLimit * ZLimit /\ CodeLimit \in Nat
BY TextAssumption DEF ZChar, Code

\* Two Z-characters make a code of ten bits.
LEMMA TwoMakeCode ==
  ASSUME NEW h \in ZChar, NEW z \in ZChar
  PROVE  h * ZLimit + z \in Code
<1>1. PICK n \in Nat : n = ZLimit
  BY ZCharsWhole
<1>2. h \in 0 .. n - 1 /\ z \in 0 .. n - 1
  BY <1>1 DEF ZChar
<1>3. h * n <= (n - 1) * n
  BY <1>1, <1>2
<1>4. PICK x, y : x = h * n /\ y = n * n
  OBVIOUS
<1>5. (n - 1) * n = y - n /\ x \in Nat /\ y \in Nat
  BY <1>1, <1>2, <1>4
<1>6. x + z \in 0 .. y - 1
  BY <1>2, <1>3, <1>4, <1>5
<1>7. CodeLimit = y
  BY <1>1, <1>4, ZCharsWhole
<1> QED BY <1>1, <1>4, <1>6, <1>7 DEF Code

\* Two make the index of an abbreviation.
LEMMA TwoMakeIndex ==
  ASSUME NEW h \in 1 .. 3, NEW z \in ZChar
  PROVE  (h - 1) * ZLimit + z \in 0 .. 3 * ZLimit - 1 /\ (h - 1) * ZLimit + z = ZLimit * (h - 1) + z
<1>1. PICK n \in Nat : n = ZLimit
  BY ZCharsWhole
<1>2. z \in 0 .. n - 1
  BY <1>1 DEF ZChar
<1>3. CASE h = 1
  BY <1>1, <1>2, <1>3
<1>4. CASE h = 2
  BY <1>1, <1>2, <1>4
<1>5. CASE h = 3
  BY <1>1, <1>2, <1>5
<1> QED BY <1>3, <1>4, <1>5

\* What is printed of a code is codes.
LEMMA CodesPrinted ==
  \A c \in Code : Printed(c) \in Seq(Code)
BY DEF Printed

LEMMA AlphabetCodes ==
  \A a \in 0 .. 2, z \in 6 .. ZLimit - 1 : Alphabet(a)[z] \in Code
<1>1. \A alphabet \in {AlphabetA0, AlphabetA1, AlphabetA2} : alphabet \in [6 .. ZLimit - 1 -> Code]
  BY TextAssumption
<1>2. \A a \in 0 .. 2 : Alphabet(a) \in {AlphabetA0, AlphabetA1, AlphabetA2}
  BY DEF Alphabet
<1> QED BY <1>1, <1>2

\* Joining texts.
LEMMA CodesJoin ==
  /\ <<>> \in Seq(Code)
  /\ \A s, t \in Seq(Code) : s \o t \in Seq(Code)
  /\ \A s \in Seq(Code) : s \o <<>> = s /\ <<>> \o s = s
  /\ \A s, t, u \in Seq(Code) : (s \o t) \o u = s \o (t \o u)
<1>1. <<>> \in Seq(Code)
  BY EmptySeq
<1>2. \A s, t \in Seq(Code) : s \o t \in Seq(Code)
  BY ConcatProperties
<1>3. \A s \in Seq(Code) : s \o <<>> = s /\ <<>> \o s = s
  BY ConcatEmptySeq
<1>4. \A s, t, u \in Seq(Code) : (s \o t) \o u = s \o (t \o u)
  BY ConcatAssociative
<1> QED BY <1>1, <1>2, <1>3, <1>4

\* Words of one text, joined to those of another.
LEMMA ThenTyped ==
  ASSUME NEW d \in Result, NEW e \in Result
  PROVE  Then(d, e) \in Result
<1>1. d.text \in Seq(Code) /\ e.text \in Seq(Code) /\ d.fault \in BOOLEAN /\ e.fault \in BOOLEAN
  BY DEF Result
<1>2. d.text \o e.text \in Seq(Code)
  BY <1>1, CodesJoin
<1>3. (d.fault \/ e.fault) \in BOOLEAN
  BY <1>1
<1>4. Then(d, e) = [text |-> d.text \o e.text, fault |-> d.fault \/ e.fault]
  BY DEF Then
<1> QED BY <1>2, <1>3, <1>4 DEF Result

\* A text that is printed, and the lack of one.
LEMMA OfTyped ==
  ASSUME NEW t \in Seq(Code)
  PROVE  Of(t) \in Result /\ Of(t).text = t /\ Of(t).fault = FALSE
BY DEF Of, Result

LEMMA NoTextTyped ==
  NoText \in Result /\ NoText.fault = TRUE
BY CodesJoin DEF NoText, Result

-----------------------------------------------------------------------------
\* One Z-character, by what was expected.
LEMMA ReadingTyped ==
  ASSUME NEW expect \in Expectations, NEW held \in ZChar, NEW shift \in 0 .. 2, NEW text \in Seq(Code),
         NEW s, s = Reading(expect, held, shift, text)
  PROVE  /\ s \in ReadingState /\ s.expect = expect /\ s.held = held
         /\ s.shift = shift /\ s.text = text
BY DEF Reading, ReadingState, Expectations

\* A character ends what it was expected by (text.go).
LEMMA CharacterRead ==
  ASSUME NEW s \in ReadingState, NEW t \in Seq(Code)
  PROVE  /\ AfterCharacter(s, t) \in ReadingState /\ AfterCharacter(s, t).expect = "nothing"
         /\ AfterCharacter(s, t).shift = 0 /\ AfterCharacter(s, t).text = s.text \o t
<1>1. s.text \in Seq(Code)
  BY DEF ReadingState
<1>2. PICK u \in Seq(Code) : u = s.text \o t
  BY <1>1, CodesJoin
<1>3. AfterCharacter(s, t) = Reading("nothing", 0, 0, u)
  BY <1>2 DEF AfterCharacter
<1>4. 0 \in ZChar /\ 0 \in 0 .. 2 /\ "nothing" \in Expectations
  BY ZCharsWhole DEF Expectations
<1>5. PICK e : e = AfterCharacter(s, t)
  OBVIOUS
<1>6. e \in ReadingState /\ e.expect = "nothing" /\ e.shift = 0 /\ e.text = u
  BY <1>3, <1>4, <1>5, ReadingTyped
<1> QED BY <1>2, <1>5, <1>6

\* What each kind of Z-character does to what has been read: the state e is the
\* one after the Z-character z has been read in the state s.
ReadsEntry(e, s, entry) ==
    IF entry.fault
    THEN e.expect = "fault"
    ELSE e.expect = "nothing" /\ e.shift = 0 /\ e.text = s.text \o entry.text

ReadsPlain(e, s, z, nested) ==
    /\ z \in 1 .. 3 =>
          IF nested THEN e.expect = "fault" ELSE e.expect = "abbreviation" /\ e.held = z /\ e.text = s.text
    /\ z \in {4, 5} => e.expect = "nothing" /\ e.shift = z - 3 /\ e.text = s.text
    /\ z = 6 /\ s.shift = 2 => e.expect = "escape" /\ e.text = s.text
    /\ z = 0 => e.expect = "nothing" /\ e.shift = 0 /\ e.text = s.text \o Printed(Space)
    /\ z > 5 /\ ~(z = 6 /\ s.shift = 2) =>
          e.expect = "nothing" /\ e.shift = 0 /\ e.text = s.text \o Printed(Alphabet(s.shift)[z])

ReadsOn(e, s, z, nested, entries) ==
    /\ s.expect = "fault" => e.expect = "fault"
    /\ s.expect = "abbreviation" => ReadsEntry(e, s, entries[(s.held - 1) * ZLimit + z])
    /\ s.expect = "escape" => e.expect = "escapeBottom" /\ e.held = z /\ e.text = s.text
    /\ s.expect = "escapeBottom" =>
          e.expect = "nothing" /\ e.shift = 0 /\ e.text = s.text \o Printed(s.held * ZLimit + z)
    /\ s.expect = "nothing" => ReadsPlain(e, s, z, nested)

\* An abbreviation that is expected has a number, and in a nested text none is.
Legal(s, nested) == s.expect = "abbreviation" => s.held \in 1 .. 3 /\ ~nested

\* What one Z-character does to the decoder, by cases (decodeZText, text.go).
LEMMA ZCharRead ==
  ASSUME NEW s \in ReadingState, NEW z \in ZChar, NEW nested \in BOOLEAN, NEW entries,
         Legal(s, nested), ~nested => entries \in Expansions,
         NEW e, e = ReadZChar(s, z, nested, entries)
  PROVE  e \in ReadingState /\ Legal(e, nested) /\ ReadsOn(e, s, z, nested, entries)
<1>1. /\ s.expect \in Expectations /\ s.held \in ZChar /\ s.shift \in 0 .. 2 /\ s.text \in Seq(Code)
      /\ s = [expect |-> s.expect, held |-> s.held, shift |-> s.shift, text |-> s.text]
  BY DEF ReadingState, Expectations
<1>2. 0 \in ZChar /\ z \in Nat /\ <<>> \in Seq(Code)
  BY ZCharsWhole, CodesJoin
<1>3. Faulted \in ReadingState /\ Faulted.expect = "fault"
  <2>1. "fault" \in Expectations /\ 0 \in 0 .. 2
    BY DEF Expectations
  <2>2. PICK none \in Seq(Code) : none = <<>>
    BY <1>2
  <2>3. PICK f : f = Reading("fault", 0, 0, none)
    OBVIOUS
  <2>4. f = Faulted
    BY <2>2, <2>3 DEF Faulted
  <2>5. f \in ReadingState /\ f.expect = "fault"
    BY <1>2, <2>1, <2>3, ReadingTyped
  <2> QED BY <2>4, <2>5
<1>4. CASE s.expect = "fault"
  <2>1. e = s
    BY <1>4 DEF ReadZChar
  <2> QED BY <1>4, <2>1 DEF ReadsOn, Legal
<1>5. CASE s.expect = "abbreviation"
  <2>1. PICK entry : entry = entries[(s.held - 1) * ZLimit + z]
    OBVIOUS
  <2>2. ~nested /\ s.held \in 1 .. 3
    BY <1>5 DEF Legal
  <2>3. (s.held - 1) * ZLimit + z \in 0 .. 3 * ZLimit - 1
    BY <2>2, TwoMakeIndex
  <2>4. entry \in Result
    BY <2>1, <2>2, <2>3 DEF Expansions
  <2>5. entry.fault \in BOOLEAN /\ entry.text \in Seq(Code)
    BY <2>4 DEF Result
  <2>6. e = IF entry.fault THEN Faulted ELSE AfterCharacter(s, entry.text)
    BY <1>5, <2>1 DEF ReadZChar
  <2>7. CASE entry.fault
    <3>1. e \in ReadingState /\ e.expect = "fault"
      BY <1>3, <2>6, <2>7
    <3>2. Legal(e, nested)
      BY <3>1 DEF Legal
    <3>3. ReadsOn(e, s, z, nested, entries)
      <4>1. ReadsEntry(e, s, entry)
        BY <2>7, <3>1 DEF ReadsEntry
      <4>2. s.expect # "fault" /\ s.expect # "escape" /\ s.expect # "escapeBottom" /\ s.expect # "nothing"
        BY <1>5
      <4> QED BY <2>1, <4>1, <4>2, Zenon DEF ReadsOn
    <3> QED BY <3>1, <3>2, <3>3
  <2>8. CASE ~entry.fault
    <3>0. PICK t \in Seq(Code) : t = entry.text
      BY <2>5
    <3>1. /\ e \in ReadingState /\ e.expect = "nothing" /\ e.shift = 0
          /\ e.text = s.text \o t
      <4>1. e = AfterCharacter(s, t)
        BY <2>6, <2>8, <3>0
      <4> QED BY <4>1, CharacterRead
    <3>2. ReadsEntry(e, s, entry)
      BY <2>8, <3>0, <3>1 DEF ReadsEntry
    <3>3. ReadsOn(e, s, z, nested, entries)
      BY <1>5, <2>1, <3>2 DEF ReadsOn
    <3>4. Legal(e, nested)
      BY <3>1 DEF Legal
    <3> QED BY <3>1, <3>3, <3>4
  <2> QED BY <2>7, <2>8
<1>6. CASE s.expect = "escape"
  <2>1. e = Reading("escapeBottom", z, 0, s.text)
    BY <1>6 DEF ReadZChar
  <2>2. e \in ReadingState /\ e.expect = "escapeBottom" /\ e.held = z /\ e.text = s.text
    BY <1>1, <2>1, ReadingTyped DEF Expectations
  <2> QED BY <1>6, <2>2 DEF ReadsOn, Legal
<1>7. CASE s.expect = "escapeBottom"
  <2>1. PICK t : t = Printed(s.held * ZLimit + z)
    OBVIOUS
  <2>2. t \in Seq(Code)
    BY <1>1, <2>1, TwoMakeCode, CodesPrinted
  <2>3. e = AfterCharacter(s, t)
    BY <1>7, <2>1 DEF ReadZChar
  <2>4. e \in ReadingState /\ e.expect = "nothing" /\ e.shift = 0 /\ e.text = s.text \o t
    BY <2>2, <2>3, CharacterRead
  <2> QED BY <1>7, <2>1, <2>4 DEF ReadsOn, Legal
<1>8. /\ z \in 1 .. 3 => z \notin {4, 5} /\ z # 6 /\ z # 0 /\ ~(z > 5)
      /\ z \in {4, 5} => z \notin 1 .. 3 /\ z # 6 /\ z # 0 /\ ~(z > 5)
      /\ z = 0 => z \notin 1 .. 3 /\ z \notin {4, 5} /\ z # 6 /\ ~(z > 5)
      /\ z > 5 => z \notin 1 .. 3 /\ z \notin {4, 5} /\ z # 0
  BY <1>2
<1>9. CASE s.expect = "nothing" /\ z \in 1 .. 3
  <2>1. /\ s.expect = "nothing" /\ z \in AbbreviationZChars
        /\ z \notin {ShiftA1, ShiftA2} /\ z # Escape
    BY <1>9 DEF AbbreviationZChars, ShiftA1, ShiftA2, Escape
  <2>2. /\ nested => e = Faulted
        /\ ~nested => e = Reading("abbreviation", z, 0, s.text)
    BY <2>1 DEF ReadZChar
  <2>3. CASE nested
    <3>1. e \in ReadingState /\ e.expect = "fault"
      BY <1>3, <2>2, <2>3
    <3>2. ReadsPlain(e, s, z, nested)
      BY <1>8, <1>9, <2>3, <3>1 DEF ReadsPlain
    <3>3. Legal(e, nested) /\ s.expect = "nothing"
      BY <1>9, <3>1 DEF Legal
    <3> QED BY <1>9, <3>1, <3>2, <3>3 DEF ReadsOn
  <2>4. CASE ~nested
    <3>1. e \in ReadingState /\ e.expect = "abbreviation" /\ e.held = z /\ e.text = s.text
      BY <1>1, <2>2, <2>4, ReadingTyped DEF Expectations
    <3>2. ReadsPlain(e, s, z, nested)
      BY <1>8, <1>9, <2>4, <3>1 DEF ReadsPlain
    <3>3. Legal(e, nested) /\ s.expect = "nothing"
      BY <1>9, <2>4, <3>1 DEF Legal
    <3> QED BY <1>9, <2>4, <3>1, <3>2, <3>3 DEF ReadsOn
  <2> QED BY <2>3, <2>4
<1>10. CASE s.expect = "nothing" /\ z \in {4, 5}
  <2>1. /\ s.expect = "nothing" /\ z \notin AbbreviationZChars /\ z \in {ShiftA1, ShiftA2}
        /\ z # Escape /\ (z = ShiftA1 <=> z = 4)
    BY <1>10 DEF AbbreviationZChars, ShiftA1, ShiftA2, Escape
  <2>2. PICK shift : shift = IF z = ShiftA1 THEN 1 ELSE 2
    OBVIOUS
  <2>3. shift \in 0 .. 2 /\ shift = z - 3
    BY <1>10, <2>1, <2>2
  <2>4. e = Reading("nothing", 0, shift, s.text)
    BY <2>1, <2>2 DEF ReadZChar
  <2>5. e \in ReadingState /\ e.expect = "nothing" /\ e.shift = shift /\ e.text = s.text
    BY <1>1, <1>2, <2>3, <2>4, ReadingTyped DEF Expectations
  <2>6. e.shift = z - 3
    BY <2>3, <2>5
  <2>7. ReadsPlain(e, s, z, nested)
    BY <1>8, <1>10, <2>5, <2>6, Zenon DEF ReadsPlain
  <2>8. Legal(e, nested) /\ s.expect = "nothing"
    BY <1>10, <2>5 DEF Legal
  <2> QED BY <1>10, <2>5, <2>7, <2>8 DEF ReadsOn
<1>11. CASE s.expect = "nothing" /\ z = 6 /\ s.shift = 2
  <2>1. z \notin AbbreviationZChars /\ z \notin {ShiftA1, ShiftA2} /\ z = Escape
    BY <1>11 DEF AbbreviationZChars, ShiftA1, ShiftA2, Escape
  <2>2. e = Reading("escape", 0, 0, s.text)
    BY <1>11, <2>1 DEF ReadZChar
  <2>3. e \in ReadingState /\ e.expect = "escape" /\ e.text = s.text
    BY <1>1, <1>2, <2>2, ReadingTyped DEF Expectations
  <2>4. ReadsPlain(e, s, z, nested)
    BY <1>11, <2>3 DEF ReadsPlain
  <2>5. Legal(e, nested) /\ s.expect = "nothing"
    BY <1>11, <2>3 DEF Legal
  <2> QED BY <1>11, <2>3, <2>4, <2>5 DEF ReadsOn
<1>12. CASE s.expect = "nothing" /\ (z = 0 \/ z > 5) /\ ~(z = 6 /\ s.shift = 2)
  <2>1. /\ z \notin AbbreviationZChars /\ z \notin {ShiftA1, ShiftA2} /\ ~(z = Escape /\ s.shift = 2)
        /\ z = ZCharSpace <=> z = 0
    BY <1>12 DEF AbbreviationZChars, ShiftA1, ShiftA2, Escape, ZCharSpace
  <2>2. PICK c : c = IF z = ZCharSpace THEN Space ELSE Alphabet(s.shift)[z]
    OBVIOUS
  <2>3. e = AfterCharacter(s, Printed(c))
    BY <1>12, <2>1, <2>2 DEF ReadZChar, Plain
  <2>4. c \in Code
    <3>1. CASE z = 0
      BY <2>1, <2>2, <3>1, TextAssumption
    <3>2. CASE z # 0
      <4>1. z \in 6 .. ZLimit - 1
        BY <1>12, <3>2, ZCharsWhole DEF ZChar
      <4> QED BY <1>1, <2>1, <2>2, <3>2, <4>1, AlphabetCodes
    <3> QED BY <3>1, <3>2
  <2>5. e \in ReadingState /\ e.expect = "nothing" /\ e.shift = 0 /\ e.text = s.text \o Printed(c)
    BY <2>3, <2>4, CodesPrinted, CharacterRead
  <2>6. CASE z = 0
    <3>1. c = Space
      BY <2>1, <2>2, <2>6
    <3>2. ReadsPlain(e, s, z, nested)
      BY <1>8, <1>12, <2>5, <2>6, <3>1, Zenon DEF ReadsPlain
    <3>3. Legal(e, nested) /\ s.expect = "nothing"
      BY <1>12, <2>5 DEF Legal
    <3> QED BY <1>12, <2>5, <3>2, <3>3 DEF ReadsOn
  <2>7. CASE z > 5
    <3>1. c = Alphabet(s.shift)[z]
      BY <1>8, <2>1, <2>2, <2>7
    <3>2. ReadsPlain(e, s, z, nested)
      BY <1>8, <1>12, <2>5, <2>7, <3>1, Zenon DEF ReadsPlain
    <3>3. Legal(e, nested) /\ s.expect = "nothing"
      BY <1>12, <2>5 DEF Legal
    <3> QED BY <1>12, <2>5, <3>2, <3>3 DEF ReadsOn
  <2> QED BY <1>12, <2>6, <2>7
<1>13. z = 0 \/ z \in 1 .. 3 \/ z \in {4, 5} \/ z > 5
  BY <1>2
<1> QED BY <1>1, <1>4, <1>5, <1>6, <1>7, <1>9, <1>10, <1>11, <1>12, <1>13 DEF Expectations

\* The states that a decoder is in, after each Z-character.
Deciphers(f, zchars, nested, entries) ==
    /\ f \in [0 .. Len(zchars) -> ReadingState] /\ f[0] = Untouched
    /\ \A i \in 0 .. Len(zchars) : Legal(f[i], nested)
    /\ \A i \in 1 .. Len(zchars) : f[i] = ReadZChar(f[i - 1], zchars[i], nested, entries)

\* What the definition says of them, by which they are found.
Deciphering(f, zchars, nested, entries) ==
    [i \in 0 .. Len(zchars) |->
        IF i = 0 THEN Untouched ELSE ReadZChar(f[i - 1], zchars[i], nested, entries)]

\* The decoder before the first Z-character.
LEMMA UntouchedTyped ==
  /\ Untouched \in ReadingState /\ Untouched.expect = "nothing" /\ Untouched.shift = 0
  /\ Untouched.text = <<>>
<1>1. PICK none \in Seq(Code) : none = <<>>
  BY CodesJoin
<1>2. 0 \in ZChar /\ 0 \in 0 .. 2 /\ "nothing" \in Expectations
  BY ZCharsWhole DEF Expectations
<1>3. PICK s : s = Reading("nothing", 0, 0, none)
  OBVIOUS
<1>4. s = Untouched
  BY <1>1, <1>3 DEF Untouched
<1>5. s \in ReadingState /\ s.expect = "nothing" /\ s.shift = 0 /\ s.text = none
  BY <1>2, <1>3, ReadingTyped
<1> QED BY <1>1, <1>4, <1>5

\* The function of the fold has a value at every number of Z-characters.
LEMMA DecodingExists ==
  ASSUME NEW zchars \in Seq(ZChar), NEW nested \in BOOLEAN, NEW entries, ~nested => entries \in Expansions
  PROVE  \E f : Deciphers(f, zchars, nested, entries)
<1> DEFINE n == Len(zchars)
           A == {s \in ReadingState : Legal(s, nested)}
           step == [kx \in Nat \X A |->
                      IF kx[1] \in 1 .. n THEN ReadZChar(kx[2], zchars[kx[1]], nested, entries) ELSE kx[2]]
<1>1. n \in Nat /\ \A i \in 1 .. n : zchars[i] \in ZChar
  BY LenProperties, ElementOfSeq
<1>2. Untouched \in A
  BY UntouchedTyped DEF Legal
<1>3. \A i \in 1 .. n, s \in A : ReadZChar(s, zchars[i], nested, entries) \in A
  BY <1>1, ZCharRead
<1> HIDE DEF A, n
<1>4. step \in [Nat \X A -> A] /\ \A k \in 1 .. n, s \in A : step[<<k, s>>] = ReadZChar(s, zchars[k], nested, entries)
  <2>1. \A kx \in Nat \X A : kx[2] \in A /\ (kx[1] \in 1 .. n => ReadZChar(kx[2], zchars[kx[1]], nested, entries) \in A)
    BY <1>3
  <2>2. step \in [Nat \X A -> A]
    BY <2>1
  <2>3. \A k \in 1 .. n, s \in A : <<k, s>> \in Nat \X A /\ <<k, s>>[1] = k /\ <<k, s>>[2] = s
    BY <1>1
  <2>4. \A k \in 1 .. n, s \in A : step[<<k, s>>] = ReadZChar(s, zchars[k], nested, entries)
    BY <2>3
  <2> QED BY <2>2, <2>4
<1> HIDE DEF step
<1>5. PICK f : Unfolds(f, A, n, Untouched, step)
  BY <1>1, <1>2, <1>4, RecursionExists
<1>6. /\ f[0] = Untouched /\ f \in [0 .. n -> A]
      /\ \A k \in 1 .. n : f[k] = step[<<k, f[k - 1]>>]
  BY <1>5 DEF Unfolds
<1>7. \A k \in 1 .. n : f[k] = ReadZChar(f[k - 1], zchars[k], nested, entries)
  <2> SUFFICES ASSUME NEW k \in 1 .. n
               PROVE  f[k] = ReadZChar(f[k - 1], zchars[k], nested, entries)
    OBVIOUS
  <2>1. k - 1 \in 0 .. n
    BY <1>1
  <2> QED BY <1>4, <1>6, <2>1
<1>8. f \in [0 .. n -> ReadingState] /\ \A i \in 0 .. n : Legal(f[i], nested)
  BY <1>6 DEF A
<1> QED BY <1>6, <1>7, <1>8 DEF Deciphers, n

\* What is decoded is in the last of them.
LEMMA DecodedIs ==
  ASSUME NEW zchars \in Seq(ZChar), NEW nested \in BOOLEAN, NEW entries, ~nested => entries \in Expansions
  PROVE  \E f : /\ Deciphers(f, zchars, nested, entries)
                /\ Decoded(zchars, nested, entries).text = f[Len(zchars)].text
                /\ Decoded(zchars, nested, entries).fault = (f[Len(zchars)].expect = "fault")
                /\ Decoded(zchars, nested, entries) \in Result
<1>1. PICK f : Deciphers(f, zchars, nested, entries)
  BY DecodingExists
<1>2. Len(zchars) \in Nat
  BY LenProperties
<1>3. f = Deciphering(f, zchars, nested, entries)
  <2>1. \A i \in 0 .. Len(zchars) : Deciphering(f, zchars, nested, entries)[i] = f[i]
    <3> SUFFICES ASSUME NEW i \in 0 .. Len(zchars)
                 PROVE  Deciphering(f, zchars, nested, entries)[i] = f[i]
      OBVIOUS
    <3>1. i # 0 => i \in 1 .. Len(zchars)
      BY <1>2
    <3> QED BY <1>1, <3>1 DEF Deciphers, Deciphering
  <2>2. f = [i \in 0 .. Len(zchars) |-> f[i]]
    BY <1>1 DEF Deciphers
  <2>3. Deciphering(f, zchars, nested, entries) = [i \in 0 .. Len(zchars) |-> Deciphering(f, zchars, nested, entries)[i]]
    BY DEF Deciphering
  <2> QED BY <2>1, <2>2, <2>3
<1>4. PICK g : g = CHOOSE h : h = Deciphering(h, zchars, nested, entries)
  OBVIOUS
<1>5. g = Deciphering(g, zchars, nested, entries)
  BY <1>3, <1>4
<1>6. Deciphers(g, zchars, nested, entries)
  <2>1. \A i \in 0 .. Len(zchars) : g[i] = IF i = 0 THEN Untouched ELSE ReadZChar(g[i - 1], zchars[i], nested, entries)
    BY <1>5, Zenon DEF Deciphering
  <2> DEFINE S == {k \in Nat : k <= Len(zchars) => g[k] = f[k]}
  <2>2. 0 \in S
    BY <1>1, <1>2, <2>1 DEF Deciphers
  <2>3. ASSUME NEW k \in Nat, k \in S
        PROVE  k + 1 \in S
    <3> SUFFICES ASSUME k + 1 <= Len(zchars)
                 PROVE  g[k + 1] = f[k + 1]
      OBVIOUS
    <3>1. /\ k + 1 \in 1 .. Len(zchars) /\ k + 1 \in 0 .. Len(zchars) /\ (k + 1) - 1 = k
          /\ k + 1 # 0 /\ k <= Len(zchars)
      BY <1>2
    <3>2. g[k] = f[k]
      BY <2>3, <3>1
    <3>3. g[k + 1] = ReadZChar(g[k], zchars[k + 1], nested, entries)
      BY <2>1, <3>1
    <3>4. f[k + 1] = ReadZChar(f[k], zchars[k + 1], nested, entries)
      BY <1>1, <3>1 DEF Deciphers
    <3> QED BY <3>2, <3>3, <3>4
  <2> HIDE DEF S
  <2>4. Nat \subseteq S
    BY <2>2, <2>3, SetInduction
  <2>5. \A i \in 0 .. Len(zchars) : g[i] = f[i]
    BY <1>2, <2>4 DEF S
  <2>6. g = [i \in 0 .. Len(zchars) |-> g[i]] /\ f = [i \in 0 .. Len(zchars) |-> f[i]]
    BY <1>1, <1>5 DEF Deciphering, Deciphers
  <2>7. g = f
    BY <2>5, <2>6
  <2> QED BY <1>1, <2>7
<1>7. Decoded(zchars, nested, entries) =
        [text |-> g[Len(zchars)].text, fault |-> g[Len(zchars)].expect = "fault"]
  BY <1>4 DEF Decoded, Deciphering
<1>8. Decoded(zchars, nested, entries) \in Result
  <2>1. g[Len(zchars)] \in ReadingState
    BY <1>2, <1>6 DEF Deciphers
  <2>2. g[Len(zchars)].text \in Seq(Code)
    BY <2>1 DEF ReadingState
  <2> QED BY <1>7, <2>2 DEF Result
<1> QED BY <1>6, <1>7, <1>8

-----------------------------------------------------------------------------
(* What the grammar says, from the right to the left.                      *)

\* What the grammar says of the Z-characters from i on under the alphabet a, if f
\* says it of those behind.
Row(f, zchars, entries, cut, i, a) ==
    IF i > Len(zchars) THEN Of(<<>>)
    ELSE LET z == zchars[i]
         IN  CASE z = 0 -> Then(Of(Printed(Space)), f[i + 1][0])
               [] z \in 1 .. 3 ->
                    IF i = Len(zchars) THEN cut
                    ELSE Then(entries[ZLimit * (z - 1) + zchars[i + 1]], f[i + 2][0])
               [] z \in {4, 5} -> f[i + 1][z - 3]
               [] z = 6 /\ a = 2 ->
                    IF i + 2 > Len(zchars) THEN Of(<<>>)
                    ELSE Then(Of(Printed(zchars[i + 1] * ZLimit + zchars[i + 2])), f[i + 3][0])
               [] OTHER -> Then(Of(Printed(Alphabet(a)[z])), f[i + 1][0])

Rows(f, zchars, entries, cut) ==
    [i \in 1 .. Len(zchars) + 3 |-> [a \in 0 .. 2 |-> Row(f, zchars, entries, cut, i, a)]]

\* The same as f from m on.
Grammar(f, zchars, entries, cut, m) ==
    /\ f \in [m .. Len(zchars) + 3 -> [0 .. 2 -> Result]]
    /\ \A i \in m .. Len(zchars) + 3, a \in 0 .. 2 : f[i][a] = Row(f, zchars, entries, cut, i, a)

-----------------------------------------------------------------------------
\* RowSays(e, f, ..., i, a, z) says of a row e what each kind of Z-character does.
RowSays(e, f, zchars, entries, cut, i, a, z) ==
    /\ z = 0 => e = Then(Of(Printed(Space)), f[i + 1][0])
    /\ z \in 1 .. 3 =>
         e = IF i = Len(zchars) THEN cut
             ELSE Then(entries[ZLimit * (z - 1) + zchars[i + 1]], f[i + 2][0])
    /\ z \in {4, 5} => e = f[i + 1][z - 3]
    /\ z = 6 /\ a = 2 =>
         e = IF i + 2 > Len(zchars) THEN Of(<<>>)
             ELSE Then(Of(Printed(zchars[i + 1] * ZLimit + zchars[i + 2])), f[i + 3][0])
    /\ z > 5 /\ ~(z = 6 /\ a = 2) => e = Then(Of(Printed(Alphabet(a)[z])), f[i + 1][0])

\* What the grammar says from a Z-character on, by cases.
LEMMA RowIs ==
  ASSUME NEW f, NEW zchars \in Seq(ZChar), NEW entries, NEW cut,
         NEW i \in 1 .. Len(zchars), NEW a \in 0 .. 2, NEW e, e = Row(f, zchars, entries, cut, i, a),
         NEW z, z = zchars[i]
  PROVE  RowSays(e, f, zchars, entries, cut, i, a, z)
<1>1. Len(zchars) \in Nat /\ ~(i > Len(zchars))
  BY LenProperties
<1>2. e = CASE z = 0 -> Then(Of(Printed(Space)), f[i + 1][0])
            [] z \in 1 .. 3 ->
                 IF i = Len(zchars) THEN cut
                 ELSE Then(entries[ZLimit * (z - 1) + zchars[i + 1]], f[i + 2][0])
            [] z \in {4, 5} -> f[i + 1][z - 3]
            [] z = 6 /\ a = 2 ->
                 IF i + 2 > Len(zchars) THEN Of(<<>>)
                 ELSE Then(Of(Printed(zchars[i + 1] * ZLimit + zchars[i + 2])), f[i + 3][0])
            [] OTHER -> Then(Of(Printed(Alphabet(a)[z])), f[i + 1][0])
  BY <1>1, Zenon DEF Row
<1>3. z \in Nat
  BY ZCharsWhole, ElementOfSeq
<1>4. CASE z = 0
  BY <1>2, <1>4 DEF RowSays
<1>5. CASE z \in 1 .. 3
  BY <1>2, <1>5 DEF RowSays
<1>6. CASE z \in {4, 5}
  BY <1>2, <1>6 DEF RowSays
<1>7. CASE z = 6 /\ a = 2
  BY <1>2, <1>7 DEF RowSays
<1>8. CASE z > 5 /\ ~(z = 6 /\ a = 2)
  BY <1>2, <1>3, <1>8 DEF RowSays
<1> QED BY <1>3, <1>4, <1>5, <1>6, <1>7, <1>8

\* What is behind an abbreviation or an escape.
LEMMA Behind ==
  ASSUME NEW zchars \in Seq(ZChar), NEW i \in 1 .. Len(zchars)
  PROVE  /\ Len(zchars) \in Nat /\ zchars[i] \in ZChar /\ zchars[i] \in Nat
         /\ zchars[i] = 0 \/ zchars[i] \in 1 .. 3 \/ zchars[i] \in {4, 5} \/ zchars[i] > 5
         /\ i # Len(zchars) => i + 1 \in 1 .. Len(zchars) /\ zchars[i + 1] \in ZChar
         /\ ~(i + 2 > Len(zchars)) =>
              /\ i + 1 \in 1 .. Len(zchars) /\ zchars[i + 1] \in ZChar
              /\ i + 2 \in 1 .. Len(zchars) /\ zchars[i + 2] \in ZChar
<1>1. Len(zchars) \in Nat /\ \A k \in 1 .. Len(zchars) : zchars[k] \in ZChar
  BY LenProperties, ElementOfSeq
<1>2. zchars[i] \in Nat
  BY <1>1, ZCharsWhole
<1>3. i # Len(zchars) => i + 1 \in 1 .. Len(zchars)
  BY <1>1
<1>4. ~(i + 2 > Len(zchars)) => i + 1 \in 1 .. Len(zchars) /\ i + 2 \in 1 .. Len(zchars)
  BY <1>1
<1> QED BY <1>1, <1>2, <1>3, <1>4

LEMMA NothingTyped ==
  Of(<<>>) \in Result /\ Of(<<>>).text = <<>> /\ Of(<<>>).fault = FALSE
<1>1. PICK none \in Seq(Code) : none = <<>>
  BY CodesJoin
<1> QED BY <1>1, OfTyped

\* The grammar says a text or a fault.
LEMMA RowTyped ==
  ASSUME NEW f, NEW zchars \in Seq(ZChar), NEW entries \in Expansions, NEW cut \in Result,
         NEW i \in 1 .. Len(zchars) + 3, NEW a \in 0 .. 2,
         \A j \in i + 1 .. Len(zchars) + 3, b \in 0 .. 2 : f[j][b] \in Result
  PROVE  Row(f, zchars, entries, cut, i, a) \in Result
<1>1. PICK e : e = Row(f, zchars, entries, cut, i, a)
  OBVIOUS
<1>2. Len(zchars) \in Nat
  BY LenProperties
<1>3. CASE i > Len(zchars)
  BY <1>3, NothingTyped DEF Row
<1>4. CASE ~(i > Len(zchars))
  <2>1. i \in 1 .. Len(zchars)
    BY <1>2, <1>4
  <2>2. PICK z : z = zchars[i]
    OBVIOUS
  <2>3. z \in ZChar /\ z \in Nat /\ (z = 0 \/ z \in 1 .. 3 \/ z \in {4, 5} \/ z > 5)
    BY <2>1, <2>2, Behind
  <2>4. /\ i + 1 \in i + 1 .. Len(zchars) + 3 /\ i + 2 \in i + 1 .. Len(zchars) + 3
        /\ i + 3 \in i + 1 .. Len(zchars) + 3
    BY <1>2, <2>1
  <2>5. /\ \A b \in 0 .. 2 : f[i + 1][b] \in Result
        /\ f[i + 2][0] \in Result /\ f[i + 3][0] \in Result
    BY <2>4
  <2>6. \A c \in Code : Of(Printed(c)) \in Result
    BY CodesPrinted, OfTyped
  <2>12. RowSays(e, f, zchars, entries, cut, i, a, z)
    BY <1>1, <2>1, <2>2, RowIs
  <2>7. CASE z = 0
    <3>1. e = Then(Of(Printed(Space)), f[i + 1][0])
      BY <2>12, <2>7 DEF RowSays
    <3> QED BY <1>1, <2>5, <2>6, <3>1, ThenTyped, TextAssumption
  <2>8. CASE z \in 1 .. 3
    <3>1. e = IF i = Len(zchars) THEN cut
              ELSE Then(entries[ZLimit * (z - 1) + zchars[i + 1]], f[i + 2][0])
      BY <2>12, <2>8 DEF RowSays
    <3>2. CASE i = Len(zchars)
      BY <1>1, <3>1, <3>2
    <3>3. CASE i # Len(zchars)
      <4>1. zchars[i + 1] \in ZChar
        BY <2>1, <3>3, Behind
      <4>2. PICK y \in ZChar : y = zchars[i + 1]
        BY <4>1
      <4>3. ZLimit * (z - 1) + y \in 0 .. 3 * ZLimit - 1
        BY <2>8, TwoMakeIndex
      <4>4. entries[ZLimit * (z - 1) + y] \in Result
        BY <4>3 DEF Expansions
      <4> QED BY <1>1, <2>5, <3>1, <3>3, <4>2, <4>4, ThenTyped
    <3> QED BY <3>2, <3>3
  <2>9. CASE z \in {4, 5}
    <3>1. e = f[i + 1][z - 3] /\ z - 3 \in 0 .. 2
      BY <2>12, <2>9 DEF RowSays
    <3> QED BY <1>1, <2>5, <3>1
  <2>10. CASE z = 6 /\ a = 2
    <3>1. e = IF i + 2 > Len(zchars) THEN Of(<<>>)
              ELSE Then(Of(Printed(zchars[i + 1] * ZLimit + zchars[i + 2])), f[i + 3][0])
      BY <2>12, <2>10 DEF RowSays
    <3>2. CASE i + 2 > Len(zchars)
      BY <1>1, <3>1, <3>2, NothingTyped
    <3>3. CASE ~(i + 2 > Len(zchars))
      <4>1. zchars[i + 1] \in ZChar /\ zchars[i + 2] \in ZChar
        BY <2>1, <3>3, Behind
      <4>2. zchars[i + 1] * ZLimit + zchars[i + 2] \in Code
        BY <4>1, TwoMakeCode
      <4> QED BY <1>1, <2>5, <2>6, <3>1, <3>3, <4>2, ThenTyped
    <3> QED BY <3>2, <3>3
  <2>11. CASE z > 5 /\ ~(z = 6 /\ a = 2)
    <3>1. e = Then(Of(Printed(Alphabet(a)[z])), f[i + 1][0])
      BY <2>12, <2>11 DEF RowSays
    <3>2. z \in 6 .. ZLimit - 1
      BY <2>3, <2>11, ZCharsWhole DEF ZChar
    <3>3. Alphabet(a)[z] \in Code
      BY <3>2, AlphabetCodes
    <3> QED BY <1>1, <2>5, <2>6, <3>1, <3>3, ThenTyped
  <2> QED BY <2>3, <2>7, <2>8, <2>9, <2>10, <2>11
<1> QED BY <1>3, <1>4

\* A row depends on those behind it only.
SameBehind(f, g, zchars, i) ==
    \A j \in i + 1 .. Len(zchars) + 3, b \in 0 .. 2 : f[j][b] = g[j][b]

\* The grammar looks only at what lies behind.
LEMMA RowDepends ==
  ASSUME NEW f, NEW g, NEW zchars \in Seq(ZChar), NEW entries, NEW cut,
         NEW i \in 1 .. Len(zchars) + 3, NEW a \in 0 .. 2, SameBehind(f, g, zchars, i)
  PROVE  Row(f, zchars, entries, cut, i, a) = Row(g, zchars, entries, cut, i, a)
<1>1. PICK d, e : d = Row(f, zchars, entries, cut, i, a) /\ e = Row(g, zchars, entries, cut, i, a)
  OBVIOUS
<1>2. Len(zchars) \in Nat
  BY LenProperties
<1>3. CASE i > Len(zchars)
  BY <1>3 DEF Row
<1>4. CASE ~(i > Len(zchars))
  <2>1. i \in 1 .. Len(zchars)
    BY <1>2, <1>4
  <2>2. PICK z : z = zchars[i]
    OBVIOUS
  <2>3. z \in Nat /\ (z = 0 \/ z \in 1 .. 3 \/ z \in {4, 5} \/ z > 5)
    BY <2>1, <2>2, Behind
  <2>4. /\ i + 1 \in i + 1 .. Len(zchars) + 3 /\ i + 2 \in i + 1 .. Len(zchars) + 3
        /\ i + 3 \in i + 1 .. Len(zchars) + 3
    BY <1>2, <2>1
  <2>5. /\ \A b \in 0 .. 2 : f[i + 1][b] = g[i + 1][b]
        /\ f[i + 2][0] = g[i + 2][0] /\ f[i + 3][0] = g[i + 3][0] /\ f[i + 1][0] = g[i + 1][0]
    BY <2>4 DEF SameBehind
  <2>11. RowSays(d, f, zchars, entries, cut, i, a, z) /\ RowSays(e, g, zchars, entries, cut, i, a, z)
    BY <1>1, <2>1, <2>2, RowIs
  <2>6. CASE z = 0
    <3>1. d = Then(Of(Printed(Space)), f[i + 1][0])
      BY <2>11, <2>6 DEF RowSays
    <3>2. e = Then(Of(Printed(Space)), g[i + 1][0])
      BY <2>11, <2>6 DEF RowSays
    <3> QED BY <1>1, <2>5, <3>1, <3>2, Zenon
  <2>7. CASE z \in 1 .. 3
    <3>1. d = IF i = Len(zchars) THEN cut
              ELSE Then(entries[ZLimit * (z - 1) + zchars[i + 1]], f[i + 2][0])
      BY <2>11, <2>7 DEF RowSays
    <3>2. e = IF i = Len(zchars) THEN cut
              ELSE Then(entries[ZLimit * (z - 1) + zchars[i + 1]], g[i + 2][0])
      BY <2>11, <2>7 DEF RowSays
    <3> QED BY <1>1, <2>5, <3>1, <3>2, Zenon
  <2>8. CASE z \in {4, 5}
    <3>1. d = f[i + 1][z - 3] /\ e = g[i + 1][z - 3] /\ z - 3 \in 0 .. 2
      BY <2>11, <2>8 DEF RowSays
    <3> QED BY <1>1, <2>5, <3>1
  <2>9. CASE z = 6 /\ a = 2
    <3>1. d = IF i + 2 > Len(zchars) THEN Of(<<>>)
              ELSE Then(Of(Printed(zchars[i + 1] * ZLimit + zchars[i + 2])), f[i + 3][0])
      BY <2>11, <2>9 DEF RowSays
    <3>2. e = IF i + 2 > Len(zchars) THEN Of(<<>>)
              ELSE Then(Of(Printed(zchars[i + 1] * ZLimit + zchars[i + 2])), g[i + 3][0])
      BY <2>11, <2>9 DEF RowSays
    <3> QED BY <1>1, <2>5, <3>1, <3>2, Zenon
  <2>10. CASE z > 5 /\ ~(z = 6 /\ a = 2)
    <3>1. /\ d = Then(Of(Printed(Alphabet(a)[z])), f[i + 1][0])
          /\ e = Then(Of(Printed(Alphabet(a)[z])), g[i + 1][0])
      BY <2>11, <2>10 DEF RowSays
    <3> QED BY <1>1, <2>5, <3>1
  <2> QED BY <2>3, <2>6, <2>7, <2>8, <2>9, <2>10
<1> QED BY <1>3, <1>4

\* What the grammar says of the Z-characters from m on exists if it does from m + 1.
LEMMA GrammarExtends ==
  ASSUME NEW zchars \in Seq(ZChar), NEW entries \in Expansions, NEW cut \in Result,
         NEW m \in 1 .. Len(zchars) + 3, NEW f, Grammar(f, zchars, entries, cut, m + 1)
  PROVE  \E g : Grammar(g, zchars, entries, cut, m)
<1>1. PICK n \in Nat : n = Len(zchars) + 3
  BY LenProperties
<1>2. /\ f \in [m + 1 .. n -> [0 .. 2 -> Result]]
      /\ \A i \in m + 1 .. n, a \in 0 .. 2 : f[i][a] = Row(f, zchars, entries, cut, i, a)
  BY <1>1 DEF Grammar
<1>3. PICK first : first = [a \in 0 .. 2 |-> Row(f, zchars, entries, cut, m, a)]
  OBVIOUS
<1>4. first \in [0 .. 2 -> Result]
  <2>1. \A j \in m + 1 .. n, b \in 0 .. 2 : f[j][b] \in Result
    BY <1>2
  <2>2. \A a \in 0 .. 2 : Row(f, zchars, entries, cut, m, a) \in Result
    BY <1>1, <2>1, RowTyped
  <2> QED BY <1>3, <2>2
<1>5. PICK g : g = [i \in m .. n |-> IF i = m THEN first ELSE f[i]]
  OBVIOUS
<1>6. m \in 1 .. n /\ m \in m .. n /\ \A i \in m .. n : i # m => i \in m + 1 .. n
  BY <1>1
<1>7. g[m] = first /\ \A i \in m + 1 .. n : g[i] = f[i]
  BY <1>1, <1>5, <1>6
<1>8. g \in [m .. n -> [0 .. 2 -> Result]]
  BY <1>2, <1>4, <1>5, <1>6
<1>9. \A i \in m .. n : SameBehind(f, g, zchars, i)
  <2> SUFFICES ASSUME NEW i \in m .. n
               PROVE  SameBehind(f, g, zchars, i)
    OBVIOUS
  <2>1. \A j \in i + 1 .. n : j \in m + 1 .. n
    BY <1>1
  <2>2. \A j \in i + 1 .. n, b \in 0 .. 2 : f[j][b] = g[j][b]
    BY <1>7, <2>1
  <2> QED BY <1>1, <2>2 DEF SameBehind
<1>10. \A i \in m .. n, a \in 0 .. 2 : g[i][a] = Row(g, zchars, entries, cut, i, a)
  <2> SUFFICES ASSUME NEW i \in m .. n, NEW a \in 0 .. 2
               PROVE  g[i][a] = Row(g, zchars, entries, cut, i, a)
    OBVIOUS
  <2>1. i \in 1 .. n
    BY <1>1
  <2>2. Row(f, zchars, entries, cut, i, a) = Row(g, zchars, entries, cut, i, a)
    BY <1>1, <1>9, <2>1, RowDepends
  <2>3. g[i][a] = Row(f, zchars, entries, cut, i, a)
    BY <1>2, <1>3, <1>6, <1>7
  <2> QED BY <2>2, <2>3
<1> QED BY <1>1, <1>8, <1>10 DEF Grammar

\* So it has a value at every Z-character, and the one it is defined by.
LEMMA GrammarExists ==
  ASSUME NEW zchars \in Seq(ZChar), NEW entries \in Expansions, NEW cut \in Result
  PROVE  \E f : Grammar(f, zchars, entries, cut, 1)
<1>1. PICK n \in Nat : n = Len(zchars) + 3
  BY LenProperties
<1> DEFINE S == {k \in Nat : k <= n => \E f : Grammar(f, zchars, entries, cut, n + 1 - k)}
<1>2. 0 \in S
  <2>1. PICK none : none = [i \in {} |-> <<>>]
    OBVIOUS
  <2>2. n + 1 .. n = {}
    BY <1>1
  <2>3. none \in [n + 1 .. n -> [0 .. 2 -> Result]]
    BY <2>1, <2>2
  <2>4. n + 1 - 0 = n + 1
    OBVIOUS
  <2>5. Grammar(none, zchars, entries, cut, n + 1)
    BY <1>1, <2>2, <2>3 DEF Grammar
  <2> QED BY <2>4, <2>5
<1>3. ASSUME NEW k \in Nat, k \in S
      PROVE  k + 1 \in S
  <2> SUFFICES ASSUME k + 1 <= n
               PROVE  \E f : Grammar(f, zchars, entries, cut, n + 1 - (k + 1))
    OBVIOUS
  <2>1. PICK m : m = n + 1 - (k + 1)
    OBVIOUS
  <2>2. m \in 1 .. n /\ m + 1 = n + 1 - k /\ k <= n
    BY <2>1
  <2>3. PICK f : Grammar(f, zchars, entries, cut, m + 1)
    BY <1>3, <2>2
  <2>4. \E g : Grammar(g, zchars, entries, cut, m)
    BY <1>1, <2>2, <2>3, GrammarExtends
  <2> QED BY <2>1, <2>4
<1> HIDE DEF S
<1>4. Nat \subseteq S
  BY <1>2, <1>3, SetInduction
<1>5. \E f : Grammar(f, zchars, entries, cut, n + 1 - n)
  <2>1. n \in S /\ n <= n
    BY <1>4
  <2> QED BY <2>1 DEF S
<1>6. n + 1 - n = 1
  OBVIOUS
<1> QED BY <1>5, <1>6

\* The meaning of a text is what the grammar says from its first Z-character on.
LEMMA MeaningIs ==
  ASSUME NEW zchars \in Seq(ZChar), NEW entries \in Expansions, NEW cut \in Result
  PROVE  \E g : Grammar(g, zchars, entries, cut, 1) /\ Meaning(zchars, entries, cut) = g[1][0]
<1>1. PICK n \in Nat : n = Len(zchars) + 3
  BY LenProperties
<1>2. PICK f : Grammar(f, zchars, entries, cut, 1)
  BY GrammarExists
<1>3. f = Rows(f, zchars, entries, cut)
  <2>1. f \in [1 .. n -> [0 .. 2 -> Result]]
    BY <1>1, <1>2 DEF Grammar
  <2>2. \A i \in 1 .. n : f[i] = [a \in 0 .. 2 |-> Row(f, zchars, entries, cut, i, a)]
    <3> SUFFICES ASSUME NEW i \in 1 .. n
                 PROVE  f[i] = [a \in 0 .. 2 |-> Row(f, zchars, entries, cut, i, a)]
      OBVIOUS
    <3>1. f[i] \in [0 .. 2 -> Result]
      BY <2>1
    <3>2. \A a \in 0 .. 2 : f[i][a] = Row(f, zchars, entries, cut, i, a)
      BY <1>1, <1>2 DEF Grammar
    <3> QED BY <3>1, <3>2
  <2> QED BY <1>1, <2>1, <2>2 DEF Rows
<1>4. PICK g : g = CHOOSE h : h = Rows(h, zchars, entries, cut)
  OBVIOUS
<1>5. g = Rows(g, zchars, entries, cut)
  BY <1>3, <1>4
<1>6. \A i \in 1 .. n, a \in 0 .. 2 : g[i][a] = Row(g, zchars, entries, cut, i, a)
  <2>1. \A i \in 1 .. n : g[i] = [a \in 0 .. 2 |-> Row(g, zchars, entries, cut, i, a)]
    BY <1>1, <1>5, Zenon DEF Rows
  <2> QED BY <2>1
<1>7. g = f
  <2> DEFINE S == {k \in Nat : k <= n => SameBehind(f, g, zchars, n - k)}
  <2>1. 0 \in S
    BY <1>1 DEF SameBehind
  <2>2. ASSUME NEW k \in Nat, k \in S
        PROVE  k + 1 \in S
    <3> SUFFICES ASSUME k + 1 <= n
                 PROVE  SameBehind(f, g, zchars, n - (k + 1))
      OBVIOUS
    <3>1. PICK i : i = n - k
      OBVIOUS
    <3>2. i \in 1 .. n /\ n - (k + 1) = i - 1 /\ (i - 1) + 1 = i /\ k <= n
      BY <3>1
    <3>3. SameBehind(f, g, zchars, i)
      BY <2>2, <3>1, <3>2
    <3>4. \A a \in 0 .. 2 : f[i][a] = g[i][a]
      <4> SUFFICES ASSUME NEW a \in 0 .. 2
                   PROVE  f[i][a] = g[i][a]
        OBVIOUS
      <4>1. Row(f, zchars, entries, cut, i, a) = Row(g, zchars, entries, cut, i, a)
        <5>1. PICK j \in 1 .. Len(zchars) + 3 : j = i
          BY <1>1, <3>2
        <5>2. SameBehind(f, g, zchars, j)
          BY <3>3, <5>1
        <5>3. Row(f, zchars, entries, cut, j, a) = Row(g, zchars, entries, cut, j, a)
          BY <5>2, RowDepends
        <5> QED BY <5>1, <5>3
      <4>2. f[i][a] = Row(f, zchars, entries, cut, i, a)
        BY <1>1, <1>2, <3>2 DEF Grammar
      <4> QED BY <1>6, <3>2, <4>1, <4>2
    <3>5. \A j \in i .. n : j = i \/ j \in i + 1 .. n
      BY <3>2
    <3>6. \A j \in i .. n, b \in 0 .. 2 : f[j][b] = g[j][b]
      BY <1>1, <3>3, <3>4, <3>5 DEF SameBehind
    <3>7. SameBehind(f, g, zchars, i - 1)
      BY <1>1, <3>2, <3>6 DEF SameBehind
    <3> QED BY <3>2, <3>7
  <2> HIDE DEF S
  <2>3. Nat \subseteq S
    BY <2>1, <2>2, SetInduction
  <2>4. SameBehind(f, g, zchars, 0)
    <3>1. n \in S /\ n - n = 0
      BY <2>3
    <3> QED BY <3>1 DEF S
  <2>5. \A i \in 1 .. n, a \in 0 .. 2 : f[i][a] = g[i][a]
    BY <1>1, <2>4 DEF SameBehind
  <2>6. \A i \in 1 .. n : f[i] = g[i]
    <3> SUFFICES ASSUME NEW i \in 1 .. n
                 PROVE  f[i] = g[i]
      OBVIOUS
    <3>1. f[i] = [a \in 0 .. 2 |-> Row(f, zchars, entries, cut, i, a)]
      BY <1>1, <1>3, Zenon DEF Rows
    <3>2. g[i] = [a \in 0 .. 2 |-> Row(g, zchars, entries, cut, i, a)]
      BY <1>1, <1>5, Zenon DEF Rows
    <3>3. \A a \in 0 .. 2 : Row(f, zchars, entries, cut, i, a) = Row(g, zchars, entries, cut, i, a)
      <4> SUFFICES ASSUME NEW a \in 0 .. 2
                   PROVE  Row(f, zchars, entries, cut, i, a) = Row(g, zchars, entries, cut, i, a)
        OBVIOUS
      <4>1. f[i][a] = Row(f, zchars, entries, cut, i, a) /\ g[i][a] = Row(g, zchars, entries, cut, i, a)
        BY <3>1, <3>2
      <4> QED BY <2>5, <4>1
    <3> QED BY <3>1, <3>2, <3>3, Zenon
  <2>7. f = [i \in 1 .. n |-> f[i]] /\ g = [i \in 1 .. n |-> g[i]]
    BY <1>1, <1>3, <1>5 DEF Rows
  <2> QED BY <2>6, <2>7
<1>8. Grammar(g, zchars, entries, cut, 1)
  BY <1>2, <1>7
<1>9. Meaning(zchars, entries, cut) = g[1][0]
  BY <1>4, Zenon DEF Meaning, Rows, Row
<1> QED BY <1>8, <1>9

-----------------------------------------------------------------------------
(* Decoding and the grammar.                                               *)

\* Where the decoder and the grammar find abbreviations to mean the same: nowhere in
\* a nested text, and in every entry otherwise.
Matches(nested, entries, meanings, cut) ==
    /\ nested => cut.fault /\ \A x \in 0 .. 3 * ZLimit - 1 : meanings[x].fault
    /\ ~nested =>
          /\ entries \in Expansions /\ cut = Of(<<>>)
          /\ \A x \in 0 .. 3 * ZLimit - 1 : SaysSame(entries[x], meanings[x])

\* The rest of a text after k Z-characters, which a decoder in the state s has in
\* front of it, by the grammar.
RestIs(rest, s, k, g, zchars, meanings, cut) ==
    /\ s.expect = "nothing" => rest = g[k + 1][s.shift]
    /\ s.expect = "abbreviation" =>
         rest = IF k = Len(zchars) THEN cut
                ELSE Then(meanings[ZLimit * (s.held - 1) + zchars[k + 1]], g[k + 2][0])
    /\ s.expect = "escape" =>
         rest = IF k + 2 > Len(zchars) THEN Of(<<>>)
                ELSE Then(Of(Printed(zchars[k + 1] * ZLimit + zchars[k + 2])), g[k + 3][0])
    /\ s.expect = "escapeBottom" =>
         rest = IF k + 1 > Len(zchars) THEN Of(<<>>)
                ELSE Then(Of(Printed(s.held * ZLimit + zchars[k + 1])), g[k + 2][0])

\* The whole is a text and a rest.
Ahead(whole, text, rest) == whole.text = text \o rest.text /\ whole.fault = rest.fault

\* What has been decoded so far is the whole up to the rest.
OnTheWay(whole, s, k, g, zchars, meanings, cut) ==
    /\ s.expect = "fault" => whole.fault
    /\ s.expect # "fault" =>
          \E rest \in Result : RestIs(rest, s, k, g, zchars, meanings, cut) /\ Ahead(whole, s.text, rest)

-----------------------------------------------------------------------------
\* Something printed moves from what is ahead to what has been printed, and a
\* fault ahead is a fault of the whole.
LEMMA Onward ==
  ASSUME NEW whole, NEW text \in Seq(Code), NEW d \in Result, NEW q \in Result, NEW t \in Seq(Code),
         d.fault = FALSE, d.text = t, Ahead(whole, text, Then(d, q))
  PROVE  Ahead(whole, text \o t, q)
<1>1. d.text \in Seq(Code) /\ q.text \in Seq(Code) /\ q.fault \in BOOLEAN
  BY DEF Result
<1>2. Then(d, q).text = t \o q.text /\ Then(d, q).fault = q.fault
  BY <1>1 DEF Then
<1>3. whole.text = text \o (t \o q.text) /\ whole.fault = q.fault
  BY <1>2 DEF Ahead
<1>4. (text \o t) \o q.text = text \o (t \o q.text)
  <2>1. PICK r \in Seq(Code) : r = q.text
    BY <1>1
  <2>2. (text \o t) \o r = text \o (t \o r)
    BY CodesJoin, Zenon
  <2> QED BY <2>1, <2>2
<1> QED BY <1>3, <1>4 DEF Ahead

LEMMA FaultAhead ==
  ASSUME NEW whole, NEW text, NEW d \in Result, NEW q \in Result,
         d.fault, Ahead(whole, text, Then(d, q))
  PROVE  whole.fault
<1>1. d.fault \in BOOLEAN /\ q.fault \in BOOLEAN
  BY DEF Result
<1>2. Then(d, q).fault = TRUE
  BY <1>1 DEF Then
<1> QED BY <1>2 DEF Ahead

\* A decoder and the grammar take a Z-character the same way.
LEMMA WayKept ==
  ASSUME NEW zchars \in Seq(ZChar), NEW nested \in BOOLEAN, NEW entries,
         NEW meanings \in Expansions, NEW cut \in Result, Matches(nested, entries, meanings, cut),
         NEW g, Grammar(g, zchars, meanings, cut, 1), NEW whole,
         NEW k \in Nat, NEW j \in 1 .. Len(zchars), j = k + 1,
         NEW s \in ReadingState, NEW e \in ReadingState, Legal(s, nested), Legal(e, nested),
         ReadsOn(e, s, zchars[j], nested, entries),
         OnTheWay(whole, s, k, g, zchars, meanings, cut)
  PROVE  OnTheWay(whole, e, j, g, zchars, meanings, cut)
<1>1. PICK n \in Nat : n = Len(zchars)
  BY LenProperties
<1>2. PICK z \in ZChar : z = zchars[j]
  BY Behind
<1>3. /\ z \in Nat /\ (z = 0 \/ z \in 1 .. 3 \/ z \in {4, 5} \/ z > 5)
      /\ j # n => j + 1 \in 1 .. n /\ zchars[j + 1] \in ZChar
      /\ ~(j + 2 > n) => j + 1 \in 1 .. n /\ zchars[j + 1] \in ZChar /\ j + 2 \in 1 .. n /\ zchars[j + 2] \in ZChar
  BY <1>1, <1>2, Behind
<1>4. \A i \in 1 .. n + 3, a \in 0 .. 2 : g[i][a] \in Result
  BY <1>1 DEF Grammar
<1>5. j + 1 \in 1 .. n + 3 /\ j + 2 \in 1 .. n + 3 /\ j + 3 \in 1 .. n + 3 /\ 0 \in 0 .. 2
  BY <1>1
<1>6. g[j + 1][0] \in Result /\ g[j + 2][0] \in Result /\ g[j + 3][0] \in Result
  BY <1>4, <1>5
<1>7. /\ s.expect \in Expectations /\ s.held \in ZChar /\ s.shift \in 0 .. 2 /\ s.text \in Seq(Code)
      /\ e.expect \in Expectations /\ e.held \in ZChar /\ e.shift \in 0 .. 2 /\ e.text \in Seq(Code)
  BY DEF ReadingState, Expectations
<1>8. k + 1 = j /\ k + 2 = j + 1 /\ k + 3 = j + 2 /\ k # n /\ ~(k + 1 > n)
  BY <1>1
<1>9. CASE s.expect = "fault"
  <2>1. e.expect = "fault" /\ whole.fault
    BY <1>9 DEF ReadsOn, OnTheWay
  <2> QED BY <2>1 DEF OnTheWay
<1>10. CASE s.expect # "fault"
  <2>1. PICK rest \in Result : RestIs(rest, s, k, g, zchars, meanings, cut) /\ Ahead(whole, s.text, rest)
    BY <1>10 DEF OnTheWay
  <2>2. CASE s.expect = "abbreviation"
    <3>1. s.held \in 1 .. 3 /\ ~nested
      BY <2>2 DEF Legal
    <3>2. PICK x : x = (s.held - 1) * ZLimit + z
      OBVIOUS
    <3>3. x \in 0 .. 3 * ZLimit - 1 /\ x = ZLimit * (s.held - 1) + z
      BY <3>1, <3>2, TwoMakeIndex
    <3>4. PICK d, m : d = entries[x] /\ m = meanings[x]
      OBVIOUS
    <3>5. d \in Result /\ m \in Result /\ SaysSame(d, m)
      BY <3>1, <3>3, <3>4 DEF Matches, Expansions
    <3>6. rest = Then(m, g[j + 1][0])
      BY <1>1, <1>2, <1>8, <2>1, <2>2, <3>3, <3>4 DEF RestIs
    <3>7. IF d.fault THEN e.expect = "fault"
          ELSE e.expect = "nothing" /\ e.shift = 0 /\ e.text = s.text \o d.text
      BY <1>2, <2>2, <3>2, <3>4 DEF ReadsOn, ReadsEntry
    <3>8. d.fault \in BOOLEAN /\ m.fault \in BOOLEAN /\ m.text \in Seq(Code)
      BY <3>5 DEF Result
    <3>9. CASE d.fault
      <4>1. m.fault
        BY <3>5, <3>9 DEF SaysSame
      <4>2. whole.fault
        BY <1>6, <2>1, <3>5, <3>6, <4>1, FaultAhead
      <4> QED BY <3>7, <3>9, <4>2 DEF OnTheWay
    <3>10. CASE ~d.fault
      <4>1. m.fault = FALSE /\ d.text = m.text
        BY <3>5, <3>8, <3>10 DEF SaysSame
      <4>2. Ahead(whole, s.text \o m.text, g[j + 1][0])
        BY <1>6, <1>7, <2>1, <3>5, <3>6, <3>8, <4>1, Onward
      <4>3. e.expect = "nothing" /\ e.shift = 0 /\ e.text = s.text \o m.text
        BY <3>7, <3>10, <4>1
      <4>4. RestIs(g[j + 1][0], e, j, g, zchars, meanings, cut)
        BY <4>3 DEF RestIs
      <4> QED BY <1>6, <4>2, <4>3, <4>4 DEF OnTheWay
    <3> QED BY <3>9, <3>10
  <2>3. CASE s.expect = "escape"
    <3>1. e.expect = "escapeBottom" /\ e.held = z /\ e.text = s.text
      BY <1>2, <2>3 DEF ReadsOn
    <3>2. rest = IF j + 1 > n THEN Of(<<>>)
                 ELSE Then(Of(Printed(z * ZLimit + zchars[j + 1])), g[j + 2][0])
      BY <1>1, <1>2, <1>8, <2>1, <2>3 DEF RestIs
    <3>3. RestIs(rest, e, j, g, zchars, meanings, cut)
      BY <1>1, <3>1, <3>2 DEF RestIs
    <3> QED BY <2>1, <3>1, <3>3 DEF OnTheWay
  <2>4. CASE s.expect = "escapeBottom"
    <3>1. PICK t : t = Printed(s.held * ZLimit + z)
      OBVIOUS
    <3>2. t \in Seq(Code)
      BY <1>7, <3>1, TwoMakeCode, CodesPrinted
    <3>3. e.expect = "nothing" /\ e.shift = 0 /\ e.text = s.text \o t
      BY <1>2, <2>4, <3>1 DEF ReadsOn
    <3>4. rest = Then(Of(t), g[j + 1][0])
      BY <1>1, <1>2, <1>8, <2>1, <2>4, <3>1 DEF RestIs
    <3>5. Ahead(whole, s.text \o t, g[j + 1][0])
      BY <1>6, <1>7, <2>1, <3>2, <3>4, OfTyped, Onward
    <3>6. RestIs(g[j + 1][0], e, j, g, zchars, meanings, cut)
      BY <3>3 DEF RestIs
    <3> QED BY <1>6, <3>3, <3>5, <3>6 DEF OnTheWay
  <2>5. CASE s.expect = "nothing"
    <3>1. rest = g[j][s.shift]
      BY <1>8, <2>1, <2>5 DEF RestIs
    <3>2. RowSays(rest, g, zchars, meanings, cut, j, s.shift, z)
      <4>1. j \in 1 .. Len(zchars) + 3
        BY <1>1
      <4>2. rest = Row(g, zchars, meanings, cut, j, s.shift)
        BY <1>7, <3>1, <4>1 DEF Grammar
      <4> QED BY <1>2, <1>7, <4>2, RowIs
    <3>3. CASE z = 0
      <4>1. PICK t : t = Printed(Space)
        OBVIOUS
      <4>2. t \in Seq(Code)
        BY <4>1, CodesPrinted, TextAssumption
      <4>3. e.expect = "nothing" /\ e.shift = 0 /\ e.text = s.text \o t
        BY <1>2, <2>5, <3>3, <4>1 DEF ReadsOn, ReadsPlain
      <4>4. rest = Then(Of(t), g[j + 1][0])
        BY <3>2, <3>3, <4>1 DEF RowSays
      <4>5. Ahead(whole, s.text \o t, g[j + 1][0])
        BY <1>6, <1>7, <2>1, <4>2, <4>4, OfTyped, Onward
      <4>6. RestIs(g[j + 1][0], e, j, g, zchars, meanings, cut)
        BY <4>3 DEF RestIs
      <4> QED BY <1>6, <4>3, <4>5, <4>6 DEF OnTheWay
    <3>4. CASE z \in 1 .. 3
      <4>1. rest = IF j = n THEN cut
                   ELSE Then(meanings[ZLimit * (z - 1) + zchars[j + 1]], g[j + 2][0])
        BY <1>1, <3>2, <3>4 DEF RowSays
      <4>2. CASE nested
        <5>1. e.expect = "fault"
          BY <1>2, <2>5, <3>4, <4>2 DEF ReadsOn, ReadsPlain
        <5>2. CASE j = n
          <6>1. whole.fault
            BY <2>1, <4>1, <4>2, <5>2 DEF Matches, Ahead
          <6> QED BY <5>1, <6>1 DEF OnTheWay
        <5>3. CASE j # n
          <6>1. PICK y \in ZChar : y = zchars[j + 1]
            BY <1>3, <5>3
          <6>2. PICK x : x = ZLimit * (z - 1) + y
            OBVIOUS
          <6>3. x \in 0 .. 3 * ZLimit - 1
            BY <3>4, <6>2, TwoMakeIndex
          <6>4. PICK m : m = meanings[x]
            OBVIOUS
          <6>5. m \in Result /\ m.fault
            BY <4>2, <6>3, <6>4 DEF Matches, Expansions
          <6>6. rest = Then(m, g[j + 2][0])
            BY <4>1, <5>3, <6>1, <6>2, <6>4
          <6>7. whole.fault
            BY <1>6, <2>1, <6>5, <6>6, FaultAhead
          <6> QED BY <5>1, <6>7 DEF OnTheWay
        <5> QED BY <5>2, <5>3
      <4>3. CASE ~nested
        <5>1. e.expect = "abbreviation" /\ e.held = z /\ e.text = s.text
          BY <1>2, <2>5, <3>4, <4>3 DEF ReadsOn, ReadsPlain
        <5>2. RestIs(rest, e, j, g, zchars, meanings, cut)
          BY <1>1, <4>1, <5>1 DEF RestIs
        <5> QED BY <2>1, <5>1, <5>2 DEF OnTheWay
      <4> QED BY <4>2, <4>3
    <3>5. CASE z \in {4, 5}
      <4>1. e.expect = "nothing" /\ e.shift = z - 3 /\ e.text = s.text
        BY <1>2, <2>5, <3>5 DEF ReadsOn, ReadsPlain
      <4>2. rest = g[j + 1][z - 3]
        BY <3>2, <3>5 DEF RowSays
      <4>3. RestIs(rest, e, j, g, zchars, meanings, cut)
        BY <4>1, <4>2 DEF RestIs
      <4> QED BY <2>1, <4>1, <4>3 DEF OnTheWay
    <3>6. CASE z = 6 /\ s.shift = 2
      <4>1. e.expect = "escape" /\ e.text = s.text
        BY <1>2, <2>5, <3>6 DEF ReadsOn, ReadsPlain
      <4>2. rest = IF j + 2 > n THEN Of(<<>>)
                   ELSE Then(Of(Printed(zchars[j + 1] * ZLimit + zchars[j + 2])), g[j + 3][0])
        BY <1>1, <3>2, <3>6 DEF RowSays
      <4>3. RestIs(rest, e, j, g, zchars, meanings, cut)
        BY <1>1, <4>1, <4>2 DEF RestIs
      <4> QED BY <2>1, <4>1, <4>3 DEF OnTheWay
    <3>7. CASE z > 5 /\ ~(z = 6 /\ s.shift = 2)
      <4>1. PICK t : t = Printed(Alphabet(s.shift)[z])
        OBVIOUS
      <4>2. t \in Seq(Code)
        <5>1. z \in 6 .. ZLimit - 1
          BY <1>2, <1>3, <3>7, ZCharsWhole DEF ZChar
        <5> QED BY <1>7, <4>1, <5>1, AlphabetCodes, CodesPrinted
      <4>3. e.expect = "nothing" /\ e.shift = 0 /\ e.text = s.text \o t
        BY <1>2, <2>5, <3>7, <4>1 DEF ReadsOn, ReadsPlain
      <4>4. rest = Then(Of(t), g[j + 1][0])
        BY <3>2, <3>7, <4>1 DEF RowSays
      <4>5. Ahead(whole, s.text \o t, g[j + 1][0])
        BY <1>6, <1>7, <2>1, <4>2, <4>4, OfTyped, Onward
      <4>6. RestIs(g[j + 1][0], e, j, g, zchars, meanings, cut)
        BY <4>3 DEF RestIs
      <4> QED BY <1>6, <4>3, <4>5, <4>6 DEF OnTheWay
    <3> QED BY <1>3, <3>3, <3>4, <3>5, <3>6, <3>7
  <2> QED BY <1>7, <1>10, <2>2, <2>3, <2>4, <2>5 DEF Expectations
<1> QED BY <1>9, <1>10

\* Decoding a text and the grammar of the text say the same.
LEMMA DecodedMeans ==
  ASSUME NEW zchars \in Seq(ZChar), NEW nested \in BOOLEAN, NEW entries, ~nested => entries \in Expansions,
         NEW meanings \in Expansions, NEW cut \in Result, Matches(nested, entries, meanings, cut)
  PROVE  /\ Decoded(zchars, nested, entries) \in Result /\ Meaning(zchars, meanings, cut) \in Result
         /\ SaysSame(Decoded(zchars, nested, entries), Meaning(zchars, meanings, cut))
<1>1. PICK n \in Nat : n = Len(zchars)
  BY LenProperties
<1>2. PICK d, whole : d = Decoded(zchars, nested, entries) /\ whole = Meaning(zchars, meanings, cut)
  OBVIOUS
<1>3. PICK f : Deciphers(f, zchars, nested, entries) /\ d.text = f[n].text
               /\ d.fault = (f[n].expect = "fault") /\ d \in Result
  BY <1>1, <1>2, DecodedIs
<1>4. PICK g : Grammar(g, zchars, meanings, cut, 1) /\ whole = g[1][0]
  BY <1>2, MeaningIs
<1>5. /\ \A i \in 1 .. n + 3, a \in 0 .. 2 : g[i][a] \in Result
      /\ \A i \in 1 .. n + 3, a \in 0 .. 2 : g[i][a] = Row(g, zchars, meanings, cut, i, a)
  BY <1>1, <1>4 DEF Grammar
<1>6. whole \in Result
  <2>1. 1 \in 1 .. n + 3 /\ 0 \in 0 .. 2
    BY <1>1
  <2> QED BY <1>4, <1>5, <2>1
<1>7. /\ \A i \in 0 .. n : f[i] \in ReadingState /\ Legal(f[i], nested)
      /\ \A i \in 1 .. n : f[i] = ReadZChar(f[i - 1], zchars[i], nested, entries)
      /\ f[0] = Untouched
  BY <1>1, <1>3 DEF Deciphers
<1> DEFINE S == {k \in Nat : k <= n => OnTheWay(whole, f[k], k, g, zchars, meanings, cut)}
<1>8. 0 \in S
  <2>1. PICK s : s = f[0]
    OBVIOUS
  <2>2. s.expect = "nothing" /\ s.shift = 0 /\ s.text = <<>>
    BY <1>7, <2>1, UntouchedTyped
  <2>3. 0 + 1 = 1
    OBVIOUS
  <2>4. RestIs(whole, s, 0, g, zchars, meanings, cut)
    BY <1>4, <2>2, <2>3 DEF RestIs
  <2>5. whole.text \in Seq(Code)
    BY <1>6 DEF Result
  <2>6. Ahead(whole, s.text, whole)
    BY <2>2, <2>5, CodesJoin DEF Ahead
  <2>7. OnTheWay(whole, s, 0, g, zchars, meanings, cut)
    BY <1>6, <2>2, <2>4, <2>6 DEF OnTheWay
  <2> QED BY <2>1, <2>7
<1>9. ASSUME NEW k \in Nat, k \in S
      PROVE  k + 1 \in S
  <2> SUFFICES ASSUME k + 1 <= n
               PROVE  OnTheWay(whole, f[k + 1], k + 1, g, zchars, meanings, cut)
    OBVIOUS
  <2>1. PICK j : j = k + 1
    OBVIOUS
  <2>2. j \in 1 .. n /\ j \in 0 .. n /\ k \in 0 .. n /\ j - 1 = k /\ k <= n
    BY <2>1
  <2>3. PICK s, e : s = f[k] /\ e = f[j]
    OBVIOUS
  <2>4. s \in ReadingState /\ e \in ReadingState /\ Legal(s, nested) /\ Legal(e, nested)
    BY <1>7, <2>2, <2>3
  <2>5. OnTheWay(whole, s, k, g, zchars, meanings, cut)
    BY <1>9, <2>2, <2>3
  <2>6. e = ReadZChar(s, zchars[j], nested, entries)
    BY <1>7, <2>2, <2>3
  <2>7. zchars[j] \in ZChar
    BY <1>1, <2>2, Behind
  <2>8. ReadsOn(e, s, zchars[j], nested, entries)
    BY <2>4, <2>6, <2>7, ZCharRead
  <2>9. OnTheWay(whole, e, j, g, zchars, meanings, cut)
    BY <1>1, <1>4, <2>1, <2>2, <2>4, <2>5, <2>8, WayKept
  <2> QED BY <2>1, <2>3, <2>9
<1> HIDE DEF S
<1>10. Nat \subseteq S
  BY <1>8, <1>9, SetInduction
<1>11. OnTheWay(whole, f[n], n, g, zchars, meanings, cut)
  <2>1. n \in S /\ n <= n
    BY <1>10
  <2> QED BY <2>1 DEF S
<1>12. PICK s : s = f[n]
  OBVIOUS
<1>13. s \in ReadingState /\ Legal(s, nested)
  <2>1. n \in 0 .. n
    OBVIOUS
  <2> QED BY <1>7, <1>12, <2>1
<1>14. s.expect \in Expectations /\ s.shift \in 0 .. 2 /\ s.text \in Seq(Code)
  BY <1>13 DEF ReadingState, Expectations
<1>15. CASE s.expect = "fault"
  <2>1. whole.fault /\ d.fault
    BY <1>3, <1>11, <1>12, <1>15 DEF OnTheWay
  <2>2. whole.fault \in BOOLEAN /\ d.fault \in BOOLEAN
    BY <1>3, <1>6 DEF Result
  <2>3. SaysSame(d, whole)
    BY <2>1, <2>2 DEF SaysSame
  <2> QED BY <1>2, <1>3, <1>6, <2>3
<1>16. CASE s.expect # "fault"
  <2>1. PICK rest \in Result : RestIs(rest, s, n, g, zchars, meanings, cut) /\ Ahead(whole, s.text, rest)
    BY <1>11, <1>12, <1>16 DEF OnTheWay
  <2>2. rest = Of(<<>>)
    <3>1. CASE s.expect = "nothing"
      <4>1. n + 1 \in 1 .. n + 3 /\ n + 1 > n
        OBVIOUS
      <4>2. rest = Row(g, zchars, meanings, cut, n + 1, s.shift)
        BY <1>5, <1>14, <2>1, <3>1, <4>1 DEF RestIs
      <4> QED BY <1>1, <4>1, <4>2 DEF Row
    <3>2. CASE s.expect = "abbreviation"
      BY <1>1, <1>13, <2>1, <3>2 DEF RestIs, Legal, Matches
    <3>3. CASE s.expect = "escape"
      <4>1. n + 2 > n
        OBVIOUS
      <4> QED BY <1>1, <2>1, <3>3, <4>1 DEF RestIs
    <3>4. CASE s.expect = "escapeBottom"
      <4>1. n + 1 > n
        OBVIOUS
      <4> QED BY <1>1, <2>1, <3>4, <4>1 DEF RestIs
    <3> QED BY <1>14, <1>16, <3>1, <3>2, <3>3, <3>4 DEF Expectations
  <2>3. whole.text = s.text /\ whole.fault = FALSE
    BY <1>14, <2>1, <2>2, NothingTyped, CodesJoin DEF Ahead
  <2>4. d.text = s.text /\ d.fault = FALSE
    BY <1>3, <1>12, <1>16
  <2>5. SaysSame(d, whole)
    BY <2>3, <2>4 DEF SaysSame
  <2> QED BY <1>2, <1>3, <1>6, <2>5
<1> QED BY <1>15, <1>16

\* The texts of the table of abbreviations, which have no abbreviations in them.
LEMMA AbbreviationsMean ==
  /\ AbbreviationTexts \in Expansions /\ MeaningOfEntries \in Expansions
  /\ \A x \in 0 .. 3 * ZLimit - 1 : SaysSame(AbbreviationTexts[x], MeaningOfEntries[x])
<1>1. PICK none : none = [i \in DOMAIN Abbreviations |-> NoText]
  OBVIOUS
<1>2. /\ DOMAIN Abbreviations = 0 .. 3 * ZLimit - 1
      /\ \A i \in 0 .. 3 * ZLimit - 1 :
            Abbreviations[i].fault \in BOOLEAN /\ Abbreviations[i].zchars \in Seq(ZChar)
  BY TextAssumption
<1>3. none \in Expansions /\ \A x \in 0 .. 3 * ZLimit - 1 : none[x].fault
  BY <1>1, <1>2, NoTextTyped DEF Expansions
<1>4. Matches(TRUE, <<>>, none, NoText)
  BY <1>3, NoTextTyped DEF Matches
<1>5. /\ AbbreviationTexts = [i \in 0 .. 3 * ZLimit - 1 |-> AbbreviationText(i)]
      /\ MeaningOfEntries = [i \in 0 .. 3 * ZLimit - 1 |->
             IF Abbreviations[i].fault THEN NoText ELSE Meaning(Abbreviations[i].zchars, none, NoText)]
  BY <1>1, <1>2 DEF AbbreviationTexts, MeaningOfEntries
<1>6. \A x \in 0 .. 3 * ZLimit - 1 :
         /\ AbbreviationTexts[x] \in Result /\ MeaningOfEntries[x] \in Result
         /\ SaysSame(AbbreviationTexts[x], MeaningOfEntries[x])
  <2> SUFFICES ASSUME NEW x \in 0 .. 3 * ZLimit - 1
               PROVE  /\ AbbreviationTexts[x] \in Result /\ MeaningOfEntries[x] \in Result
                      /\ SaysSame(AbbreviationTexts[x], MeaningOfEntries[x])
    OBVIOUS
  <2>1. CASE Abbreviations[x].fault
    <3>1. AbbreviationTexts[x] = NoText /\ MeaningOfEntries[x] = NoText
      BY <1>5, <2>1 DEF AbbreviationText
    <3> QED BY <3>1, NoTextTyped DEF SaysSame
  <2>2. CASE ~Abbreviations[x].fault
    <3>1. PICK zchars \in Seq(ZChar) : zchars = Abbreviations[x].zchars
      BY <1>2
    <3>2. /\ AbbreviationTexts[x] = Decoded(zchars, TRUE, <<>>)
          /\ MeaningOfEntries[x] = Meaning(zchars, none, NoText)
      BY <1>5, <2>2, <3>1 DEF AbbreviationText
    <3>3. /\ Decoded(zchars, TRUE, <<>>) \in Result /\ Meaning(zchars, none, NoText) \in Result
          /\ SaysSame(Decoded(zchars, TRUE, <<>>), Meaning(zchars, none, NoText))
      BY <1>3, <1>4, NoTextTyped, DecodedMeans
    <3> QED BY <3>2, <3>3
  <2> QED BY <2>1, <2>2
<1>7. AbbreviationTexts \in Expansions /\ MeaningOfEntries \in Expansions
  BY <1>5, <1>6 DEF Expansions
<1> QED BY <1>6, <1>7

\* Every text, of whatever length and however its constructions are cut, is
\* printed as the grammar of S 3 says, and refused where the grammar has no
\* meaning for it (decodeZText and abbreviationText, text.go).
THEOREM TextsAlwaysMean == \A zchars \in Seq(ZChar) : TextAsSpecified(zchars)
<1>1. SUFFICES ASSUME NEW zchars \in Seq(ZChar)
               PROVE  TextAsSpecified(zchars)
  OBVIOUS
<1>2. Matches(FALSE, AbbreviationTexts, MeaningOfEntries, Of(<<>>))
  BY AbbreviationsMean DEF Matches
<1>3. SaysSame(DecodeZText(zchars), Meaning(zchars, MeaningOfEntries, Of(<<>>)))
  BY <1>2, AbbreviationsMean, NothingTyped, DecodedMeans DEF DecodeZText
<1> QED BY <1>3 DEF TextAsSpecified, SaysSame

-----------------------------------------------------------------------------
(* Texts in memory.                                                        *)

\* Two digits, to bases of their own, make a number.
LEMMA TwoMakeNumber ==
  ASSUME NEW m \in Nat \ {0}, NEW n \in Nat \ {0}, NEW h \in 0 .. m - 1, NEW z \in 0 .. n - 1
  PROVE  h * n + z \in 0 .. m * n - 1
<1>1. h * n <= (m - 1) * n
  OBVIOUS
<1>2. PICK x, y : x = h * n /\ y = m * n
  OBVIOUS
<1>3. (m - 1) * n = y - n /\ x \in Nat /\ y \in Nat
  BY <1>2
<1>4. x + z \in 0 .. y - 1
  BY <1>1, <1>2, <1>3
<1> QED BY <1>2, <1>4

\* The limits of a word.
LEMMA WordLimits ==
  /\ TextByteLimit \in Nat \ {0} /\ EndBit \in Nat \ {0}
  /\ TextByteLimit * TextByteLimit = EndBit + EndBit
<1>1. PICK n \in Nat : n = ZLimit
  BY ZCharsWhole
<1>2. PICK t : t = n * n * n
  OBVIOUS
<1>3. t \in Nat /\ t > 0 /\ 2 * n * n * n = t + t
  <2>1. n > 7
    BY <1>1, ZCharsWhole
  <2>2. PICK s \in Nat : s = n * n
    BY <1>1
  <2>3. s > 0
    BY <2>1, <2>2
  <2>4. t = s * n
    BY <1>2, <2>2
  <2>5. t > 0 /\ t \in Nat
    BY <2>1, <2>2, <2>3, <2>4
  <2>6. 2 * n * n * n = (2 * s) * n
    BY <2>2
  <2>7. (2 * s) * n = s * n + s * n
    BY <2>2
  <2> QED BY <2>4, <2>5, <2>6, <2>7
<1>4. EndBit = t
  BY <1>1, <1>2 DEF EndBit
<1>5. TextByteLimit \in Nat /\ TextByteLimit * TextByteLimit = t + t
  BY <1>1, <1>3, StoryTextAssumption
<1>6. TextByteLimit # 0
  BY <1>3, <1>5
<1> QED BY <1>3, <1>4, <1>5, <1>6

\* Three Z-characters in a word, of which the top bit is a mark.
ThreeIn(w, marked, a, b, c) ==
    /\ w \in 0 .. TextByteLimit * TextByteLimit - 1
    /\ w >= EndBit <=> marked
    /\ ZCharIn(w, 1) = a /\ ZCharIn(w, 2) = b /\ ZCharIn(w, 3) = c

\* The three Z-characters of a word and its mark.
LEMMA WordParts ==
  ASSUME NEW a \in ZChar, NEW b \in ZChar, NEW c \in ZChar, NEW mark \in {0, EndBit}
  PROVE  ThreeIn((a * ZLimit + b) * ZLimit + c + mark, mark = EndBit, a, b, c)
<1>0. PICK w : w = (a * ZLimit + b) * ZLimit + c + mark
  OBVIOUS
<1>1. PICK n \in Nat \ {0} : n = ZLimit
  BY ZCharsWhole
<1>2. a \in 0 .. n - 1 /\ b \in 0 .. n - 1 /\ c \in 0 .. n - 1
  BY <1>1 DEF ZChar
<1>3. PICK s \in Nat \ {0} : s = n * n
  <2>1. n * n \in Nat /\ n * n # 0
    OBVIOUS
  <2> QED BY <2>1
<1>4. PICK t \in Nat \ {0} : t = s * n /\ t = EndBit
  <2>1. s * n = n * n * n
    BY <1>3
  <2>2. s * n = EndBit
    BY <1>1, <2>1 DEF EndBit
  <2> QED BY <2>2, WordLimits
<1>5. PICK e \in {0, 1} : mark = IF e = 1 THEN t ELSE 0
  BY <1>4
<1>6. PICK en : en = IF e = 1 THEN n ELSE 0
  OBVIOUS
<1>7. PICK es : es = IF e = 1 THEN s ELSE 0
  OBVIOUS
<1>8. en \in Nat /\ es \in Nat /\ mark \in Nat /\ en = n * e /\ es = n * en /\ mark = n * es /\ mark = s * en
  <2>1. CASE e = 1
    BY <1>3, <1>4, <1>5, <1>6, <1>7, <2>1
  <2>2. CASE e = 0
    BY <1>3, <1>4, <1>5, <1>6, <1>7, <2>2
  <2> QED BY <2>1, <2>2
<1>9. PICK ab \in Nat : ab = a * n + b /\ ab \in 0 .. s - 1
  BY <1>2, <1>3, TwoMakeNumber
<1>10. PICK bc \in Nat : bc = b * n + c /\ bc \in 0 .. s - 1
  BY <1>2, <1>3, TwoMakeNumber
<1>11. PICK v \in Nat : v = ab * n + c /\ v \in 0 .. t - 1
  BY <1>2, <1>3, <1>4, <1>9, TwoMakeNumber
<1>12. w = v + mark
  BY <1>0, <1>1, <1>9, <1>11
<1>13. w \in Int /\ w \in 0 .. t + t - 1 /\ (w >= t <=> mark = t)
  BY <1>4, <1>5, <1>11, <1>12
<1>14. w = n * (ab + es) + c
  <2>1. n * (ab + es) = n * ab + n * es
    BY <1>8
  <2>2. n * ab = ab * n
    OBVIOUS
  <2> QED BY <1>2, <1>8, <1>11, <1>12, <2>1, <2>2
<1>15. ab + es = n * (a + en) + b
  <2>1. n * (a + en) = n * a + n * en
    BY <1>2, <1>8
  <2>2. n * a = a * n
    BY <1>2
  <2> QED BY <1>2, <1>8, <1>9, <2>1, <2>2
<1>16. a + en = n * e + a
  BY <1>2, <1>8
<1>17. w = s * (a + en) + bc
  <2>1. ab * n = a * s + b * n
    <3>1. ab * n = (a * n + b) * n
      BY <1>9
    <3>2. (a * n + b) * n = (a * n) * n + b * n
      BY <1>2
    <3>3. (a * n) * n = a * s
      BY <1>2, <1>3
    <3> QED BY <3>1, <3>2, <3>3
  <2>2. s * (a + en) = s * a + s * en
    BY <1>2, <1>8
  <2>3. s * a = a * s
    BY <1>2
  <2> QED BY <1>2, <1>8, <1>10, <1>11, <1>12, <2>1, <2>2, <2>3
<1>18. w % n = c /\ w \div n = ab + es
  <2>1. PICK p \in Int : p = ab + es
    BY <1>8
  <2>2. w = n * p + c
    BY <1>14, <2>1
  <2>3. w \div n = p /\ w % n = c
    BY <1>2, <1>13, <2>2, DivisionOf
  <2> QED BY <2>1, <2>3
<1>19. (ab + es) % n = b
  <2>1. PICK p \in Int, q \in Int : p = ab + es /\ q = a + en
    BY <1>2, <1>8
  <2>2. p \in Int /\ p = n * q + b
    BY <1>8, <1>15, <2>1
  <2>3. p % n = b
    BY <1>2, <2>1, <2>2, DivisionOf
  <2> QED BY <2>1, <2>3
<1>20. w \div s = a + en
  <2>1. PICK q \in Int : q = a + en
    BY <1>2, <1>8
  <2>2. w = s * q + bc /\ w \in Int
    BY <1>13, <1>17, <2>1
  <2>3. w \div s = q
    BY <1>10, <2>2, DivisionOf
  <2> QED BY <2>1, <2>3
<1>21. (a + en) % n = a
  BY <1>2, <1>5, <1>8, <1>16, DivisionOf
<1>22. w \div 1 = w
  BY <1>13
<1>23. ZCharIn(w, 1) = a
  <2>1. ZCharIn(w, 1) = (w \div s) % n
    BY <1>1, <1>3 DEF ZCharIn
  <2> QED BY <1>20, <1>21, <2>1
<1>24. ZCharIn(w, 2) = b
  <2>1. ZCharIn(w, 2) = (w \div n) % n
    BY <1>1 DEF ZCharIn
  <2> QED BY <1>18, <1>19, <2>1
<1>25. ZCharIn(w, 3) = c
  <2>1. ZCharIn(w, 3) = (w \div 1) % n
    BY <1>1 DEF ZCharIn
  <2> QED BY <1>18, <1>22, <2>1
<1>26. w \in 0 .. TextByteLimit * TextByteLimit - 1
  BY <1>4, <1>13, WordLimits
<1> QED BY <1>0, <1>4, <1>13, <1>23, <1>24, <1>25, <1>26 DEF ThreeIn

\* Two bytes make up a word.
LEMMA BytesOfWord ==
  ASSUME NEW w \in 0 .. TextByteLimit * TextByteLimit - 1
  PROVE  /\ w \div TextByteLimit \in 0 .. TextByteLimit - 1 /\ w % TextByteLimit \in 0 .. TextByteLimit - 1
         /\ (w \div TextByteLimit) * TextByteLimit + (w % TextByteLimit) = w
<1>1. PICK n \in Nat \ {0} : n = TextByteLimit
  BY WordLimits
<1>2. PICK q, r : q = w \div n /\ r = w % n
  OBVIOUS
<1>3. w \in Int /\ w >= 0 /\ w < n * n
  BY <1>1
<1>4. q \in Nat /\ r \in 0 .. n - 1 /\ w = n * q + r
  BY <1>2, <1>3, DivisionParts
<1>5. q < n
  <2> SUFFICES ASSUME q >= n PROVE FALSE
    BY <1>4
  <2>1. n * q >= n * n
    BY <1>4
  <2>2. PICK x, y : x = n * q /\ y = n * n /\ x \in Nat /\ y \in Nat
    BY <1>4
  <2> QED BY <1>3, <1>4, <2>1, <2>2
<1>6. q * n = n * q
  BY <1>4
<1> QED BY <1>1, <1>2, <1>4, <1>5, <1>6

\* The k-th word of a text of m words, and its value.
TextWordOf(zs, m, k) ==
    (zs[3 * k - 2] * ZLimit + zs[3 * k - 1]) * ZLimit + zs[3 * k] + (IF k = m THEN EndBit ELSE 0)

WordHolds(w, zs, m, k) == ThreeIn(w, k = m, zs[3 * k - 2], zs[3 * k - 1], zs[3 * k])

\* The bytes of a text of m words are there from the address on.
LaidAt(view, address, zs, m) ==
    \A i \in 1 .. 2 * m : view[address + i - 1] = Packed(zs)[i]

\* Each word of a text holds its three Z-characters.
LEMMA WordOfText ==
  ASSUME NEW m \in Nat \ {0}, NEW zs \in Seq(ZChar), Len(zs) = 3 * m, NEW k \in 1 .. m
  PROVE  WordHolds(TextWordOf(zs, m, k), zs, m, k)
<1>1. PICK a \in ZChar, b \in ZChar, c \in ZChar : a = zs[3 * k - 2] /\ b = zs[3 * k - 1] /\ c = zs[3 * k]
  <2>1. 3 * k - 2 \in 1 .. Len(zs) /\ 3 * k - 1 \in 1 .. Len(zs) /\ 3 * k \in 1 .. Len(zs)
    OBVIOUS
  <2> QED BY <2>1, ElementOfSeq
<1>2. PICK mark \in {0, EndBit} : mark = (IF k = m THEN EndBit ELSE 0)
  OBVIOUS
<1>3. mark = EndBit <=> k = m
  BY <1>2, WordLimits
<1>4. PICK w : w = TextWordOf(zs, m, k)
  OBVIOUS
<1>5. w = (a * ZLimit + b) * ZLimit + c + mark
  BY <1>1, <1>2, <1>4 DEF TextWordOf
<1>6. ThreeIn(w, mark = EndBit, a, b, c)
  BY <1>5, WordParts
<1> QED BY <1>1, <1>3, <1>4, <1>6, Zenon DEF WordHolds

\* How a text is packed, byte by byte.
LEMMA PackedIs ==
  ASSUME NEW m \in Nat \ {0}, NEW zs \in Seq(ZChar), Len(zs) = 3 * m
  PROVE  /\ Packed(zs) \in Seq(0 .. TextByteLimit - 1) /\ Len(Packed(zs)) = 2 * m
         /\ \A k \in 1 .. m : /\ Packed(zs)[2 * k - 1] = TextWordOf(zs, m, k) \div TextByteLimit
                              /\ Packed(zs)[2 * k] = TextWordOf(zs, m, k) % TextByteLimit
<1>1. Len(zs) \div 3 = m
  OBVIOUS
<1> DEFINE Bytes == [i \in 1 .. 2 * m |->
                       IF i % 2 = 1 THEN TextWordOf(zs, m, (i + 1) \div 2) \div TextByteLimit
                       ELSE TextWordOf(zs, m, i \div 2) % TextByteLimit]
<1>2. Packed(zs) = Bytes
  BY <1>1 DEF Packed, TextWordOf
<1>3. ASSUME NEW i \in 1 .. 2 * m
      PROVE  Bytes[i] \in 0 .. TextByteLimit - 1
  <2>1. CASE i % 2 = 1
    <3>1. PICK k \in 1 .. m : k = (i + 1) \div 2
      BY <2>1
    <3>2. PICK w : w = TextWordOf(zs, m, k) /\ Bytes[i] = w \div TextByteLimit
      BY <2>1, <3>1
    <3>3. w \in 0 .. TextByteLimit * TextByteLimit - 1
      BY <3>2, WordOfText DEF WordHolds, ThreeIn
    <3> QED BY <3>2, <3>3, BytesOfWord
  <2>2. CASE i % 2 # 1
    <3>1. PICK k \in 1 .. m : k = i \div 2
      BY <2>2
    <3>2. PICK w : w = TextWordOf(zs, m, k) /\ Bytes[i] = w % TextByteLimit
      BY <2>2, <3>1
    <3>3. w \in 0 .. TextByteLimit * TextByteLimit - 1
      BY <3>2, WordOfText DEF WordHolds, ThreeIn
    <3> QED BY <3>2, <3>3, BytesOfWord
  <2> QED BY <2>1, <2>2
<1>4. ASSUME NEW k \in 1 .. m
      PROVE  /\ Bytes[2 * k - 1] = TextWordOf(zs, m, k) \div TextByteLimit
             /\ Bytes[2 * k] = TextWordOf(zs, m, k) % TextByteLimit
  <2>1. 2 * k - 1 \in 1 .. 2 * m /\ (2 * k - 1) % 2 = 1 /\ ((2 * k - 1) + 1) \div 2 = k
    OBVIOUS
  <2>2. 2 * k \in 1 .. 2 * m /\ (2 * k) % 2 # 1 /\ (2 * k) \div 2 = k
    OBVIOUS
  <2> QED BY <2>1, <2>2
<1>5. 2 * m \in Nat /\ Bytes = [i \in 1 .. 2 * m |-> Bytes[i]]
  OBVIOUS
<1> HIDE DEF Bytes
<1>6. Bytes \in Seq(0 .. TextByteLimit - 1) /\ Len(Bytes) = 2 * m
  <2>1. PICK n \in Nat : n = 2 * m
    BY <1>5
  <2>2. PICK B : B = 0 .. TextByteLimit - 1
    OBVIOUS
  <2>3. Bytes \in [1 .. n -> B]
    BY <1>3, <1>5, <2>1, <2>2
  <2>4. Bytes \in Seq(B) /\ Len(Bytes) = n
    BY <2>3
  <2> QED BY <2>1, <2>2, <2>4
<1> QED BY <1>2, <1>4, <1>6

\* A word of a text that is laid down.
LEMMA WordLaid ==
  ASSUME NEW m \in Nat \ {0}, NEW zs \in Seq(ZChar), Len(zs) = 3 * m,
         NEW view, NEW address \in Nat, LaidAt(view, address, zs, m), NEW q \in 0 .. m - 1
  PROVE  WordHolds(TextWord(view, address + 2 * q), zs, m, q + 1)
<1>1. PICK k \in 1 .. m : k = q + 1
  OBVIOUS
<1>2. PICK w : w = TextWordOf(zs, m, k)
  OBVIOUS
<1>3. WordHolds(w, zs, m, k)
  BY <1>2, WordOfText
<1>4. view[address + 2 * q] = w \div TextByteLimit /\ view[address + 2 * q + 1] = w % TextByteLimit
  <2>1. PICK i \in 1 .. 2 * m : i = 2 * k - 1
    OBVIOUS
  <2>2. PICK j \in 1 .. 2 * m : j = 2 * k
    OBVIOUS
  <2>3. view[address + i - 1] = Packed(zs)[i] /\ view[address + j - 1] = Packed(zs)[j]
    BY DEF LaidAt
  <2>4. Packed(zs)[i] = w \div TextByteLimit /\ Packed(zs)[j] = w % TextByteLimit
    BY <1>2, <2>1, <2>2, PackedIs
  <2>5. address + i - 1 = address + 2 * q /\ address + j - 1 = address + 2 * q + 1
    BY <1>1, <2>1, <2>2
  <2> QED BY <2>3, <2>4, <2>5
<1>5. TextWord(view, address + 2 * q) = w
  <2>1. w \in 0 .. TextByteLimit * TextByteLimit - 1
    BY <1>3 DEF WordHolds, ThreeIn
  <2>2. (w \div TextByteLimit) * TextByteLimit + (w % TextByteLimit) = w
    BY <2>1, BytesOfWord
  <2>3. TextWord(view, address + 2 * q) = view[address + 2 * q] * TextByteLimit + view[address + 2 * q + 1]
    BY DEF TextWord
  <2> QED BY <1>4, <2>2, <2>3
<1> QED BY <1>1, <1>3, <1>5

\* Of a text that is laid down, what is read where memory goes on long enough,
\* and where it does not.
LEMMA LaidRead ==
  ASSUME NEW m \in Nat \ {0}, NEW zs \in Seq(ZChar), Len(zs) = 3 * m,
         NEW view, NEW address \in Nat, LaidAt(view, address, zs, m), NEW size \in Nat
  PROVE  /\ address + 2 * m <= size =>
               ReadZChars(view, size, address) = [fault |-> FALSE, zchars |-> zs, next |-> address + 2 * m]
         /\ address + 2 * m > size =>
               ReadZChars(view, size, address) = [fault |-> TRUE, zchars |-> <<>>, next |-> address]
<1> DEFINE marked == {k \in ReadableWords(size, address) : TextWord(view, address + 2 * k) >= EndBit}
           Read(x) == [i \in 1 .. 3 * (x + 1) |->
                         ZCharIn(TextWord(view, address + 2 * ((i - 1) \div 3)), ((i - 1) % 3) + 1)]
<1>1. ASSUME NEW k \in marked
      PROVE  k \in Nat /\ k >= m - 1 /\ address + 2 * k + 2 <= size
  <2>1. k \in 0 .. size /\ address + 2 * k + 2 <= size /\ TextWord(view, address + 2 * k) >= EndBit
    BY DEF ReadableWords
  <2>2. ASSUME k < m - 1
        PROVE  FALSE
    <3>1. k \in 0 .. m - 1 /\ k + 1 # m
      BY <2>1, <2>2
    <3>2. PICK w : w = TextWord(view, address + 2 * k)
      OBVIOUS
    <3>3. WordHolds(w, zs, m, k + 1)
      BY <3>1, <3>2, WordLaid
    <3>4. ~(w >= EndBit)
      BY <3>1, <3>3 DEF WordHolds, ThreeIn
    <3> QED BY <2>1, <3>2, <3>4
  <2> QED BY <2>1, <2>2
<1>2. /\ marked = {} =>
           ReadZChars(view, size, address) = [fault |-> TRUE, zchars |-> <<>>, next |-> address]
      /\ marked # {} =>
           ReadZChars(view, size, address) =
             [fault |-> FALSE, zchars |-> Read(Min(marked)), next |-> address + 2 * (Min(marked) + 1)]
  BY DEF ReadZChars
<1>3. CASE address + 2 * m > size
  <2>1. ASSUME NEW k \in marked
        PROVE  FALSE
    <3>1. k \in Nat /\ k >= m - 1 /\ address + 2 * k + 2 <= size
      BY <1>1
    <3> QED BY <1>3, <3>1
  <2>2. marked = {}
    BY <2>1
  <2> HIDE DEF marked
  <2> QED BY <1>2, <1>3, <2>2
<1>4. CASE address + 2 * m <= size
  <2>1. m - 1 \in marked
    <3>1. m - 1 \in 0 .. m - 1 /\ (m - 1) + 1 = m
      OBVIOUS
    <3>2. PICK w : w = TextWord(view, address + 2 * (m - 1))
      OBVIOUS
    <3>3. WordHolds(w, zs, m, m)
      BY <3>1, <3>2, WordLaid
    <3>4. w >= EndBit
      BY <3>3 DEF WordHolds, ThreeIn
    <3>5. m - 1 \in ReadableWords(size, address)
      BY <1>4 DEF ReadableWords
    <3> QED BY <3>2, <3>4, <3>5
  <2>2. Min(marked) = m - 1
    <3> HIDE DEF marked
    <3>1. \A y \in marked : m - 1 <= y
      BY <1>1
    <3>2. Min(marked) \in marked /\ \A y \in marked : Min(marked) <= y
      BY <2>1, <3>1 DEF Min
    <3> QED BY <1>1, <2>1, <3>2
  <2>3. Read(m - 1) = zs
    <3> DEFINE at(i) == ZCharIn(TextWord(view, address + 2 * ((i - 1) \div 3)), ((i - 1) % 3) + 1)
    <3>1. ASSUME NEW i \in 1 .. 3 * m
          PROVE  at(i) = zs[i]
      <4>1. PICK q \in 0 .. m - 1, r \in 0 .. 2 : q = (i - 1) \div 3 /\ r = (i - 1) % 3 /\ i - 1 = 3 * q + r
        OBVIOUS
      <4>2. PICK w : w = TextWord(view, address + 2 * q)
        OBVIOUS
      <4>3. WordHolds(w, zs, m, q + 1)
        BY <4>2, WordLaid
      <4>4. at(i) = ZCharIn(w, r + 1)
        BY <4>1, <4>2
      <4>5. /\ ZCharIn(w, 1) = zs[3 * (q + 1) - 2] /\ ZCharIn(w, 2) = zs[3 * (q + 1) - 1]
            /\ ZCharIn(w, 3) = zs[3 * (q + 1)]
        BY <4>3 DEF WordHolds, ThreeIn
      <4> HIDE DEF at
      <4>6. CASE r = 0
        <5>1. 3 * (q + 1) - 2 = i /\ r + 1 = 1
          BY <4>1, <4>6
        <5> QED BY <4>4, <4>5, <5>1
      <4>7. CASE r = 1
        <5>1. 3 * (q + 1) - 1 = i /\ r + 1 = 2
          BY <4>1, <4>7
        <5> QED BY <4>4, <4>5, <5>1
      <4>8. CASE r = 2
        <5>1. 3 * (q + 1) = i /\ r + 1 = 3
          BY <4>1, <4>8
        <5> QED BY <4>4, <4>5, <5>1
      <4> QED BY <4>6, <4>7, <4>8
    <3>2. Read(m - 1) = [i \in 1 .. 3 * m |-> at(i)]
      <4>1. 3 * ((m - 1) + 1) = 3 * m
        OBVIOUS
      <4> QED BY <4>1
    <3>3. zs = [i \in 1 .. 3 * m |-> zs[i]]
      BY LenProperties
    <3> HIDE DEF Read, at
    <3> QED BY <3>1, <3>2, <3>3
  <2>4. address + 2 * ((m - 1) + 1) = address + 2 * m
    OBVIOUS
  <2>5. marked # {}
    BY <2>1
  <2> HIDE DEF marked, Read
  <2> QED BY <1>2, <1>4, <2>2, <2>3, <2>4, <2>5
<1> QED BY <1>3, <1>4

\* How many words a text takes.
WordsOf(zs) == IF zs = <<>> THEN 1 ELSE (Len(zs) + 2) \div 3

\* A padded text is of whole words.
LEMMA PaddedIs ==
  ASSUME NEW zs \in Seq(ZChar)
  PROVE  /\ WordsOf(zs) \in Nat \ {0}
         /\ Padded(zs) \in Seq(ZChar) /\ Len(Padded(zs)) = 3 * WordsOf(zs)
<1>1. Len(zs) \in Nat /\ (zs # <<>> => Len(zs) # 0) /\ \A i \in 1 .. Len(zs) : zs[i] \in ZChar
  BY LenProperties, ElementOfSeq, EmptySeq
<1>2. WordsOf(zs) \in Nat \ {0}
  BY <1>1 DEF WordsOf
<1>3. PICK n \in Nat : n = 3 * WordsOf(zs)
  BY <1>2
<1>4. n = IF zs = <<>> THEN 3 ELSE 3 * ((Len(zs) + 2) \div 3)
  BY <1>3 DEF WordsOf
<1>5. ShiftA2 \in ZChar
  BY ZCharsWhole DEF ShiftA2, ZChar
<1>6. Padded(zs) = [i \in 1 .. n |-> IF i <= Len(zs) THEN zs[i] ELSE ShiftA2]
  BY <1>4 DEF Padded
<1>7. Padded(zs) \in [1 .. n -> ZChar]
  <2>1. ASSUME NEW i \in 1 .. n
        PROVE  (IF i <= Len(zs) THEN zs[i] ELSE ShiftA2) \in ZChar
    BY <1>1, <1>5
  <2> QED BY <1>6, <2>1
<1>8. Padded(zs) \in Seq(ZChar) /\ Len(Padded(zs)) = n
  BY <1>7
<1> QED BY <1>2, <1>3, <1>8

\* A text is where it has been laid down.
LEMMA LaidOver ==
  ASSUME NEW size \in Nat, NEW view, DOMAIN view = 0 .. size - 1, NEW address \in Nat,
         NEW m \in Nat \ {0}, NEW zs \in Seq(ZChar), Len(zs) = 3 * m, address + 2 * m <= size,
         NEW laid, laid = Overlaid(view, address, Packed(zs))
  PROVE  DOMAIN laid = 0 .. size - 1 /\ LaidAt(laid, address, zs, m)
<1>1. Len(Packed(zs)) = 2 * m
  BY PackedIs
<1>2. laid = [a \in 0 .. size - 1 |->
                IF a \in address .. address + 2 * m - 1 THEN Packed(zs)[a - address + 1] ELSE view[a]]
  BY <1>1 DEF Overlaid
<1>3. ASSUME NEW i \in 1 .. 2 * m
      PROVE  laid[address + i - 1] = Packed(zs)[i]
  <2>1. PICK a : a = address + i - 1
    OBVIOUS
  <2>2. a \in 0 .. size - 1 /\ a \in address .. address + 2 * m - 1 /\ a - address + 1 = i
    BY <2>1
  <2> QED BY <1>2, <2>1, <2>2
<1>4. DOMAIN laid = 0 .. size - 1
  BY <1>2
<1> QED BY <1>3, <1>4 DEF LaidAt

\* The reading of a text, by the end of what may be read.
LEMMA LaidText ==
  ASSUME NEW m \in Nat \ {0}, NEW zs \in Seq(ZChar), Len(zs) = 3 * m,
         NEW view, NEW address \in Nat, LaidAt(view, address, zs, m), NEW size \in Nat
  PROVE  TextRead(ReadZChars(view, size, address)) =
           IF address + 2 * m <= size THEN DecodeZText(zs) ELSE NoText
<1>1. CASE address + 2 * m <= size
  <2>1. PICK r : r = ReadZChars(view, size, address)
    OBVIOUS
  <2>2. r = [fault |-> FALSE, zchars |-> zs, next |-> address + 2 * m]
    BY <1>1, <2>1, LaidRead
  <2>3. r.fault = FALSE /\ r.zchars = zs
    BY <2>2
  <2> QED BY <1>1, <2>1, <2>3 DEF TextRead
<1>2. CASE ~(address + 2 * m <= size)
  <2>1. PICK r : r = ReadZChars(view, size, address)
    OBVIOUS
  <2>2. r = [fault |-> TRUE, zchars |-> <<>>, next |-> address]
    BY <1>2, <2>1, LaidRead
  <2>3. r.fault = TRUE
    BY <2>2
  <2> QED BY <1>2, <2>1, <2>3 DEF TextRead
<1> QED BY <1>1, <1>2

\* The name of an object, whose first byte says how many words it has.
LEMMA LaidName ==
  ASSUME NEW size \in Nat, NEW laid, DOMAIN laid = 0 .. size - 1, NEW address \in Nat \ {0},
         NEW m \in Nat \ {0}, NEW zs \in Seq(ZChar), Len(zs) = 3 * m, address + 2 * m <= size,
         LaidAt(laid, address, zs, m), NEW words \in Nat,
         NEW name, name = ObjectShortName(Overlaid(laid, address - 1, <<words>>), size, address - 1)
  PROVE  /\ words = 0 => name = Of(<<>>)
         /\ words # 0 /\ address + 2 * words > size => name = NoText
         /\ words # 0 /\ words < m => name = NoText
         /\ words >= m /\ address + 2 * words <= size => name = DecodeZText(zs)
<1>1. PICK view : view = Overlaid(laid, address - 1, <<words>>)
  OBVIOUS
<1>2. view = [a \in 0 .. size - 1 |->
                IF a \in address - 1 .. address - 1 THEN <<words>>[a - (address - 1) + 1] ELSE laid[a]]
  <2>1. address - 1 + Len(<<words>>) - 1 = address - 1
    OBVIOUS
  <2> QED BY <1>1, <2>1 DEF Overlaid
<1>3. view[address - 1] = words
  <2>1. address - 1 \in 0 .. size - 1 /\ (address - 1) - (address - 1) + 1 = 1
    OBVIOUS
  <2> QED BY <1>2, <2>1
<1>4. LaidAt(view, address, zs, m)
  <2>1. ASSUME NEW i \in 1 .. 2 * m
        PROVE  view[address + i - 1] = Packed(zs)[i]
    <3>1. PICK a : a = address + i - 1
      OBVIOUS
    <3>2. a \in 0 .. size - 1 /\ a \notin address - 1 .. address - 1
      BY <3>1
    <3>3. view[a] = laid[a]
      BY <1>2, <3>2
    <3> QED BY <3>1, <3>3 DEF LaidAt
  <2> QED BY <2>1 DEF LaidAt
<1>5. PICK end \in Nat : end = address + 2 * words
  OBVIOUS
<1>6. /\ words = 0 => name = Of(<<>>)
      /\ words # 0 /\ end > size => name = NoText
      /\ words # 0 /\ ~(end > size) => name = TextRead(ReadZChars(view, end, address))
  <2>1. (address - 1) + 1 = address
    OBVIOUS
  <2> QED BY <1>1, <1>3, <1>5, <2>1 DEF ObjectShortName
<1>7. TextRead(ReadZChars(view, end, address)) = IF address + 2 * m <= end THEN DecodeZText(zs) ELSE NoText
  BY <1>4, <1>5, LaidText
<1>8. CASE words # 0 /\ words < m
  <2>1. ~(address + 2 * m <= end)
    BY <1>5, <1>8
  <2> QED BY <1>5, <1>6, <1>7, <1>8, <2>1
<1>9. CASE words >= m /\ address + 2 * words <= size
  <2>1. address + 2 * m <= end /\ ~(end > size) /\ words # 0
    BY <1>5, <1>9
  <2> QED BY <1>5, <1>6, <1>7, <1>9, <2>1
<1> QED BY <1>5, <1>6, <1>8, <1>9

\* A text that has been laid down is read as it was.
LEMMA AlwaysReadAsLaid ==
  ASSUME NEW size \in Nat, NEW view, DOMAIN view = 0 .. size - 1, NEW address \in Nat \ {0},
         NEW zs \in Seq(ZChar), address + 2 * WordsOf(zs) <= size
  PROVE  ReadAsLaid(view, zs, address)
<1>1. PICK m \in Nat \ {0} : m = WordsOf(zs)
  BY PaddedIs
<1>2. PICK padded \in Seq(ZChar) : padded = Padded(zs) /\ Len(padded) = 3 * m
  BY <1>1, PaddedIs
<1>3. PICK laid : laid = Overlaid(view, address, Packed(padded))
  OBVIOUS
<1>4. DOMAIN laid = 0 .. size - 1 /\ LaidAt(laid, address, padded, m)
  <2>1. address \in Nat /\ address + 2 * m <= size
    BY <1>1
  <2> QED BY <1>2, <1>3, <2>1, LaidOver
<1>5. PICK end \in Nat : end = address + 2 * m
  OBVIOUS
<1>6. end = address + Len(Packed(padded)) /\ end <= size /\ end - 1 \in Nat /\ Len(padded) \div 3 = m
  <2>1. Len(Packed(padded)) = 2 * m
    BY <1>2, PackedIs
  <2>2. Len(padded) \div 3 = m
    BY <1>2
  <2>3. end = address + Len(Packed(padded)) /\ end <= size /\ end - 1 \in Nat
    BY <1>1, <1>5, <2>1
  <2> QED BY <2>2, <2>3
<1>7. Cardinality(DOMAIN view) = size
  <2>1. 0 \in Int /\ size - 1 \in Int /\ (0 > size - 1 => size = 0) /\ size - 1 - 0 + 1 = size
    OBVIOUS
  <2> QED BY <2>1, FS_Interval
<1>8. ReadZChars(laid, size, address) = [fault |-> FALSE, zchars |-> padded, next |-> end]
  BY <1>2, <1>4, <1>5, <1>6, LaidRead
<1>9. /\ DecodeStringAt(laid, size, address) = DecodeZText(padded)
      /\ DecodeStringAt(laid, end, address) = DecodeZText(padded)
      /\ DecodeStringAt(laid, end - 1, address) = NoText
  <2>1. \A n \in Nat : TextRead(ReadZChars(laid, n, address)) = IF end <= n THEN DecodeZText(padded) ELSE NoText
    BY <1>2, <1>4, <1>5, LaidText
  <2>2. end <= end /\ ~(end <= end - 1)
    OBVIOUS
  <2>3. \A n \in Nat : DecodeStringAt(laid, n, address) = IF end <= n THEN DecodeZText(padded) ELSE NoText
    BY <2>1 DEF DecodeStringAt
  <2> QED BY <1>6, <2>2, <2>3
<1>10. ASSUME NEW words \in 0 .. (size - address) \div 2 + 1
       PROVE  LET name == ObjectShortName(Overlaid(laid, address - 1, <<words>>), size, address - 1)
              IN  CASE words = 0 -> name = Of(<<>>)
                    [] words # 0 /\ words < Len(padded) \div 3 -> name = NoText
                    [] words >= Len(padded) \div 3 /\ address + 2 * words <= size -> name = DecodeZText(padded)
                    [] OTHER -> name = NoText
  <2>1. PICK name : name = ObjectShortName(Overlaid(laid, address - 1, <<words>>), size, address - 1)
    OBVIOUS
  <2>2. words \in Nat
    OBVIOUS
  <2>3. /\ words = 0 => name = Of(<<>>)
        /\ words # 0 /\ address + 2 * words > size => name = NoText
        /\ words # 0 /\ words < m => name = NoText
        /\ words >= m /\ address + 2 * words <= size => name = DecodeZText(padded)
    BY <1>2, <1>4, <1>5, <1>6, <2>1, <2>2, LaidName
  <2>4. CASE words = 0
    <3>1. name = Of(<<>>) /\ ~(words >= m)
      BY <2>3, <2>4
    <3> QED BY <1>6, <2>1, <2>4, <3>1
  <2>5. CASE words # 0 /\ words < m
    <3>1. name = NoText /\ ~(words >= m)
      BY <2>2, <2>3, <2>5
    <3> QED BY <1>6, <2>1, <2>5, <3>1
  <2>6. CASE words >= m /\ address + 2 * words <= size
    <3>1. name = DecodeZText(padded) /\ ~(words < m) /\ words # 0
      BY <2>2, <2>3, <2>6
    <3> QED BY <1>6, <2>1, <2>6, <3>1
  <2>7. CASE words >= m /\ ~(address + 2 * words <= size)
    <3>1. name = NoText /\ ~(words < m) /\ words # 0
      BY <2>2, <2>3, <2>7
    <3> QED BY <1>6, <2>1, <2>7, <3>1
  <2> QED BY <2>2, <2>4, <2>5, <2>6, <2>7
<1>11. \A words \in 0 .. (size - address) \div 2 + 1 :
              LET name == ObjectShortName(Overlaid(laid, address - 1, <<words>>), size, address - 1)
              IN  CASE words = 0 -> name = Of(<<>>)
                    [] words # 0 /\ words < Len(padded) \div 3 -> name = NoText
                    [] words >= Len(padded) \div 3 /\ address + 2 * words <= size -> name = DecodeZText(padded)
                    [] OTHER -> name = NoText
  BY <1>10
<1> QED BY <1>2, <1>3, <1>6, <1>7, <1>8, <1>9, <1>11, Zenon DEF ReadAsLaid

\* The two bytes of a number, laid over an entry of the table.
LEMMA EntryLaid ==
  ASSUME NEW size \in Nat, NEW view, DOMAIN view = 0 .. size - 1, NEW entry \in Nat, entry + 2 <= size,
         NEW packed \in 0 .. TextByteLimit * TextByteLimit - 1,
         NEW laid, laid = Overlaid(view, entry, <<packed \div TextByteLimit, packed % TextByteLimit>>)
  PROVE  /\ DOMAIN laid = 0 .. size - 1 /\ TextWord(laid, entry) = packed
         /\ \A a \in 0 .. size - 1 : a > entry + 1 => laid[a] = view[a]
<1>1. PICK hi, lo : hi = packed \div TextByteLimit /\ lo = packed % TextByteLimit
  OBVIOUS
<1>2. hi * TextByteLimit + lo = packed
  BY <1>1, BytesOfWord
<1>3. laid = [a \in 0 .. size - 1 |->
                IF a \in entry .. entry + 1 THEN <<hi, lo>>[a - entry + 1] ELSE view[a]]
  <2>1. Len(<<hi, lo>>) = 2 /\ entry + 2 - 1 = entry + 1
    OBVIOUS
  <2> QED BY <1>1, <2>1 DEF Overlaid
<1>4. laid[entry] = hi /\ laid[entry + 1] = lo
  <2>1. entry \in 0 .. size - 1 /\ entry \in entry .. entry + 1 /\ entry - entry + 1 = 1
    OBVIOUS
  <2>2. PICK next \in 0 .. size - 1 : next = entry + 1 /\ next \in entry .. entry + 1 /\ next - entry + 1 = 2
    OBVIOUS
  <2>3. laid[entry] = <<hi, lo>>[1]
    BY <1>3, <2>1
  <2>4. laid[next] = <<hi, lo>>[2]
    BY <1>3, <2>2
  <2> QED BY <2>2, <2>3, <2>4
<1>5. TextWord(laid, entry) = packed
  BY <1>2, <1>4 DEF TextWord
<1>6. ASSUME NEW a \in 0 .. size - 1, a > entry + 1
      PROVE  laid[a] = view[a]
  <2>1. a \notin entry .. entry + 1
    BY <1>6
  <2> QED BY <1>3, <2>1
<1>7. DOMAIN laid = 0 .. size - 1
  BY <1>3
<1> QED BY <1>5, <1>6, <1>7

\* An entry of the table names a text by its address, scaled.
LEMMA ScaledAddress ==
  ASSUME NEW address \in Nat, address % AddressScale = 0
  PROVE  address \div AddressScale \in Nat /\ UnpackAddress(address \div AddressScale) = address
<1>1. PICK k \in Nat \ {0} : k = AddressScale
  BY StoryTextAssumption
<1>2. PICK q : q = address \div k
  OBVIOUS
<1>3. q \in Nat /\ address = k * q + (address % k)
  <2>1. address \in Int /\ address >= 0
    OBVIOUS
  <2> QED BY <1>2, <2>1, DivisionParts
<1>4. q * k = k * q /\ k * q \in Nat
  BY <1>3
<1>5. q * k = address
  BY <1>1, <1>3, <1>4
<1> QED BY <1>1, <1>2, <1>3, <1>5 DEF UnpackAddress

\* Where there is no memory, no text is read.
LEMMA NoTextRead ==
  ASSUME NEW view
  PROVE  ReadZChars(view, 0, 0).fault
<1>1. {k \in ReadableWords(0, 0) : TextWord(view, 0 + 2 * k) >= EndBit} = {}
  BY DEF ReadableWords
<1>2. ReadZChars(view, 0, 0) = [fault |-> TRUE, zchars |-> <<>>, next |-> 0]
  BY <1>1 DEF ReadZChars
<1> QED BY <1>2

\* A text that has been laid down is read as it was through the table.
LEMMA AlwaysReadAsAbbreviation ==
  ASSUME NEW size \in Nat, NEW view, DOMAIN view = 0 .. size - 1, NEW address \in Nat \ {0},
         NEW zs \in Seq(ZChar), address + 2 * WordsOf(zs) <= size,
         address % AddressScale = 0, address \div AddressScale < TextByteLimit * TextByteLimit,
         NEW table \in Nat \ {0}, NEW index \in Nat, table + 2 * index + 2 <= address
  PROVE  ReadAsAbbreviation(view, zs, address, table, index)
<1>1. PICK m \in Nat \ {0} : m = WordsOf(zs)
  BY PaddedIs
<1>2. PICK padded \in Seq(ZChar) : padded = Padded(zs) /\ Len(padded) = 3 * m
  BY <1>1, PaddedIs
<1>3. PICK text : text = Overlaid(view, address, Packed(padded))
  OBVIOUS
<1>4. DOMAIN text = 0 .. size - 1 /\ LaidAt(text, address, padded, m)
  <2>1. address \in Nat /\ address + 2 * m <= size
    BY <1>1
  <2> QED BY <1>2, <1>3, <2>1, LaidOver
<1>5. PICK end \in Nat : end = address + 2 * m
  OBVIOUS
<1>6. end = address + Len(Packed(padded)) /\ end <= size /\ end - 1 \in Nat
  <2>1. Len(Packed(padded)) = 2 * m
    BY <1>2, PackedIs
  <2> QED BY <1>1, <1>5, <2>1
<1>7. Cardinality(DOMAIN view) = size
  <2>1. 0 \in Int /\ size - 1 \in Int /\ (0 > size - 1 => size = 0) /\ size - 1 - 0 + 1 = size
    OBVIOUS
  <2> QED BY <2>1, FS_Interval
<1>8. PICK packed \in 0 .. TextByteLimit * TextByteLimit - 1 :
        packed = address \div AddressScale /\ UnpackAddress(packed) = address
  <2>1. address \div AddressScale \in Nat /\ UnpackAddress(address \div AddressScale) = address
    BY ScaledAddress
  <2>2. PICK q, w : q = address \div AddressScale /\ w = TextByteLimit * TextByteLimit
    OBVIOUS
  <2>3. w \in Int
    BY <2>2, WordLimits
  <2>4. q \in 0 .. w - 1
    BY <2>1, <2>2, <2>3
  <2> QED BY <2>1, <2>2, <2>4
<1>9. PICK entry \in Nat : entry = table + 2 * index
  OBVIOUS
<1>10. PICK laid : laid = Overlaid(text, entry, <<packed \div TextByteLimit, packed % TextByteLimit>>)
  OBVIOUS
<1>11. entry + 2 <= address /\ entry + 2 <= end - 1 /\ entry + 2 <= size
  BY <1>5, <1>6, <1>9
<1>12. /\ DOMAIN laid = 0 .. size - 1 /\ TextWord(laid, entry) = packed
       /\ \A a \in 0 .. size - 1 : a > entry + 1 => laid[a] = text[a]
  BY <1>4, <1>10, <1>11, EntryLaid
<1>13. LaidAt(laid, address, padded, m)
  <2>1. ASSUME NEW i \in 1 .. 2 * m
        PROVE  laid[address + i - 1] = Packed(padded)[i]
    <3>1. PICK a : a = address + i - 1
      OBVIOUS
    <3>2. a \in 0 .. size - 1 /\ a > entry + 1
      BY <1>5, <1>6, <1>11, <3>1
    <3> QED BY <1>4, <1>12, <3>1, <3>2 DEF LaidAt
  <2> QED BY <2>1 DEF LaidAt
<1>14. ASSUME NEW n \in Nat, entry + 2 <= n
       PROVE  AbbreviationEntry(laid, n, table, index) = ReadZChars(laid, n, address)
  <2>1. ~(table = 0 \/ table + 2 * index + 2 > n)
    BY <1>9, <1>14
  <2>2. AbbreviationEntry(laid, n, table, index)
        = ReadZChars(laid, n, UnpackAddress(TextWord(laid, table + 2 * index)))
    BY <2>1 DEF AbbreviationEntry
  <2> QED BY <1>8, <1>9, <1>12, <2>2
<1>15. AbbreviationEntry(laid, size, table, index) = [fault |-> FALSE, zchars |-> padded, next |-> end]
  <2>1. ReadZChars(laid, size, address) = [fault |-> FALSE, zchars |-> padded, next |-> end]
    BY <1>2, <1>5, <1>6, <1>13, LaidRead
  <2> QED BY <1>11, <1>14, <2>1
<1>16. AbbreviationEntry(laid, end - 1, table, index).fault
  <2>1. PICK n \in Nat : n = end - 1
    BY <1>6
  <2>2. address + 2 * m > n /\ entry + 2 <= n
    BY <1>5, <1>11, <2>1
  <2>3. ReadZChars(laid, n, address) = [fault |-> TRUE, zchars |-> <<>>, next |-> address]
    BY <1>2, <1>13, <2>2, LaidRead
  <2>4. ReadZChars(laid, n, address).fault
    BY <2>3
  <2> QED BY <1>14, <2>1, <2>2, <2>4
<1>17. AbbreviationEntry(laid, entry + 1, table, index).fault
  <2>1. table + 2 * index + 2 > entry + 1
    BY <1>9
  <2>2. AbbreviationEntry(laid, entry + 1, table, index) = ReadZChars(laid, 0, 0)
    BY <2>1 DEF AbbreviationEntry
  <2> QED BY <2>2, NoTextRead
<1>18. AbbreviationEntry(laid, size, 0, index).fault
  <2>1. AbbreviationEntry(laid, size, 0, index) = ReadZChars(laid, 0, 0)
    BY DEF AbbreviationEntry
  <2> QED BY <2>1, NoTextRead
<1> QED BY <1>2, <1>3, <1>6, <1>7, <1>8, <1>9, <1>10, <1>15, <1>16, <1>17, <1>18, Zenon DEF ReadAsAbbreviation

-----------------------------------------------------------------------------
(* Words of the dictionary.                                                *)

\* The first place of a code in an alphabet, if it has one.
LEMMA PlaceFound ==
  ASSUME NEW alphabet \in {AlphabetA0, AlphabetA1, AlphabetA2}, NEW first \in {6, 7}, NEW c,
         NEW z, z = PlaceIn(alphabet, first, c)
  PROVE  /\ z # 0 => z \in first .. ZLimit - 1 /\ alphabet[z] = c
         /\ \A y \in first .. ZLimit - 1 : alphabet[y] = c => z # 0
<1>1. PICK places : places = {y \in first .. ZLimit - 1 : alphabet[y] = c}
  OBVIOUS
<1>2. places \subseteq Nat /\ 0 \notin places
  BY <1>1, ZCharsWhole
<1>3. z = IF places = {} THEN 0 ELSE CHOOSE x \in places : \A y \in places : x <= y
  BY <1>1 DEF PlaceIn
<1>4. CASE places = {}
  BY <1>1, <1>3, <1>4
<1>5. CASE places # {}
  <2>1. \E x \in places : \A y \in places : x <= y
    BY <1>2, <1>5, LeastNumber
  <2>2. z \in places
    BY <1>3, <1>5, <2>1
  <2> QED BY <1>1, <1>2, <2>2
<1> QED BY <1>4, <1>5

\* A letter in lower case is a code.
LEMMA LowerTyped ==
  ASSUME NEW c \in Code
  PROVE  LowerCase(c) \in Code
<1>1. PICK z : z = PlaceIn(AlphabetA1, 6, c)
  OBVIOUS
<1>2. LowerCase(c) = IF z = 0 THEN c ELSE AlphabetA0[z]
  BY <1>1 DEF LowerCase, AlphabetLow
<1>3. z # 0 => z \in 6 .. ZLimit - 1
  BY <1>1, PlaceFound
<1>4. AlphabetA0 \in [6 .. ZLimit - 1 -> Code]
  BY TextAssumption
<1> QED BY <1>2, <1>3, <1>4

\* The Z-characters of a letter of a word, and what they are read as.
Spells(p, letter) ==
    \/ letter = Space /\ p = <<0>>
    \/ \E z \in 6 .. ZLimit - 1 : p = <<z>> /\ AlphabetA0[z] = letter
    \/ \E z \in 7 .. ZLimit - 1 : p = <<5, z>> /\ AlphabetA2[z] = letter
    \/ \E h \in ZChar, z \in ZChar : p = <<5, 6, h, z>> /\ h * ZLimit + z = letter

\* The Z-characters of a letter: of three kinds (appendWordZChars, dictionary.go).
LEMMA LetterPiece ==
  ASSUME NEW c \in Code, LowerCase(Space) = Space
  PROVE  Spells(WordZChars(c), LowerCase(c))
<1>1. PICK letter : letter = LowerCase(c)
  OBVIOUS
<1>2. PICK lower : lower = PlaceIn(AlphabetA0, 6, letter)
  OBVIOUS
<1>3. PICK other : other = PlaceIn(AlphabetA2, 7, letter)
  OBVIOUS
<1>4. PICK p : p = WordZChars(c)
  OBVIOUS
<1>5. /\ c = Space => p = <<0>>
      /\ c # Space /\ lower # 0 => p = <<lower>>
      /\ c # Space /\ lower = 0 /\ other # 0 => p = <<5, other>>
      /\ c # Space /\ lower = 0 /\ other = 0 => p = <<5, 6, c \div ZLimit, c % ZLimit>>
  BY <1>1, <1>2, <1>3, <1>4 DEF WordZChars, ZCharSpace, ShiftA2, Escape, AlphabetLow
<1>6. lower # 0 => lower \in 6 .. ZLimit - 1 /\ AlphabetA0[lower] = letter
  BY <1>2, PlaceFound
<1>7. other # 0 => other \in 7 .. ZLimit - 1 /\ AlphabetA2[other] = letter
  BY <1>3, PlaceFound
<1>8. CASE c = Space
  BY <1>1, <1>4, <1>5, <1>8 DEF Spells
<1>9. CASE c # Space /\ lower # 0
  BY <1>1, <1>4, <1>5, <1>6, <1>9 DEF Spells
<1>10. CASE c # Space /\ lower = 0 /\ other # 0
  BY <1>1, <1>4, <1>5, <1>7, <1>10 DEF Spells
<1>11. CASE c # Space /\ lower = 0 /\ other = 0
  <2>1. letter = c
    <3>1. PICK upper : upper = PlaceIn(AlphabetA1, 6, c)
      OBVIOUS
    <3>2. letter = IF upper = 0 THEN c ELSE AlphabetA0[upper]
      BY <1>1, <3>1 DEF LowerCase, AlphabetLow
    <3>3. upper # 0 => upper \in 6 .. ZLimit - 1
      BY <3>1, PlaceFound
    <3>4. \A y \in 6 .. ZLimit - 1 : AlphabetA0[y] # letter
      BY <1>2, <1>11, PlaceFound
    <3> QED BY <3>2, <3>3, <3>4
  <2>2. PICK n \in Nat \ {0} : n = ZLimit
    BY ZCharsWhole
  <2>3. PICK h, z : h = c \div n /\ z = c % n
    OBVIOUS
  <2>4. c \in Nat /\ c \in Int /\ c >= 0
    BY ZCharsWhole
  <2>5. h \in Nat /\ z \in 0 .. n - 1 /\ c = n * h + z
    BY <2>3, <2>4, DivisionParts
  <2>6. h * n = n * h
    BY <2>5
  <2>7. h < n
    <3> SUFFICES ASSUME h >= n PROVE FALSE
      BY <2>5
    <3>1. PICK x, y : x = n * h /\ y = n * n /\ x \in Nat /\ y \in Nat
      BY <2>5
    <3>2. x >= y
      BY <2>5, <3>1
    <3>3. c < y
      BY <2>2, <3>1, ZCharsWhole DEF Code
    <3> QED BY <2>5, <3>1, <3>2, <3>3
  <2>8. h \in ZChar /\ z \in ZChar
    BY <2>2, <2>5, <2>7 DEF ZChar
  <2>9. h * ZLimit + z = letter
    BY <2>1, <2>2, <2>5, <2>6
  <2>10. p = <<5, 6, h, z>>
    BY <1>5, <1>11, <2>2, <2>3
  <2> QED BY <1>1, <1>4, <2>8, <2>9, <2>10 DEF Spells
<1> QED BY <1>8, <1>9, <1>10, <1>11

\* No letter takes more than four.
LEMMA PieceTyped ==
  ASSUME NEW p, NEW letter, Spells(p, letter)
  PROVE  p \in Seq(ZChar) /\ Len(p) \in 1 .. 4
<1>1. ZChar = 0 .. ZLimit - 1 /\ 0 \in ZChar /\ 5 \in ZChar /\ 6 \in ZChar
  BY ZCharsWhole DEF ZChar
<1>2. \A z \in 6 .. ZLimit - 1 : z \in ZChar
  BY <1>1, ZCharsWhole
<1>3. \A z \in 7 .. ZLimit - 1 : z \in ZChar
  BY <1>1, ZCharsWhole
<1>4. CASE p = <<0>>
  BY <1>1, <1>4
<1>5. ASSUME NEW z \in 6 .. ZLimit - 1, p = <<z>>
      PROVE  p \in Seq(ZChar) /\ Len(p) \in 1 .. 4
  BY <1>2, <1>5
<1>6. ASSUME NEW z \in 7 .. ZLimit - 1, p = <<5, z>>
      PROVE  p \in Seq(ZChar) /\ Len(p) \in 1 .. 4
  BY <1>1, <1>3, <1>6
<1>7. ASSUME NEW h \in ZChar, NEW z \in ZChar, p = <<5, 6, h, z>>
      PROVE  p \in Seq(ZChar) /\ Len(p) \in 1 .. 4
  BY <1>1, <1>7
<1> QED BY <1>4, <1>5, <1>6, <1>7 DEF Spells

\* A reading that has printed a text t: between two constructions, in one that
\* has printed nothing, after a shift, and in an escape.
Rests(s, t) == s.expect = "nothing" /\ s.shift = 0 /\ s.text = t
Quiet(s, t) == s.expect # "fault" /\ s.text = t
Shifted(s, t) == s.expect = "nothing" /\ s.shift = 2 /\ s.text = t
Escaped(s, t) == s.expect = "escape" /\ s.text = t
Half(s, t, h) == s.expect = "escapeBottom" /\ s.held = h /\ s.text = t

\* In none of the states within a letter has more been printed.
LEMMA QuietStates ==
  ASSUME NEW s, NEW t, NEW h, Rests(s, t) \/ Shifted(s, t) \/ Escaped(s, t) \/ Half(s, t, h)
  PROVE  Quiet(s, t)
BY DEF Rests, Shifted, Escaped, Half, Quiet

\* What a Z-character does to them.
LEMMA StepOfWord ==
  ASSUME NEW zs \in Seq(ZChar), NEW entries \in Expansions, NEW f, Deciphers(f, zs, FALSE, entries),
         NEW i \in 1 .. Len(zs), NEW t
  PROVE  /\ zs[i] = 0 /\ Rests(f[i - 1], t) => Rests(f[i], t \o Printed(Space))
         /\ zs[i] > 5 /\ Rests(f[i - 1], t) => Rests(f[i], t \o Printed(AlphabetA0[zs[i]]))
         /\ zs[i] = 5 /\ (Rests(f[i - 1], t) \/ Shifted(f[i - 1], t)) => Shifted(f[i], t)
         /\ zs[i] = 6 /\ Shifted(f[i - 1], t) => Escaped(f[i], t)
         /\ zs[i] > 6 /\ Shifted(f[i - 1], t) => Rests(f[i], t \o Printed(AlphabetA2[zs[i]]))
         /\ Escaped(f[i - 1], t) => Half(f[i], t, zs[i])
         /\ \A h : Half(f[i - 1], t, h) => Rests(f[i], t \o Printed(h * ZLimit + zs[i]))
<1>1. Len(zs) \in Nat
  BY LenProperties
<1>2. PICK z \in ZChar : z = zs[i]
  BY ElementOfSeq
<1>3. PICK s, e : s = f[i - 1] /\ e = f[i]
  OBVIOUS
<1>4. s \in ReadingState /\ Legal(s, FALSE) /\ e = ReadZChar(s, z, FALSE, entries)
  <2>1. i - 1 \in 0 .. Len(zs)
    BY <1>1
  <2> QED BY <1>2, <1>3, <2>1 DEF Deciphers
<1>5. ReadsOn(e, s, z, FALSE, entries)
  <2>1. FALSE \in BOOLEAN
    OBVIOUS
  <2> QED BY <1>4, <2>1, ZCharRead
<1>6. z \in Nat
  BY ZCharsWhole
<1>7. Alphabet(0) = AlphabetA0 /\ Alphabet(2) = AlphabetA2
  BY DEF Alphabet
<1>8. /\ s.expect = "escape" => e.expect = "escapeBottom" /\ e.held = z /\ e.text = s.text
      /\ s.expect = "escapeBottom" =>
            e.expect = "nothing" /\ e.shift = 0 /\ e.text = s.text \o Printed(s.held * ZLimit + z)
      /\ s.expect = "nothing" =>
            /\ z \in {4, 5} => e.expect = "nothing" /\ e.shift = z - 3 /\ e.text = s.text
            /\ z = 6 /\ s.shift = 2 => e.expect = "escape" /\ e.text = s.text
            /\ z = 0 => e.expect = "nothing" /\ e.shift = 0 /\ e.text = s.text \o Printed(Space)
            /\ z > 5 /\ ~(z = 6 /\ s.shift = 2) =>
                  e.expect = "nothing" /\ e.shift = 0 /\ e.text = s.text \o Printed(Alphabet(s.shift)[z])
  BY <1>5 DEF ReadsOn, ReadsPlain
<1>9. z = 0 /\ Rests(s, t) => Rests(e, t \o Printed(Space))
  BY <1>8 DEF Rests
<1>10. z > 5 /\ Rests(s, t) => Rests(e, t \o Printed(AlphabetA0[z]))
  BY <1>7, <1>8 DEF Rests
<1>11. z = 5 /\ (Rests(s, t) \/ Shifted(s, t)) => Shifted(e, t)
  BY <1>8 DEF Rests, Shifted
<1>12. z = 6 /\ Shifted(s, t) => Escaped(e, t)
  BY <1>8 DEF Shifted, Escaped
<1>13. z > 6 /\ Shifted(s, t) => Rests(e, t \o Printed(AlphabetA2[z]))
  <2>1. z > 6 => z > 5 /\ ~(z = 6)
    BY <1>6
  <2> QED BY <1>7, <1>8, <2>1 DEF Rests, Shifted
<1>14. Escaped(s, t) => Half(e, t, z)
  BY <1>8 DEF Escaped, Half
<1>15. \A h : Half(s, t, h) => Rests(e, t \o Printed(h * ZLimit + z))
  BY <1>8 DEF Half, Rests
<1> QED BY <1>2, <1>3, <1>9, <1>10, <1>11, <1>12, <1>13, <1>14, <1>15

\* The Z-characters of a letter are read as the letter, and what there is of them
\* as nothing.
PieceIsRead(f, zs, k, p, t, letter) ==
    /\ \A i \in 0 .. Len(p) - 1 : k + i <= Len(zs) => Quiet(f[k + i], t)
    /\ k + Len(p) <= Len(zs) => Rests(f[k + Len(p)], t \o <<letter>>)

\* All Z-characters of a letter print it, and a beginning of them nothing.
LEMMA PieceRead ==
  ASSUME NEW zs \in Seq(ZChar), NEW entries \in Expansions, NEW f, Deciphers(f, zs, FALSE, entries),
         NEW k \in 0 .. Len(zs), NEW t, Rests(f[k], t),
         NEW p, NEW letter \in OutputCodes, Spells(p, letter),
         \A i \in 1 .. Len(p) : k + i <= Len(zs) => zs[k + i] = p[i]
  PROVE  PieceIsRead(f, zs, k, p, t, letter)
<1>1. PICK n \in Nat : n = Len(zs)
  BY LenProperties
<1>2. Printed(letter) = <<letter>>
  BY DEF Printed
<1>3. k + 0 = k /\ Quiet(f[k], t)
  BY QuietStates
<1>4. \A i \in 1 .. 4 : k + i <= n => k + i \in 1 .. Len(zs) /\ (k + i) - 1 = k + (i - 1)
  BY <1>1
<1>5. CASE letter = Space /\ p = <<0>>
  <2>1. Len(p) = 1 /\ p[1] = 0
    BY <1>5
  <2>2. ASSUME k + 1 <= n
        PROVE  Rests(f[k + 1], t \o <<letter>>)
    <3>1. k + 1 \in 1 .. Len(zs) /\ (k + 1) - 1 = k
      BY <1>1, <2>2
    <3>2. zs[k + 1] = 0
      BY <1>1, <2>1, <2>2
    <3> QED BY <1>2, <1>5, <3>1, <3>2, StepOfWord
  <2>3. \A i \in 0 .. Len(p) - 1 : i = 0
    BY <2>1
  <2> QED BY <1>1, <1>3, <2>1, <2>2, <2>3 DEF PieceIsRead
<1>6. ASSUME NEW z \in 6 .. ZLimit - 1, p = <<z>>, AlphabetA0[z] = letter
      PROVE  PieceIsRead(f, zs, k, p, t, letter)
  <2>1. Len(p) = 1 /\ p[1] = z
    BY <1>6
  <2>2. ASSUME k + 1 <= n
        PROVE  Rests(f[k + 1], t \o <<letter>>)
    <3>1. k + 1 \in 1 .. Len(zs) /\ (k + 1) - 1 = k
      BY <1>1, <2>2
    <3>2. zs[k + 1] = z /\ z > 5
      BY <1>1, <2>1, <2>2, ZCharsWhole
    <3>3. Rests(f[k + 1], t \o Printed(AlphabetA0[zs[k + 1]]))
      BY <3>1, <3>2, StepOfWord
    <3> QED BY <1>2, <1>6, <3>2, <3>3
  <2>3. \A i \in 0 .. Len(p) - 1 : i = 0
    BY <2>1
  <2> QED BY <1>1, <1>3, <2>1, <2>2, <2>3 DEF PieceIsRead
<1>7. ASSUME NEW z \in 7 .. ZLimit - 1, p = <<5, z>>, AlphabetA2[z] = letter
      PROVE  PieceIsRead(f, zs, k, p, t, letter)
  <2>1. Len(p) = 2 /\ p[1] = 5 /\ p[2] = z /\ z > 6
    BY <1>7, ZCharsWhole
  <2>2. k + 1 <= n => Shifted(f[k + 1], t)
    <3> SUFFICES ASSUME k + 1 <= n PROVE Shifted(f[k + 1], t)
      OBVIOUS
    <3>1. k + 1 \in 1 .. Len(zs) /\ (k + 1) - 1 = k
      BY <1>1
    <3>2. zs[k + 1] = 5
      BY <1>1, <2>1
    <3> QED BY <3>1, <3>2, StepOfWord
  <2>3. k + 2 <= n => Rests(f[k + 2], t \o <<letter>>)
    <3> SUFFICES ASSUME k + 2 <= n PROVE Rests(f[k + 2], t \o <<letter>>)
      OBVIOUS
    <3>1. k + 2 \in 1 .. Len(zs) /\ (k + 2) - 1 = k + 1 /\ k + 1 <= n
      BY <1>1
    <3>2. zs[k + 2] = z
      BY <1>1, <2>1
    <3>3. PICK i \in 1 .. Len(zs) : i = k + 2 /\ i - 1 = k + 1
      BY <3>1
    <3>4. Shifted(f[i - 1], t) /\ zs[i] > 6
      BY <2>1, <2>2, <3>1, <3>2, <3>3
    <3>5. Rests(f[i], t \o Printed(AlphabetA2[zs[i]]))
      BY <3>4, StepOfWord
    <3> QED BY <1>2, <1>7, <3>2, <3>3, <3>5
  <2>4. \A i \in 0 .. Len(p) - 1 : i = 0 \/ i = 1
    BY <2>1
  <2> QED BY <1>1, <1>3, <2>1, <2>2, <2>3, <2>4, QuietStates DEF PieceIsRead
<1>8. ASSUME NEW h \in ZChar, NEW z \in ZChar, p = <<5, 6, h, z>>, h * ZLimit + z = letter
      PROVE  PieceIsRead(f, zs, k, p, t, letter)
  <2>1. Len(p) = 4 /\ p[1] = 5 /\ p[2] = 6 /\ p[3] = h /\ p[4] = z
    BY <1>8
  <2>2. k + 1 <= n => Shifted(f[k + 1], t)
    <3> SUFFICES ASSUME k + 1 <= n PROVE Shifted(f[k + 1], t)
      OBVIOUS
    <3>1. k + 1 \in 1 .. Len(zs) /\ (k + 1) - 1 = k
      BY <1>1
    <3>2. zs[k + 1] = 5
      BY <1>1, <2>1
    <3> QED BY <3>1, <3>2, StepOfWord
  <2>3. k + 2 <= n => Escaped(f[k + 2], t)
    <3> SUFFICES ASSUME k + 2 <= n PROVE Escaped(f[k + 2], t)
      OBVIOUS
    <3>1. k + 2 \in 1 .. Len(zs) /\ (k + 2) - 1 = k + 1 /\ k + 1 <= n
      BY <1>1
    <3>2. zs[k + 2] = 6
      BY <1>1, <2>1
    <3> QED BY <2>2, <3>1, <3>2, StepOfWord
  <2>4. k + 3 <= n => Half(f[k + 3], t, h)
    <3> SUFFICES ASSUME k + 3 <= n PROVE Half(f[k + 3], t, h)
      OBVIOUS
    <3>1. k + 3 \in 1 .. Len(zs) /\ (k + 3) - 1 = k + 2 /\ k + 2 <= n
      BY <1>1
    <3>2. zs[k + 3] = h
      BY <1>1, <2>1
    <3> QED BY <2>3, <3>1, <3>2, StepOfWord
  <2>5. k + 4 <= n => Rests(f[k + 4], t \o <<letter>>)
    <3> SUFFICES ASSUME k + 4 <= n PROVE Rests(f[k + 4], t \o <<letter>>)
      OBVIOUS
    <3>1. k + 4 \in 1 .. Len(zs) /\ (k + 4) - 1 = k + 3 /\ k + 3 <= n
      BY <1>1
    <3>2. zs[k + 4] = z
      BY <1>1, <2>1
    <3>3. Rests(f[k + 4], t \o Printed(h * ZLimit + zs[k + 4]))
      <4>1. PICK i \in 1 .. Len(zs) : i = k + 4 /\ i - 1 = k + 3
        BY <3>1
      <4>2. Half(f[i - 1], t, h)
        BY <2>4, <3>1, <4>1
      <4>3. Rests(f[i], t \o Printed(h * ZLimit + zs[i]))
        BY <4>2, StepOfWord
      <4> QED BY <4>1, <4>3
    <3> QED BY <1>2, <1>8, <3>2, <3>3
  <2>6. \A i \in 0 .. Len(p) - 1 : i = 0 \/ i = 1 \/ i = 2 \/ i = 3
    BY <2>1
  <2> QED BY <1>1, <1>3, <2>1, <2>2, <2>3, <2>4, <2>5, <2>6, QuietStates DEF PieceIsRead
<1> QED BY <1>5, <1>6, <1>7, <1>8 DEF Spells

\* The Z-characters of a word, letter after letter.
Letters(f, word) ==
    /\ f \in [0 .. Len(word) -> Seq(ZChar)] /\ f[0] = <<>>
    /\ \A i \in 1 .. Len(word) : f[i] = f[i - 1] \o WordZChars(word[i])

LettersOf(f, word) == [i \in 0 .. Len(word) |-> IF i = 0 THEN <<>> ELSE f[i - 1] \o WordZChars(word[i])]

\* The function of the fold over the letters has a value at every number of them.
LEMMA LettersExist ==
  ASSUME NEW word \in Seq(Code), LowerCase(Space) = Space
  PROVE  \E f : Letters(f, word)
<1> DEFINE n == Len(word)
           A == Seq(ZChar)
           step == [kx \in Nat \X A |-> IF kx[1] \in 1 .. n THEN kx[2] \o WordZChars(word[kx[1]]) ELSE kx[2]]
<1>1. n \in Nat /\ \A i \in 1 .. n : word[i] \in Code
  BY LenProperties, ElementOfSeq
<1>2. <<>> \in A
  BY EmptySeq
<1>3. \A i \in 1 .. n, s \in A : s \o WordZChars(word[i]) \in A
  <2> SUFFICES ASSUME NEW i \in 1 .. n, NEW s \in A
               PROVE  s \o WordZChars(word[i]) \in A
    OBVIOUS
  <2>1. PICK p : p = WordZChars(word[i])
    OBVIOUS
  <2>2. p \in Seq(ZChar)
    BY <1>1, <2>1, LetterPiece, PieceTyped
  <2>3. s \o p \in Seq(ZChar)
    BY <2>2, ConcatProperties
  <2> QED BY <2>1, <2>3
<1> HIDE DEF A, n
<1>4. step \in [Nat \X A -> A] /\ \A k \in 1 .. n, s \in A : step[<<k, s>>] = s \o WordZChars(word[k])
  <2>1. \A kx \in Nat \X A : kx[2] \in A /\ (kx[1] \in 1 .. n => kx[2] \o WordZChars(word[kx[1]]) \in A)
    BY <1>3
  <2>2. step \in [Nat \X A -> A]
    BY <2>1
  <2>3. \A k \in 1 .. n, s \in A : <<k, s>> \in Nat \X A /\ <<k, s>>[1] = k /\ <<k, s>>[2] = s
    BY <1>1
  <2>4. \A k \in 1 .. n, s \in A : step[<<k, s>>] = s \o WordZChars(word[k])
    BY <2>3
  <2> QED BY <2>2, <2>4
<1> HIDE DEF step
<1>5. PICK f : Unfolds(f, A, n, <<>>, step)
  BY <1>1, <1>2, <1>4, RecursionExists
<1>6. /\ f[0] = <<>> /\ f \in [0 .. n -> A]
      /\ \A k \in 1 .. n : f[k] = step[<<k, f[k - 1]>>]
  BY <1>5 DEF Unfolds
<1>7. \A k \in 1 .. n : f[k] = f[k - 1] \o WordZChars(word[k])
  <2> SUFFICES ASSUME NEW k \in 1 .. n
               PROVE  f[k] = f[k - 1] \o WordZChars(word[k])
    OBVIOUS
  <2>1. k - 1 \in 0 .. n
    BY <1>1
  <2> QED BY <1>4, <1>6, <2>1
<1> QED BY <1>6, <1>7 DEF Letters, A, n

\* The Z-characters of a word are those of all its letters.
LEMMA AllZCharsIs ==
  ASSUME NEW word \in Seq(Code), NEW f, Letters(f, word)
  PROVE  AllZChars(word) = f[Len(word)]
<1>1. Len(word) \in Nat
  BY LenProperties
<1>2. f = LettersOf(f, word)
  <2>1. \A i \in 0 .. Len(word) : LettersOf(f, word)[i] = f[i]
    <3> SUFFICES ASSUME NEW i \in 0 .. Len(word)
                 PROVE  LettersOf(f, word)[i] = f[i]
      OBVIOUS
    <3>1. i # 0 => i \in 1 .. Len(word)
      BY <1>1
    <3> QED BY <3>1 DEF Letters, LettersOf
  <2>2. f = [i \in 0 .. Len(word) |-> f[i]]
    BY DEF Letters
  <2>3. LettersOf(f, word) = [i \in 0 .. Len(word) |-> LettersOf(f, word)[i]]
    BY DEF LettersOf
  <2> QED BY <2>1, <2>2, <2>3
<1>3. PICK g : g = CHOOSE h : h = LettersOf(h, word)
  OBVIOUS
<1>4. g = LettersOf(g, word)
  BY <1>2, <1>3
<1>5. \A i \in 0 .. Len(word) : g[i] = IF i = 0 THEN <<>> ELSE g[i - 1] \o WordZChars(word[i])
  BY <1>4, Zenon DEF LettersOf
<1> DEFINE S == {k \in Nat : k <= Len(word) => g[k] = f[k]}
<1>6. 0 \in S
  BY <1>1, <1>5 DEF Letters
<1>7. ASSUME NEW k \in Nat, k \in S
      PROVE  k + 1 \in S
  <2> SUFFICES ASSUME k + 1 <= Len(word)
               PROVE  g[k + 1] = f[k + 1]
    OBVIOUS
  <2>1. /\ k + 1 \in 1 .. Len(word) /\ k + 1 \in 0 .. Len(word) /\ (k + 1) - 1 = k
        /\ k + 1 # 0 /\ k <= Len(word)
    BY <1>1
  <2>2. g[k] = f[k]
    BY <1>7, <2>1
  <2>3. g[k + 1] = g[k] \o WordZChars(word[k + 1])
    BY <1>5, <2>1
  <2>4. f[k + 1] = f[k] \o WordZChars(word[k + 1])
    BY <2>1 DEF Letters
  <2> QED BY <2>2, <2>3, <2>4
<1> HIDE DEF S
<1>8. Nat \subseteq S
  BY <1>6, <1>7, SetInduction
<1>9. g[Len(word)] = f[Len(word)]
  BY <1>1, <1>8 DEF S
<1>10. AllZChars(word) = g[Len(word)]
  BY <1>3 DEF AllZChars, LettersOf
<1> QED BY <1>9, <1>10

\* The Z-characters of the first letters come first.
LEMMA LettersBegin ==
  ASSUME NEW word \in Seq(Code), NEW f, Letters(f, word), LowerCase(Space) = Space
  PROVE  \A k \in 0 .. Len(word) :
            /\ Len(f[k]) \in Nat /\ Len(f[k]) <= Len(f[Len(word)])
            /\ \A x \in 1 .. Len(f[k]) : f[Len(word)][x] = f[k][x]
<1>1. PICK n \in Nat : n = Len(word)
  BY LenProperties
<1>2. \A k \in 0 .. n : f[k] \in Seq(ZChar) /\ Len(f[k]) \in Nat
  BY <1>1, LenProperties DEF Letters
<1> DEFINE Goes(k, j) == Len(f[k]) <= Len(f[j]) /\ \A x \in 1 .. Len(f[k]) : f[j][x] = f[k][x]
           S == {j \in Nat : j <= n => \A k \in 0 .. n : k <= j => Goes(k, j)}
<1>3. 0 \in S
  <2>1. \A k \in 0 .. n : k <= 0 => k = 0
    BY <1>1
  <2>2. Goes(0, 0)
    BY <1>1, <1>2
  <2> HIDE DEF Goes
  <2> QED BY <2>1, <2>2
<1>4. ASSUME NEW j \in Nat, j \in S
      PROVE  j + 1 \in S
  <2> SUFFICES ASSUME j + 1 <= n, NEW k \in 0 .. n, k <= j + 1
               PROVE  Goes(k, j + 1)
    <3> HIDE DEF Goes
    <3> QED OBVIOUS
  <2>1. j + 1 \in 1 .. n /\ (j + 1) - 1 = j /\ j \in 0 .. n /\ j + 1 \in 0 .. n /\ j <= n
    BY <1>1
  <2>2. CASE k = j + 1
    <3>1. Goes(k, k)
      BY <1>2
    <3> HIDE DEF Goes
    <3> QED BY <2>2, <3>1
  <2>3. CASE k # j + 1
    <3>1. k <= j
      BY <2>3
    <3>2. Goes(k, j)
      <4> HIDE DEF Goes
      <4> QED BY <1>4, <2>1, <3>1
    <3>3. PICK p : p = WordZChars(word[j + 1])
      OBVIOUS
    <3>4. word[j + 1] \in Code
      BY <1>1, <2>1, ElementOfSeq
    <3>5. p \in Seq(ZChar) /\ Len(p) \in Nat
      BY <3>3, <3>4, LetterPiece, PieceTyped
    <3>6. PICK s \in Seq(ZChar), e \in Seq(ZChar) : s = f[j] /\ e = f[j + 1]
      BY <1>2, <2>1
    <3>7. e = s \o p
      BY <1>1, <2>1, <3>3, <3>6 DEF Letters
    <3>8. Len(e) = Len(s) + Len(p) /\ \A x \in 1 .. Len(s) : e[x] = s[x]
      <4>1. \A x \in 1 .. Len(s) + Len(p) : (s \o p)[x] = IF x <= Len(s) THEN s[x] ELSE p[x - Len(s)]
        BY <3>5, ConcatProperties
      <4>2. Len(s \o p) = Len(s) + Len(p) /\ Len(s) \in Nat
        BY <3>5, ConcatProperties, LenProperties
      <4> QED BY <3>5, <3>7, <4>1, <4>2
    <3>9. Len(f[k]) \in Nat /\ Len(f[j]) \in Nat /\ Len(f[k]) <= Len(f[j])
      BY <1>2, <2>1, <3>2
    <3> QED BY <3>2, <3>5, <3>6, <3>8, <3>9
  <2> QED BY <2>2, <2>3
<1> HIDE DEF S
<1>5. Nat \subseteq S
  BY <1>3, <1>4, SetInduction
<1>6. \A k \in 0 .. n : Goes(k, n)
  <2> HIDE DEF Goes
  <2>1. n \in S
    BY <1>5
  <2>2. \A k \in 0 .. n : k <= n
    OBVIOUS
  <2> QED BY <2>1, <2>2 DEF S
<1> QED BY <1>1, <1>2, <1>6

\* Those of the first letters are those of the word that they are.
LEMMA FirstLetters ==
  ASSUME NEW word \in Seq(Code), NEW f, Letters(f, word), NEW k \in 1 .. Len(word)
  PROVE  AllZChars(SubSeq(word, 1, k)) = f[k]
<1>1. PICK n \in Nat : n = Len(word)
  BY LenProperties
<1>2. PICK w : w = SubSeq(word, 1, k)
  OBVIOUS
<1>3. w \in Seq(Code) /\ Len(w) = k /\ \A i \in 1 .. k : w[i] = word[i]
  <2>1. \A i \in 1 .. k : word[i] \in Code
    BY <1>1, ElementOfSeq
  <2>2. w = [i \in 1 .. k |-> word[i]]
    <3>1. w = [i \in 1 .. (1 + k - 1) |-> word[i + 1 - 1]]
      BY <1>2
    <3>2. \A i \in 1 .. k : i + 1 - 1 = i
      OBVIOUS
    <3> QED BY <1>1, <3>1, <3>2
  <2> QED BY <2>1, <2>2
<1> DEFINE g == [i \in 0 .. k |-> f[i]]
<1>4. Letters(g, w)
  <2>1. g \in [0 .. k -> Seq(ZChar)] /\ g[0] = <<>>
    BY <1>1 DEF Letters
  <2>2. ASSUME NEW i \in 1 .. k
        PROVE  g[i] = g[i - 1] \o WordZChars(w[i])
    <3>1. i \in 1 .. n /\ i \in 0 .. k /\ i - 1 \in 0 .. k /\ w[i] = word[i]
      BY <1>1, <1>3
    <3>2. f[i] = f[i - 1] \o WordZChars(word[i])
      BY <1>1, <3>1 DEF Letters
    <3> QED BY <3>1, <3>2
  <2> HIDE DEF g
  <2> QED BY <1>3, <2>1, <2>2 DEF Letters
<1>5. g[k] = f[k]
  BY <1>1
<1> HIDE DEF g
<1>6. AllZChars(w) = g[k]
  BY <1>3, <1>4, AllZCharsIs
<1> QED BY <1>2, <1>5, <1>6

\* What a player may type: a space has no case, and what is printed of a letter
\* is the letter.
TypedWords == {word \in Seq(Code) : \A i \in 1 .. Len(word) : LowerCase(word[i]) \in OutputCodes}

\* As many letters as fit.
LEMMA LettersFit ==
  ASSUME NEW n \in Nat, NEW size \in Nat, NEW length \in [0 .. n -> Nat], length[0] = 0
  PROVE  \E k \in 0 .. n : /\ \A j \in 0 .. k : length[j] <= size
                           /\ k = n \/ length[k + 1] > size
<1> DEFINE T == {j \in 0 .. n : length[j] > size}
<1>1. CASE T = {}
  <2>1. \A j \in 0 .. n : j \notin T /\ length[j] \in Nat
    <3> HIDE DEF T
    <3> QED BY <1>1
  <2>2. \A j \in 0 .. n : length[j] <= size
    BY <2>1
  <2>3. n \in 0 .. n
    OBVIOUS
  <2> QED BY <2>2, <2>3
<1>2. CASE T # {}
  <2>1. T \subseteq Nat
    OBVIOUS
  <2>2. \E x \in T : \A y \in T : x <= y
    <3> HIDE DEF T
    <3> QED BY <1>2, <2>1, LeastNumber
  <2>3. PICK x \in T : \A y \in T : x <= y
    BY <2>2
  <2>4. x # 0 /\ x \in 0 .. n /\ length[x] > size
    BY <2>3
  <2>5. PICK k \in 0 .. n : k + 1 = x
    <3>1. x - 1 \in 0 .. n /\ (x - 1) + 1 = x
      BY <2>4
    <3> QED BY <3>1
  <2>6. ASSUME NEW j \in 0 .. k
        PROVE  length[j] <= size
    <3>1. j \in 0 .. n /\ j < x
      BY <2>4, <2>5
    <3>2. j \notin T
      BY <2>3, <3>1
    <3>3. length[j] \in Nat
      BY <3>1
    <3> QED BY <3>1, <3>2, <3>3
  <2> QED BY <2>4, <2>5, <2>6
<1> QED BY <1>1, <1>2

\* The first letters of a word in lower case.
Lowered(word, k) == [i \in 1 .. k |-> LowerCase(word[i])]

\* One more letter in lower case.
LEMMA LoweredMore ==
  ASSUME NEW word \in Seq(Code), NEW k \in Nat, k + 1 <= Len(word)
  PROVE  Lowered(word, k + 1) = Lowered(word, k) \o <<LowerCase(word[k + 1])>>
<1>1. Len(word) \in Nat /\ \A i \in 1 .. Len(word) : word[i] \in Code
  BY LenProperties, ElementOfSeq
<1>2. \A i \in 1 .. k + 1 : LowerCase(word[i]) \in Code
  BY <1>1, LowerTyped
<1>3. PICK s, c : s = Lowered(word, k) /\ c = LowerCase(word[k + 1])
  OBVIOUS
<1>4. s \in Seq(Code) /\ Len(s) = k /\ \A i \in 1 .. k : s[i] = LowerCase(word[i])
  BY <1>2, <1>3 DEF Lowered
<1>5. c \in Code
  BY <1>2, <1>3
<1>6. s \o <<c>> = [i \in 1 .. k + 1 |-> IF i <= k THEN s[i] ELSE c]
  BY <1>4, <1>5
<1>7. ASSUME NEW i \in 1 .. k + 1
      PROVE  (IF i <= k THEN s[i] ELSE c) = LowerCase(word[i])
  BY <1>3, <1>4
<1>8. Lowered(word, k + 1) = [i \in 1 .. k + 1 |-> LowerCase(word[i])]
  BY DEF Lowered
<1> QED BY <1>3, <1>6, <1>7, <1>8

\* An entry is the Z-characters of the word, cut or padded with shifts.
LEMMA EntryIs ==
  ASSUME NEW word \in Seq(Code), LowerCase(Space) = Space,
         NEW f, Letters(f, word), NEW zs, zs = EncodeDictionaryWord(word)
  PROVE  /\ zs \in Seq(ZChar) /\ Len(zs) = DictionaryZChars
         /\ \A i \in 1 .. Len(zs) : zs[i] = IF i <= Len(f[Len(word)]) THEN f[Len(word)][i] ELSE 5
<1>1. PICK all : all = f[Len(word)]
  OBVIOUS
<1>2. Len(word) \in Nat
  BY LenProperties
<1>3. all \in Seq(ZChar)
  BY <1>1, <1>2 DEF Letters
<1>4. PICK d \in Nat : d = DictionaryZChars
  BY TextAssumption
<1>5. zs = [i \in 1 .. d |-> IF i <= Len(all) THEN all[i] ELSE 5]
  BY <1>1, <1>4, AllZCharsIs DEF EncodeDictionaryWord, ShiftA2
<1>6. Len(all) \in Nat /\ \A i \in 1 .. Len(all) : all[i] \in ZChar
  BY <1>3, LenProperties, ElementOfSeq
<1>7. 5 \in ZChar
  BY ZCharsWhole DEF ZChar
<1>8. zs \in [1 .. d -> ZChar]
  <2>1. ASSUME NEW i \in 1 .. d
        PROVE  (IF i <= Len(all) THEN all[i] ELSE 5) \in ZChar
    BY <1>6, <1>7
  <2> QED BY <1>5, <2>1
<1>9. zs \in Seq(ZChar) /\ Len(zs) = d
  BY <1>8
<1> QED BY <1>1, <1>4, <1>5, <1>9

\* The letter after the first j is read where the Z-characters of those end.
LetterIsRead(f, zs, all, word, j) ==
    /\ PieceIsRead(f, zs, Len(all[j]), WordZChars(word[j + 1]), Lowered(word, j), LowerCase(word[j + 1]))
    /\ Len(all[j + 1]) = Len(all[j]) + Len(WordZChars(word[j + 1]))
    /\ Len(WordZChars(word[j + 1])) \in 1 .. 4

\* The Z-characters of an entry are read as the letters that fit.
LEMMA EncodingAlwaysDecodes ==
  ASSUME NEW word \in TypedWords, LowerCase(Space) = Space
  PROVE  EncodingDecodes(word)
<1>1. word \in Seq(Code) /\ \A i \in 1 .. Len(word) : LowerCase(word[i]) \in OutputCodes
  BY DEF TypedWords
<1>2. PICK n \in Nat : n = Len(word)
  BY <1>1, LenProperties
<1>3. PICK all : Letters(all, word)
  BY <1>1, LettersExist
<1>4. \A k \in 0 .. n : /\ all[k] \in Seq(ZChar) /\ Len(all[k]) \in Nat /\ Len(all[k]) <= Len(all[n])
                        /\ \A x \in 1 .. Len(all[k]) : all[n][x] = all[k][x]
  <2>1. \A k \in 0 .. n : all[k] \in Seq(ZChar)
    BY <1>2, <1>3 DEF Letters
  <2> QED BY <1>1, <1>2, <1>3, <2>1, LettersBegin
<1>5. PICK zs : zs = EncodeDictionaryWord(word)
  OBVIOUS
<1>6. PICK d \in Nat : d = DictionaryZChars
  BY TextAssumption
<1>7. /\ zs \in Seq(ZChar) /\ Len(zs) = d
      /\ \A i \in 1 .. d : zs[i] = IF i <= Len(all[n]) THEN all[n][i] ELSE 5
  BY <1>1, <1>2, <1>3, <1>5, <1>6, EntryIs
<1> DEFINE length == [k \in 0 .. n |-> Len(all[k])]
<1>8. length \in [0 .. n -> Nat] /\ length[0] = 0
  <2>1. all[0] = <<>> /\ Len(<<>>) = 0 /\ 0 \in 0 .. n
    BY <1>2, <1>3 DEF Letters
  <2> QED BY <1>4, <2>1
<1>9. PICK k \in 0 .. n : /\ \A j \in 0 .. k : Len(all[j]) <= d
                          /\ k = n \/ Len(all[k + 1]) > d
  <2>1. PICK k \in 0 .. n : (\A j \in 0 .. k : length[j] <= d) /\ (k = n \/ length[k + 1] > d)
    <3> HIDE DEF length
    <3> QED BY <1>8, LettersFit
  <2>2. \A j \in 0 .. n : length[j] = Len(all[j])
    OBVIOUS
  <2>3. k # n => k + 1 \in 0 .. n
    OBVIOUS
  <2>4. \A j \in 0 .. k : j \in 0 .. n
    OBVIOUS
  <2> HIDE DEF length
  <2> QED BY <2>1, <2>2, <2>3, <2>4
<1>10. AbbreviationTexts \in Expansions
  BY AbbreviationsMean
<1>11. PICK f, text : /\ Deciphers(f, zs, FALSE, AbbreviationTexts) /\ text = DecodeZText(zs)
                      /\ text.text = f[d].text /\ text.fault = (f[d].expect = "fault") /\ text \in Result
  <2>1. FALSE \in BOOLEAN
    OBVIOUS
  <2> QED BY <1>7, <1>10, <2>1, DecodedIs DEF DecodeZText
<1>12. ASSUME NEW j \in 0 .. n - 1, Len(all[j]) <= d, Rests(f[Len(all[j])], Lowered(word, j))
       PROVE  LetterIsRead(f, zs, all, word, j)
  <2>1. j + 1 \in 1 .. Len(word) /\ j \in 0 .. n /\ j + 1 \in 0 .. n /\ (j + 1) - 1 = j
    BY <1>2
  <2>2. PICK c \in Code : c = word[j + 1]
    BY <1>1, <2>1, ElementOfSeq
  <2>3. PICK p, letter : p = WordZChars(c) /\ letter = LowerCase(c)
    OBVIOUS
  <2>4. Spells(p, letter) /\ letter \in OutputCodes
    BY <1>1, <2>1, <2>2, <2>3, LetterPiece
  <2>5. p \in Seq(ZChar) /\ Len(p) \in 1 .. 4
    BY <2>4, PieceTyped
  <2>6. PICK a \in Seq(ZChar), b \in Seq(ZChar) : a = all[j] /\ b = all[j + 1]
    BY <1>4, <2>1
  <2>7. b = a \o p
    BY <1>3, <2>1, <2>2, <2>3, <2>6 DEF Letters
  <2>8. Len(b) = Len(a) + Len(p) /\ Len(a) \in Nat /\ \A i \in 1 .. Len(p) : b[Len(a) + i] = p[i]
    <3>1. Len(a) \in Nat /\ Len(a \o p) = Len(a) + Len(p)
      BY <2>5, LenProperties, ConcatProperties
    <3>2. \A x \in 1 .. Len(a) + Len(p) : (a \o p)[x] = IF x <= Len(a) THEN a[x] ELSE p[x - Len(a)]
      BY <2>5, ConcatProperties
    <3>3. ASSUME NEW i \in 1 .. Len(p)
          PROVE  b[Len(a) + i] = p[i]
      <4>1. PICK x : x = Len(a) + i
        OBVIOUS
      <4>2. x \in 1 .. Len(a) + Len(p) /\ ~(x <= Len(a)) /\ x - Len(a) = i
        BY <2>5, <3>1, <4>1
      <4> QED BY <2>7, <3>2, <4>1, <4>2
    <3> QED BY <2>7, <3>1, <3>3
  <2>9. ASSUME NEW i \in 1 .. Len(p), Len(a) + i <= Len(zs)
        PROVE  zs[Len(a) + i] = p[i]
    <3>1. PICK x : x = Len(a) + i
      OBVIOUS
    <3>2. x \in 1 .. d /\ x \in 1 .. Len(b)
      BY <1>7, <2>5, <2>8, <2>9, <3>1
    <3>3. Len(b) <= Len(all[n]) /\ all[n][x] = b[x] /\ Len(b) \in Nat /\ Len(all[n]) \in Nat
      BY <1>4, <2>1, <2>6, <3>2
    <3>4. zs[x] = b[x]
      BY <1>7, <3>2, <3>3
    <3> QED BY <2>8, <3>1, <3>4
  <2>10. Len(a) \in 0 .. Len(zs) /\ Rests(f[Len(a)], Lowered(word, j))
    BY <1>7, <1>12, <2>6, <2>8
  <2>11. PieceIsRead(f, zs, Len(a), p, Lowered(word, j), letter)
    BY <1>7, <1>10, <1>11, <2>4, <2>9, <2>10, PieceRead
  <2>12. Len(all[j + 1]) = Len(all[j]) + Len(p)
    BY <2>6, <2>8
  <2> QED BY <2>2, <2>3, <2>5, <2>6, <2>11, <2>12 DEF LetterIsRead
<1> DEFINE S == {j \in Nat : j <= k => Rests(f[Len(all[j])], Lowered(word, j))}
<1>13. 0 \in S
  <2>1. all[0] = <<>> /\ Len(<<>>) = 0
    BY <1>3 DEF Letters
  <2>2. f[0] = Untouched
    BY <1>11 DEF Deciphers
  <2>3. Lowered(word, 0) = <<>>
    BY DEF Lowered
  <2> QED BY <2>1, <2>2, <2>3, UntouchedTyped DEF Rests
<1>14. ASSUME NEW j \in Nat, j \in S
       PROVE  j + 1 \in S
  <2> SUFFICES ASSUME j + 1 <= k
               PROVE  Rests(f[Len(all[j + 1])], Lowered(word, j + 1))
    OBVIOUS
  <2>1. j \in 0 .. n - 1 /\ j <= k /\ j \in 0 .. k /\ j + 1 \in 0 .. k /\ j + 1 <= Len(word)
    BY <1>2
  <2>2. Len(all[j]) <= d /\ Len(all[j + 1]) <= d /\ Rests(f[Len(all[j])], Lowered(word, j))
    BY <1>9, <1>14, <2>1
  <2>3. PICK p, letter : p = WordZChars(word[j + 1]) /\ letter = LowerCase(word[j + 1])
    OBVIOUS
  <2>4. /\ PieceIsRead(f, zs, Len(all[j]), p, Lowered(word, j), letter)
        /\ Len(all[j + 1]) = Len(all[j]) + Len(p)
    <3>1. LetterIsRead(f, zs, all, word, j)
      BY <1>12, <2>1, <2>2
    <3> QED BY <2>3, <3>1 DEF LetterIsRead
  <2>5. Rests(f[Len(all[j]) + Len(p)], Lowered(word, j) \o <<letter>>)
    BY <1>7, <2>2, <2>4 DEF PieceIsRead
  <2> QED BY <1>1, <2>1, <2>3, <2>4, <2>5, LoweredMore
<1> HIDE DEF S
<1>15. Nat \subseteq S
  BY <1>13, <1>14, SetInduction
<1>16. Rests(f[Len(all[k])], Lowered(word, k)) /\ Len(all[k]) \in 0 .. d
  <2>1. k \in S /\ k <= k /\ k \in 0 .. k
    BY <1>15
  <2>2. Len(all[k]) \in Nat /\ Len(all[k]) <= d
    BY <1>4, <1>9, <2>1
  <2> QED BY <2>1, <2>2 DEF S
<1>17. Quiet(f[d], Lowered(word, k))
  <2>1. CASE k = n
    <3>1. PICK m \in 0 .. d : m = Len(all[n])
      BY <1>16, <2>1
    <3>2. PICK t : t = Lowered(word, n)
      OBVIOUS
    <3>3. Rests(f[m], t)
      BY <1>16, <2>1, <3>1, <3>2
    <3> DEFINE Pads(i) == Rests(f[m + i], t) \/ Shifted(f[m + i], t)
               P == {i \in Nat : m + i <= d => Pads(i)}
    <3>4. 0 \in P
      <4>1. m + 0 = m
        OBVIOUS
      <4> QED BY <3>3, <4>1
    <3>5. ASSUME NEW i \in Nat, i \in P
          PROVE  i + 1 \in P
      <4> SUFFICES ASSUME m + (i + 1) <= d
                   PROVE  Pads(i + 1)
        <5> HIDE DEF Pads
        <5>1. i + 1 \in Nat
          OBVIOUS
        <5> QED BY <5>1
      <4>1. PICK x : x = m + (i + 1)
        OBVIOUS
      <4>2. x \in 1 .. Len(zs) /\ x \in 1 .. d /\ x - 1 = m + i /\ ~(x <= m) /\ m + i <= d
        BY <1>7, <4>1
      <4>3. zs[x] = 5
        BY <1>7, <3>1, <4>2
      <4>4. Pads(i)
        <5> HIDE DEF Pads
        <5> QED BY <3>5, <4>2
      <4>5. Rests(f[x - 1], t) \/ Shifted(f[x - 1], t)
        BY <4>2, <4>4
      <4>6. Shifted(f[x], t)
        BY <1>7, <1>10, <1>11, <4>2, <4>3, <4>5, StepOfWord
      <4> QED BY <4>1, <4>6
    <3> HIDE DEF P, Pads
    <3>6. Nat \subseteq P
      BY <3>4, <3>5, SetInduction
    <3>7. PICK i \in Nat : m + i = d
      <4>1. d - m \in Nat /\ m + (d - m) = d
        OBVIOUS
      <4> QED BY <4>1
    <3>8. Pads(i)
      <4>1. i \in P /\ d <= d
        BY <3>6
      <4> QED BY <3>7, <4>1 DEF P
    <3>9. Rests(f[d], t) \/ Shifted(f[d], t)
      BY <3>7, <3>8 DEF Pads
    <3> QED BY <2>1, <3>2, <3>9, QuietStates
  <2>2. CASE k # n
    <3>1. k \in 0 .. n - 1 /\ Len(all[k + 1]) > d
      BY <1>9, <2>2
    <3>2. PICK p, letter : p = WordZChars(word[k + 1]) /\ letter = LowerCase(word[k + 1])
      OBVIOUS
    <3>3. /\ PieceIsRead(f, zs, Len(all[k]), p, Lowered(word, k), letter)
          /\ Len(all[k + 1]) = Len(all[k]) + Len(p) /\ Len(p) \in 1 .. 4
      <4>1. Len(all[k]) <= d
        BY <1>16
      <4>2. PICK j \in 0 .. n - 1 : j = k
        BY <3>1
      <4>3. Len(all[j]) <= d /\ Rests(f[Len(all[j])], Lowered(word, j))
        BY <1>16, <4>1, <4>2
      <4>4. LetterIsRead(f, zs, all, word, j)
        BY <1>12, <4>3
      <4> QED BY <3>2, <4>2, <4>4 DEF LetterIsRead
    <3>4. PICK i \in 0 .. Len(p) - 1 : Len(all[k]) + i = d
      <4>1. d - Len(all[k]) \in 0 .. Len(p) - 1 /\ Len(all[k]) + (d - Len(all[k])) = d
        BY <1>16, <3>1, <3>3
      <4> QED BY <4>1
    <3>5. Len(all[k]) + i <= Len(zs)
      BY <1>7, <3>4
    <3>6. Quiet(f[Len(all[k]) + i], Lowered(word, k))
      BY <3>3, <3>5 DEF PieceIsRead
    <3> QED BY <3>4, <3>6
  <2> QED BY <2>1, <2>2
<1>18. text = Of(Lowered(word, k))
  <2>1. text.text = Lowered(word, k) /\ text.fault = FALSE
    BY <1>11, <1>17 DEF Quiet
  <2>2. text = [text |-> text.text, fault |-> text.fault]
    BY <1>11 DEF Result
  <2> QED BY <2>1, <2>2 DEF Of
<1>19. k = n \/ Len(AllZChars(SubSeq(word, 1, k + 1))) > DictionaryZChars
  <2>1. k # n => k + 1 \in 1 .. Len(word)
    BY <1>2
  <2>2. k # n => AllZChars(SubSeq(word, 1, k + 1)) = all[k + 1]
    BY <1>1, <1>3, <2>1, FirstLetters
  <2> QED BY <1>6, <1>9, <2>2
<1>20. DecodeZText(EncodeDictionaryWord(word)) = Of([i \in 1 .. k |-> LowerCase(word[i])])
  BY <1>5, <1>11, <1>18 DEF Lowered
<1> QED BY <1>2, <1>19, <1>20 DEF EncodingDecodes

=============================================================================
