----------------------------- MODULE ObjectFlags -----------------------------
(***************************************************************************)
(* The attributes of objects, as bits of the entries of the object table   *)
(* (object.go): every entry begins with its flags, topmost bit first, and  *)
(* the links and the address of the properties, which ObjectTree and       *)
(* PropertyList are about, follow in the same bytes.                       *)
(***************************************************************************)
EXTENDS Integers

CONSTANTS
    MaxObject,      \* 255
    EntrySize,      \* 9
    FlagBytes,      \* 4: how many bytes of an entry are flags
    FlagsPerByte,   \* 8
    TableSize       \* bytes from the first entry to the end of dynamic memory

ASSUME FlagsAssumption ==
    /\ {MaxObject, TableSize} \subseteq Nat
    /\ {EntrySize, FlagBytes, FlagsPerByte} \subseteq Nat \ {0} /\ FlagBytes < EntrySize

VARIABLES
    entries,        \* the bytes of the table
    flagged         \* the last set_attr or clear_attr, and whether it was refused

flagVars == <<entries, flagged>>

FlagCount == FlagBytes * FlagsPerByte

Offset == 0 .. TableSize - 1

EntryBegin(o) == (o - 1) * EntrySize

\* An entry that is not all in dynamic memory is none.
HasEntry(o) == o \in 1 .. MaxObject /\ EntryBegin(o) + EntrySize <= TableSize

FlagByte(o, a) == EntryBegin(o) + a \div FlagsPerByte

\* 1 << k
Bit ==
    LET shifted[k \in 0 .. FlagCount] == IF k = 0 THEN 1 ELSE 2 * shifted[k - 1]
    IN  shifted

Mask(a) == Bit[FlagsPerByte - 1 - (a % FlagsPerByte)]

\* objectAttribute, of bytes b
ObjectAttribute(b, o, a) == (b[FlagByte(o, a)] \div Mask(a)) % 2 = 1

\* A mutant: attribute 32 is let through.
CanFlagBeyond(o, a) == HasEntry(o) /\ a <= FlagCount

CanFlag(o, a) == HasEntry(o) /\ a < FlagCount

\* The byte is read, and written back with the one bit as it shall be.
SetObjectAttribute(o, a, on) ==
    IF ObjectAttribute(entries, o, a) = on
    THEN entries
    ELSE [entries EXCEPT ![FlagByte(o, a)] = IF on THEN @ + Mask(a) ELSE @ - Mask(a)]

-----------------------------------------------------------------------------
\* A story's table may hold any flags.
FlagsInit ==
    /\ entries \in [Offset -> 0 .. Bit[FlagsPerByte] - 1]
    /\ \A p \in Offset : p % EntrySize >= FlagBytes => entries[p] = 0
    /\ flagged = [object |-> 0, flag |-> 0, on |-> FALSE, refused |-> FALSE]

\* set_attr and clear_attr.  On object 0, "nothing", they do nothing.
ChangeAttr(o, a, on) ==
    /\ entries' = IF o # 0 /\ CanFlag(o, a) THEN SetObjectAttribute(o, a, on) ELSE entries
    /\ flagged' = [object |-> o, flag |-> a, on |-> on, refused |-> o # 0 /\ ~CanFlag(o, a)]

FlagsNext ==
    \E o \in 0 .. MaxObject + 1, a \in 0 .. FlagCount, on \in BOOLEAN : ChangeAttr(o, a, on)

FlagsSpec == FlagsInit /\ [][FlagsNext]_flagVars

-----------------------------------------------------------------------------
FlagsTypeOK ==
    /\ entries \in [Offset -> 0 .. Bit[FlagsPerByte] - 1]
    /\ flagged.object \in 0 .. MaxObject + 1 /\ flagged.flag \in 0 .. FlagCount

\* The flags of an entry as one binary number, in which S 12.3.1 numbers the
\* attributes from the topmost bit on.
FlagWord(b, o) ==
    LET from[i \in 0 .. FlagBytes] ==
            IF i = 0 THEN 0 ELSE from[i - 1] * Bit[FlagsPerByte] + b[EntryBegin(o) + i - 1]
    IN  from[FlagBytes]

InFlagWord(word, a) == (word \div Bit[FlagCount - 1 - a]) % 2 = 1

\* Whatever attribute of whatever object is set or cleared, that one is then as
\* it was asked for, to test_attr and in the order in which a compiler lays them
\* down; every other attribute of every object is what it was, and so is every
\* byte that is no flag: a number one too large would put a bit into an object's
\* parent.  "Nothing" has no attributes to change.
OneFlagChanges ==
    [][IF flagged'.object = 0
       THEN entries' = entries
       ELSE /\ \A o \in {p \in 1 .. MaxObject : HasEntry(p)} :
                 LET before == FlagWord(entries, o)
                     after == FlagWord(entries', o)
                 IN  \A a \in 0 .. FlagCount - 1 :
                        LET wanted == IF o = flagged'.object /\ a = flagged'.flag
                                      THEN flagged'.on
                                      ELSE InFlagWord(before, a)
                        IN  InFlagWord(after, a) = wanted /\ ObjectAttribute(entries', o, a) = wanted
            /\ \A p \in Offset :
                 p % EntrySize >= FlagBytes \/ p >= TableSize - (TableSize % EntrySize)
                    => entries'[p] = entries[p]]_flagVars

=============================================================================
