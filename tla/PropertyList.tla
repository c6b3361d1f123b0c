---------------------------- MODULE PropertyList ----------------------------
(***************************************************************************)
(* The list of properties of an object (property.go): entries of a size    *)
(* byte, which packs the number of the property and the length of its      *)
(* data, and the data behind it, one entry after the other until a size    *)
(* byte of zero.  The object's short name comes before the list.  Nothing  *)
(* guarantees that a story's bytes form such a list, so the model starts   *)
(* with any bytes.  get_prop, get_prop_addr, get_prop_len and              *)
(* get_next_prop are operators, put_prop is the action.                    *)
(***************************************************************************)
EXTENDS Integers

CONSTANTS
    MaxProperty,    \* 31: the largest property number
    MaxLength,      \* 8: the longest data a size byte can describe
    NameScale,      \* 2: the bytes to a word of the short name
    NameLengths,    \* the lengths of a short name, in words
    StorySize,      \* bytes from the property table to the end of the story
    NameableSize,   \* those of them with an address that fits in a word
    DynamicSize     \* those of them that can be written

ASSUME PropertyAssumption ==
    /\ MaxProperty \in Nat \ {0}
    /\ MaxLength \in Nat \ {0, 1}
    /\ StorySize \in Nat \ {0} /\ NameableSize \in 1 .. StorySize
    /\ DynamicSize \in 0 .. NameableSize
    /\ NameScale \in Nat /\ NameLengths \subseteq Nat

VARIABLES
    bytes,          \* the bytes of the story from the property table on
    outcome         \* how the last put_prop ended

propertyVars == <<bytes, outcome>>

ByteLimit == (MaxProperty + 1) * MaxLength

Byte == 0 .. ByteLimit - 1

Position == 0 .. StorySize - 1

\* Where the list begins, behind the length of the short name and the name.
First == 1 + bytes[0] * NameScale

Property == 1 .. MaxProperty

NoEntry == [number |-> 0, length |-> 0, data |-> 0]

Fault == [fault |-> TRUE, value |-> 0]

Value(v) == [fault |-> FALSE, value |-> v]

-----------------------------------------------------------------------------
LengthOf(size) == size \div (MaxProperty + 1) + 1

NumberOf(size) == size % (MaxProperty + 1)

\* The entry whose size byte is at p: "end", "bad" or "entry".
IsBad(p) ==
    \/ p >= StorySize
    \/ /\ bytes[p] # 0
       /\ NumberOf(bytes[p]) = 0 \/ p + LengthOf(bytes[p]) >= StorySize

IsEnd(p) == p < StorySize /\ bytes[p] = 0

NextPosition(p) == p + 1 + LengthOf(bytes[p])

\* Where the walk stands after k entries; -1 once it has ended or gone wrong.
Walk ==
    LET at[k \in 0 .. MaxProperty] ==
            IF k = 0
            THEN First
            ELSE LET p == at[k - 1]
                 IN  IF p = -1 \/ IsBad(p) \/ IsEnd(p) THEN -1 ELSE NextPosition(p)
    IN  at

\* A mutant: the walk stops one entry early.
VisitedEarly(k) == k \in 0 .. MaxProperty - 2

\* The entries a walk looks at: MaxProperty of them and no terminator after.
Visited(k) == k \in 0 .. MaxProperty - 1

IsEntryOf(walk, k) ==
    Visited(k) /\ walk[k] # -1 /\ ~IsBad(walk[k]) /\ ~IsEnd(walk[k])

IsEntry(k) == IsEntryOf(Walk, k)

Entry(k) ==
    LET p == Walk[k]
    IN  [number |-> NumberOf(bytes[p]), length |-> LengthOf(bytes[p]), data |-> p + 1]

Entries ==
    LET walk == Walk
    IN  {k \in 0 .. MaxProperty - 1 : IsEntryOf(walk, k)}

\* A walk that nothing stops early ends without a fault when it meets the
\* terminator among the entries it looks at.
EndsWell ==
    LET walk == Walk
    IN  \E k \in 0 .. MaxProperty - 1 : Visited(k) /\ walk[k] # -1 /\ IsEnd(walk[k])

\* The first entry with the number; a fault or the end may come before it.
Find(number) ==
    LET having == {k \in Entries : Entry(k).number = number}
    IN  IF having # {}
        THEN [fault |-> FALSE, entry |-> Entry(CHOOSE k \in having : \A j \in having : k <= j)]
        ELSE [fault |-> ~EndsWell, entry |-> NoEntry]

GetProp(number, default) ==
    LET found == Find(number)
        e == found.entry
    IN  CASE found.fault -> Fault
          [] ~found.fault /\ e = NoEntry ->
               IF number \in Property THEN Value(default) ELSE Fault
          [] ~found.fault /\ e.length = 1 -> Value(bytes[e.data])
          [] ~found.fault /\ e.length = 2 -> Value(bytes[e.data] * ByteLimit + bytes[e.data + 1])
          [] OTHER -> Fault

\* An address that does not fit in a word is refused.
GetPropAddr(number) ==
    IF Find(number).fault \/ Find(number).entry.data >= NameableSize
    THEN Fault
    ELSE Value(Find(number).entry.data)

\* The size byte is the one before the data.
GetPropLen(address) ==
    CASE address = 0 -> Value(0)
      [] address > StorySize -> Fault
      [] address \in 1 .. StorySize /\ bytes[address - 1] = 0 -> Fault
      [] OTHER -> Value(LengthOf(bytes[address - 1]))

GetNextProp(number) ==
    LET having == {k \in Entries : Entry(k).number = number}
        place == IF number = 0 THEN -1 ELSE CHOOSE k \in having : \A j \in having : k <= j
    IN  IF number # 0 /\ having = {}
        THEN Fault
        ELSE CASE IsEntry(place + 1) -> Value(Entry(place + 1).number)
               [] ~IsEntry(place + 1) /\ EndsWell -> Value(0)
               [] OTHER -> Fault

-----------------------------------------------------------------------------
\* A mutant: the bytes of a word are written the wrong way round.
WrittenLowFirst(e, value) ==
    IF e.length = 1
    THEN [bytes EXCEPT ![e.data] = value % ByteLimit]
    ELSE [bytes EXCEPT ![e.data] = value % ByteLimit, ![e.data + 1] = value \div ByteLimit]

\* A mutant: a property of one byte takes the whole value.
WrittenUncut(e, value) ==
    IF e.length = 1
    THEN [bytes EXCEPT ![e.data] = value]
    ELSE [bytes EXCEPT ![e.data] = value \div ByteLimit, ![e.data + 1] = value % ByteLimit]

\* What put_prop stores: a byte keeps the low half of the value.
Written(e, value) ==
    IF e.length = 1
    THEN [bytes EXCEPT ![e.data] = value % ByteLimit]
    ELSE [bytes EXCEPT ![e.data] = value \div ByteLimit, ![e.data + 1] = value % ByteLimit]

CanPut(number) ==
    LET found == Find(number)
        e == found.entry
    IN  /\ ~found.fault /\ e # NoEntry
        /\ e.length <= 2
        /\ e.data + e.length <= DynamicSize

PutProp(number, value) ==
    /\ CanPut(number)
    /\ bytes' = Written(Find(number).entry, value)
    /\ outcome' = [put |-> number, value |-> value]

PutPropRefused(number) ==
    /\ ~CanPut(number)
    /\ outcome' = [put |-> 0, value |-> 0]
    /\ UNCHANGED bytes

\* The words of a short name matter to no property: they are zero.
PropertyInit ==
    /\ bytes \in [Position -> Byte]
    /\ bytes[0] \in NameLengths
    /\ \A p \in Position \ {0} : p < First => bytes[p] = 0
    /\ outcome = [put |-> 0, value |-> 0]

PropertyNext ==
    \E number \in 0 .. MaxProperty + 1 :
       \/ \E value \in {1, ByteLimit * ByteLimit - 1} : PutProp(number, value)
       \/ PutPropRefused(number)

PropertySpec == PropertyInit /\ [][PropertyNext]_propertyVars

-----------------------------------------------------------------------------
\* S 12.4.1: terminated, the numbers descending.  The entry after the last one
\* a walk looks at is the terminator of a list of MaxProperty properties.
Length ==
    LET walk == Walk
        Stops(k) == walk[k] = -1 \/ IsBad(walk[k]) \/ IsEnd(walk[k])
    IN  CHOOSE n \in 0 .. MaxProperty :
           /\ \A k \in 0 .. n - 1 : ~Stops(k)
           /\ n = MaxProperty \/ Stops(n)

NumberAt(k) == NumberOf(bytes[Walk[k]])

WellFormed ==
    LET last == Walk[Length]
    IN  /\ last # -1 /\ IsEnd(last)
        /\ \A j, k \in 0 .. Length - 1 : j < k => NumberAt(j) > NumberAt(k)

PropertyTypeOK ==
    /\ bytes \in [Position -> Byte]
    /\ outcome.put \in 0 .. MaxProperty

\* get_next_prop, begun with 0 and asked again with every answer, goes through
\* the properties of a well-formed list, each once, and comes to its end; the
\* address of each leads get_prop_len back to its length or does not fit in a
\* word, and no other number has an address.
Enumerable ==
    /\ \A k \in 0 .. Length - 1 :
          /\ GetNextProp(IF k = 0 THEN 0 ELSE NumberAt(k - 1)) = Value(NumberAt(k))
          /\ LET address == GetPropAddr(NumberAt(k))
             IN  IF Walk[k] + 1 < NameableSize
                 THEN GetPropLen(address.value) = Value(LengthOf(bytes[Walk[k]]))
                 ELSE address = Fault
    /\ GetNextProp(IF Length = 0 THEN 0 ELSE NumberAt(Length - 1)) = Value(0)
    /\ \A n \in Property \ {NumberAt(k) : k \in 0 .. Length - 1} : GetPropAddr(n) = Value(0)

\* A well-formed list that leaves at least one number out can be gone through.
ShortListsEnumerable == WellFormed /\ Length < MaxProperty => Enumerable

\* "It can hold no more than 31 entries; a list that runs longer is corrupt"
\* (property.go): one of exactly 31 is not.
FullListsEnumerable == WellFormed => Enumerable

\* Storing a property of a well-formed list changes neither the name nor a size
\* byte, hence neither which properties there are nor where, and no other
\* property's value; and get_prop then returns what was stored, cut to the
\* length of the property.
PutChangesOneValue ==
    [][WellFormed =>
         /\ \A p \in Position : p < First => bytes'[p] = bytes[p]
         /\ \A k \in 0 .. Length : bytes'[Walk[k]] = bytes[Walk[k]]
         /\ \A k \in 0 .. Length - 1 : NumberAt(k) # outcome'.put =>
               \A i \in 1 .. LengthOf(bytes[Walk[k]]) :
                  bytes'[Walk[k] + i] = bytes[Walk[k] + i]
         /\ outcome'.put # 0 =>
               GetProp(outcome.put, 0)' =
                  Value(IF Find(outcome'.put).entry.length = 1
                        THEN outcome'.value % ByteLimit
                        ELSE outcome'.value)]_propertyVars

=============================================================================
