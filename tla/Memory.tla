------------------------------- MODULE Memory -------------------------------
(***************************************************************************)
(* The story's memory map (memory.go): dynamic memory, which a story may   *)
(* read and write, followed by static and high memory, which it may only   *)
(* read.  A cell of the model holds one word, the unit the variables of    *)
(* the Z-machine are kept in; the two bytes of a word are not told apart.  *)
(* Static memory is not a variable: its contents are those of the story    *)
(* file, which is arbitrary, so a read of it may return any word.          *)
(***************************************************************************)
EXTENDS Integers

CONSTANTS
    WordLimit,      \* 2^16 in the code: one more than the largest word
    StorySize,      \* the length of the story file
    DynamicSize,    \* the static memory base: everything below it is dynamic
    AddressLimit,   \* 2^17 in the code: addressSpaceLimit of Version 3
    GlobalBase,     \* where the table of global variables begins
    GlobalCount     \* 240 in the code

\* What LoadStory has checked of every story before a Machine sees it.
ASSUME MemoryAssumption ==
    /\ WordLimit \in Nat \ {0, 1}
    /\ DynamicSize \in Nat \ {0}
    /\ StorySize \in Nat /\ DynamicSize <= StorySize
    /\ AddressLimit \in Nat /\ StorySize <= AddressLimit
    /\ GlobalBase \in Nat /\ GlobalCount \in Nat \ {0}
    /\ GlobalBase + GlobalCount <= DynamicSize

VARIABLE
    mem             \* the words of dynamic memory

Word == 0 .. WordLimit - 1

\* The values of a program counter or a return address.  An instruction may end
\* with the last byte of the longest story LoadStory accepts, so the first
\* address behind the address space is one of them.
Address == 0 .. AddressLimit

\* What offsetAddress yields, which refuses to leave the address space.
Target == 0 .. AddressLimit - 1

Cell == 0 .. DynamicSize - 1

MemoryTypeOK == mem \in [Cell -> Word]

-----------------------------------------------------------------------------

\* A program counter or data address inside the story file.
Readable(address) == address < StorySize

\* An address a story may store to.
Writable(address) == address < DynamicSize

\* A mutant: the sum of two words kept in a wider integer.
WrapForgotten(n) == n

\* 16-bit arithmetic keeps its width.
Wrap(n) == n % WordLimit

=============================================================================
