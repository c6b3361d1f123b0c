---------------------------- MODULE SharedStory ----------------------------
(***************************************************************************)
(* Which arrays of bytes a host, a Story and the Machines of its requests  *)
(* hold in common (story.go, memory.go, state.go).  A Story is loaded once *)
(* and used by requests on any number of goroutines, so nothing but their  *)
(* own copies keeps them apart.  Arrays are named by a number, and what no *)
(* one refers to is collected.                                             *)
(***************************************************************************)
EXTENDS Integers, FiniteSets

CONSTANTS
    Machines,       \* the requests that use the story
    ImageSize,      \* the bytes of the story
    StaticBase,     \* those of them that are dynamic
    Values          \* what a byte can be

ASSUME SharedAssumption ==
    /\ ImageSize \in Nat /\ StaticBase \in 1 .. ImageSize
    /\ IsFiniteSet(Machines) /\ IsFiniteSet(Values)

VARIABLES
    arrays,         \* the bytes of each array
    file,           \* the array that the host has read the story into
    story,          \* the image of the Story, or None
    dynamic,        \* the dynamic memory of each machine, or None
    save,           \* the saved state that the host holds, or None
    actor           \* whose step the last one was

sharedVars == <<arrays, file, story, dynamic, save, actor>>

None == 0

ArrayIds == 1 .. Cardinality(Machines) + 4

Positions == 0 .. ImageSize - 1

InUse == {file, story, save} \cup {dynamic[m] : m \in Machines}

\* A new array.
New == CHOOSE i \in ArrayIds \ InUse : \A j \in ArrayIds \ InUse : i <= j

\* What a machine reads: its own memory, and the static memory of the story.
ViewOf(m) == [a \in Positions |-> IF a < StaticBase THEN arrays[dynamic[m]][a] ELSE arrays[story][a]]

Running == {m \in Machines : dynamic[m] # None}

-----------------------------------------------------------------------------
SharedInit ==
    /\ arrays \in [{1} -> [Positions -> Values]]
    /\ file = 1
    /\ story = None
    /\ dynamic = [m \in Machines |-> None]
    /\ save = None
    /\ actor = "host"

\* The arrays, with one of them new or changed.
With(i, content) == [j \in (InUse \cup {i}) \ {None} |-> IF j = i THEN content ELSE arrays[j]]

\* The host uses its own arrays for something else.
HostWrites ==
    \E i \in {file, save} \ {None}, a \in Positions, v \in Values :
       /\ arrays' = With(i, [arrays[i] EXCEPT ![a] = v])
       /\ actor' = "host"
       /\ UNCHANGED <<file, story, dynamic, save>>

\* LoadStory makes its own copy.
ImageOf == New

LoadStory ==
    /\ story = None
    /\ story' = ImageOf
    /\ arrays' = With(ImageOf, arrays[file])
    /\ actor' = "host"
    /\ UNCHANGED <<file, dynamic, save>>

\* A mutant: dynamic memory is a slice of the image.
DynamicArrayOfImage == story

\* newMemory, of New and of restart.
DynamicArray == New

NewMemory(m) ==
    /\ story # None
    /\ dynamic' = [dynamic EXCEPT ![m] = DynamicArray]
    /\ arrays' = With(DynamicArray, arrays[story])
    /\ actor' = m
    /\ UNCHANGED <<file, story, save>>

\* A store is refused in static memory.
StoreByte(m) ==
    /\ m \in Running
    /\ \E a \in 0 .. StaticBase - 1, v \in Values :
          arrays' = With(dynamic[m], [arrays[dynamic[m]] EXCEPT ![a] = v])
    /\ actor' = m
    /\ UNCHANGED <<file, story, dynamic, save>>

\* The state goes to the host in bytes of its own.
Snapshot(m) ==
    /\ m \in Running
    /\ save' = New
    /\ arrays' = With(New, arrays[dynamic[m]])
    /\ actor' = m
    /\ UNCHANGED <<file, story, dynamic>>

\* Restore copies the saved bytes into the memory that the machine has.
RestoreSave(m) ==
    /\ m \in Running /\ save # None
    /\ arrays' = With(dynamic[m],
                      [a \in Positions |-> IF a < StaticBase THEN arrays[save][a] ELSE arrays[dynamic[m]][a]])
    /\ actor' = m
    /\ UNCHANGED <<file, story, dynamic, save>>

\* The request is over, and its memory is collected.
Drop(m) ==
    /\ m \in Running
    /\ dynamic' = [dynamic EXCEPT ![m] = None]
    /\ UNCHANGED <<file, story, save>>
    /\ arrays' = [j \in InUse' \ {None} |-> arrays[j]]
    /\ actor' = m

SharedNext ==
    \/ HostWrites \/ LoadStory
    \/ \E m \in Machines : NewMemory(m) \/ StoreByte(m) \/ Snapshot(m) \/ RestoreSave(m) \/ Drop(m)

SharedSpec == SharedInit /\ [][SharedNext]_sharedVars

-----------------------------------------------------------------------------
SharedTypeOK ==
    /\ InUse \subseteq DOMAIN arrays \cup {None}
    /\ \A i \in DOMAIN arrays : arrays[i] \in [Positions -> Values]

\* "So machines sharing a Story are fully isolated" (memory.go): whatever one of
\* them or the host does, no other machine reads anything else than before, the
\* image of the Story never changes, and neither does a saved state unless it is
\* the host that changes it.
Isolated ==
    [][ /\ \A m \in Running : actor' # m => ViewOf(m)' = ViewOf(m)
        /\ story # None => arrays'[story] = arrays[story]
        /\ save # None /\ save' = save /\ actor' # "host" => arrays'[save] = arrays[save]
      ]_sharedVars

=============================================================================
