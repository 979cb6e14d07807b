------------------------------ MODULE NbtReader ------------------------------
(***************************************************************************)
(* Reading binary NBT in the network form (rukkit-protocol, nbt.rs,        *)
(* read_network and read_payload).  The recursion of read_payload is a     *)
(* stack of the lists and compounds that are open; its `depth` is the      *)
(* height of that stack.  What is read are fields: a type, a length, a     *)
(* number, or one byte of a string.  An input that ends within a field     *)
(* ends the reading as one that ends before it does.                       *)
(***************************************************************************)
EXTENDS ModifiedUtf8, FiniteSets, SequencesExt

CONSTANTS
    MaxDepth,      \* MAX_DEPTH
    MaxArrayLen,   \* MAX_ARRAY_LEN
    Inputs,        \* what may be there to be read
    LongStrings    \* strings, some too long for a length to announce them whole

ASSUME NbtReaderAssumption ==
    /\ MaxDepth \in Nat /\ MaxArrayLen \in Nat /\ Inputs \subseteq Seq(Int)
    /\ \A s \in LongStrings : s \in Seq(Int) /\ \A n \in 1 .. Len(s) : IsScalar(s[n])

TagEnd == 0
Fixed == 1 .. 6           \* byte, short, int, long, float, double
Arrays == {7, 11, 12}     \* of bytes, ints and longs
TagString == 8
TagList == 9
TagCompound == 10

\* A tag; `element` is the type of a list's elements.
Tag(type, element, value) == [type |-> type, element |-> element, value |-> value]

VARIABLES
    input,   \* the whole input
    wire,    \* what is left of it
    at,      \* where the reader stands
    type,    \* the type of the payload that is next
    stack,   \* the open lists and compounds, innermost last; `room` is the capacity
             \* of the lists among them, up to and with this one
    tag      \* the last tag that was completed

vars == <<input, wire, at, type, stack, tag>>

-----------------------------------------------------------------------------
(* What has to be there for each type, from the front of some fields.      *)

StringThere(fields) ==
    /\ fields # <<>>
    /\ Head(fields) \in 0 .. Len(fields) - 1
    /\ Decoded(SubSeq(fields, 2, 1 + Head(fields))).ok

StringAt(fields) == Decoded(SubSeq(fields, 2, 1 + Head(fields))).chars

AfterCounted(fields) == SubSeq(fields, 2 + Head(fields), Len(fields))

\* read_len, and the array behind it.
ArrayThere(fields) ==
    /\ fields # <<>>
    /\ Head(fields) \in 0 .. MaxArrayLen
    /\ Head(fields) < Len(fields)

\* Mutated: a negative length is taken for none.
ListThereLoose(fields) ==
    /\ Len(fields) >= 2
    /\ fields[2] <= MaxArrayLen
    /\ fields[1] = TagEnd => fields[2] <= 0

ListThere(fields) ==
    /\ Len(fields) >= 2
    /\ fields[2] \in 0 .. MaxArrayLen
    /\ fields[1] = TagEnd => fields[2] = 0

\* Mutated: elements of lists are not counted as nested.
TooDeepInCompounds == Cardinality({n \in DOMAIN stack : stack[n].of = TagCompound}) > MaxDepth

TooDeep == Len(stack) > MaxDepth

-----------------------------------------------------------------------------
(* read_payload.                                                           *)

Payload(types) == at = "payload" /\ ~TooDeep /\ type \in types

Returns(done, rest) ==
    /\ tag' = done
    /\ wire' = rest
    /\ at' = "return"
    /\ UNCHANGED <<input, type, stack>>

ReadRoot ==
    /\ at = "root" /\ wire # <<>> /\ Head(wire) # TagEnd
    /\ type' = Head(wire)
    /\ wire' = Tail(wire)
    /\ at' = "payload"
    /\ UNCHANGED <<input, stack, tag>>

ReadFixed ==
    /\ Payload(Fixed) /\ wire # <<>>
    /\ Returns(Tag(type, TagEnd, <<Head(wire)>>), Tail(wire))

ReadArray ==
    /\ Payload(Arrays) /\ ArrayThere(wire)
    /\ Returns(Tag(type, TagEnd, SubSeq(wire, 2, 1 + Head(wire))), AfterCounted(wire))

ReadString ==
    /\ Payload({TagString}) /\ StringThere(wire)
    /\ Returns(Tag(TagString, TagEnd, StringAt(wire)), AfterCounted(wire))

\* An empty list keeps the type it was announced with, whatever that is.
ReadEmptyList ==
    /\ Payload({TagList}) /\ ListThere(wire) /\ wire[2] <= 0
    /\ Returns(Tag(TagList, wire[1], <<>>), SubSeq(wire, 3, Len(wire)))

\* Elements that room is made for in the lists that are open.
RoomAround == IF stack = <<>> THEN 0 ELSE Last(stack).room

\* Mutated: the capacity of a list is what its length announces.
CapacityAnnounced == wire[2]

\* The capacity of a list is capped by what is left of the input.
Capacity == IF wire[2] <= Len(wire) - 2 THEN wire[2] ELSE Len(wire) - 2

OpenList ==
    /\ Payload({TagList}) /\ ListThere(wire) /\ wire[2] > 0
    /\ stack' = Append(stack, [of |-> TagList, element |-> wire[1], left |-> wire[2],
                               name |-> <<>>, held |-> <<>>, room |-> RoomAround + Capacity])
    /\ type' = wire[1]
    /\ wire' = SubSeq(wire, 3, Len(wire))
    /\ UNCHANGED <<input, at, tag>>

OpenCompound ==
    /\ Payload({TagCompound})
    /\ stack' = Append(stack, [of |-> TagCompound, element |-> TagEnd, left |-> 0,
                               name |-> <<>>, held |-> <<>>, room |-> RoomAround])
    /\ at' = "entries"
    /\ UNCHANGED <<input, wire, type, tag>>

\* An entry's type and name.
ReadEntry ==
    /\ at = "entries" /\ wire # <<>> /\ Head(wire) # TagEnd /\ StringThere(Tail(wire))
    /\ type' = Head(wire)
    /\ stack' = [stack EXCEPT ![Len(stack)].name = StringAt(Tail(wire))]
    /\ wire' = AfterCounted(Tail(wire))
    /\ at' = "payload"
    /\ UNCHANGED <<input, tag>>

CloseCompound ==
    /\ at = "entries" /\ wire # <<>> /\ Head(wire) = TagEnd
    /\ tag' = Tag(TagCompound, TagEnd, Last(stack).held)
    /\ stack' = Front(stack)
    /\ wire' = Tail(wire)
    /\ at' = "return"
    /\ UNCHANGED <<input, type>>

-----------------------------------------------------------------------------
(* A completed tag goes to what is open around it.                         *)

\* Mutated: a repeated name makes a second entry.
InsertedTwice(entries, name, value) == Append(entries, [name |-> name, tag |-> value])

\* NbtCompound::insert: a repeated name replaces the value in its place.
Inserted(entries, name, value) ==
    IF \E n \in DOMAIN entries : entries[n].name = name
    THEN [n \in DOMAIN entries |->
             IF entries[n].name = name THEN [name |-> name, tag |-> value] ELSE entries[n]]
    ELSE Append(entries, [name |-> name, tag |-> value])

DeliverRoot ==
    /\ at = "return" /\ stack = <<>>
    /\ at' = "done"
    /\ UNCHANGED <<input, wire, type, stack, tag>>

DeliverElement ==
    /\ at = "return" /\ stack # <<>> /\ Last(stack).of = TagList /\ Last(stack).left > 1
    /\ stack' = [stack EXCEPT ![Len(stack)].left = @ - 1, ![Len(stack)].held = Append(@, tag)]
    /\ type' = Last(stack).element
    /\ at' = "payload"
    /\ UNCHANGED <<input, wire, tag>>

CloseList ==
    /\ at = "return" /\ stack # <<>> /\ Last(stack).of = TagList /\ Last(stack).left = 1
    /\ tag' = Tag(TagList, Last(stack).element, Append(Last(stack).held, tag))
    /\ stack' = Front(stack)
    /\ UNCHANGED <<input, wire, at, type>>

DeliverEntry ==
    /\ at = "return" /\ stack # <<>> /\ Last(stack).of = TagCompound
    /\ stack' = [stack EXCEPT ![Len(stack)].held = Inserted(@, Last(stack).name, tag)]
    /\ at' = "entries"
    /\ UNCHANGED <<input, wire, type, tag>>

-----------------------------------------------------------------------------
(* The error returns.                                                      *)

Fails == at' = "failed" /\ UNCHANGED <<input, wire, type, stack, tag>>

FailsRoot == at = "root" /\ (wire # <<>> => Head(wire) = TagEnd) /\ Fails

FailsDeep == at = "payload" /\ TooDeep /\ Fails

FailsPayload ==
    /\ \/ Payload(Fixed) /\ wire = <<>>
       \/ Payload(Arrays) /\ ~ArrayThere(wire)
       \/ Payload({TagString}) /\ ~StringThere(wire)
       \/ Payload({TagList}) /\ ~ListThere(wire)
       \/ at = "payload" /\ ~TooDeep /\ type \notin 1 .. 12
    /\ Fails

FailsEntry ==
    /\ at = "entries"
    /\ wire # <<>> => Head(wire) # TagEnd /\ ~StringThere(Tail(wire))
    /\ Fails

Init ==
    /\ input \in Inputs
    /\ wire = input
    /\ at = "root"
    /\ type = TagEnd
    /\ stack = <<>>
    /\ tag = Tag(TagEnd, TagEnd, <<>>)

Next ==
    \/ ReadRoot \/ ReadFixed \/ ReadArray \/ ReadString \/ ReadEmptyList
    \/ OpenList \/ OpenCompound \/ ReadEntry \/ CloseCompound
    \/ DeliverRoot \/ DeliverElement \/ CloseList \/ DeliverEntry
    \/ FailsRoot \/ FailsDeep \/ FailsPayload \/ FailsEntry

Spec == Init /\ [][Next]_vars

-----------------------------------------------------------------------------
(* Properties.                                                             *)

\* The reader stays within its input; an open list waits for elements and an
\* open compound holds every name once, however often it was read.
TypeOK ==
    /\ at \in {"root", "payload", "entries", "return", "done", "failed"}
    /\ type \in Int
    /\ \E n \in 0 .. Len(input) : wire = SubSeq(input, n + 1, Len(input))
    /\ tag.type \in 0 .. 12
    /\ \A n \in DOMAIN stack :
          LET open == stack[n]
          IN  /\ open.of \in {TagList, TagCompound}
              /\ open.of = TagList => open.left \in 1 .. MaxArrayLen
              /\ open.of = TagCompound =>
                    \A i, j \in DOMAIN open.held : open.held[i].name = open.held[j].name => i = j
              /\ \A i \in DOMAIN open.name : IsScalar(open.name[i])

\* nbt.rs:31, MAX_DEPTH: "Decoding is recursive, so without this [...] nested
\* lists [...] would overflow the stack".  Lists and compounds count alike: in
\* whatever order they are nested, read_payload is never more than one level
\* past the limit, where it returns its error.
DepthBounded == Len(stack) <= MaxDepth + 1

\* nbt.rs:526, "Bound the eager allocation by the bytes actually available": every
\* open list has its own capacity, made while those around it are still there, so
\* that nested lists add up.  Whatever lengths they announce, together they have
\* room for no more elements than the input has fields, once for every level.
RoomBounded == stack # <<>> => Last(stack).room <= (MaxDepth + 1) * Len(input)

\* nbt.rs:300: what is too long for its length "is truncated at a character
\* boundary rather than producing a corrupt frame": of a string that was written
\* as a tag, the reader gets the longest beginning whose encoding can be announced.
LongStringsCut ==
    at \in {"done", "failed"} =>
        \A s \in LongStrings :
            input = <<TagString>> \o WrittenString(s) =>
                /\ at = "done" /\ wire = <<>>
                /\ IsPrefix(tag.value, s)
                /\ ModifiedLen(tag.value) <= MaxStringLen
                /\ \A n \in 0 .. Len(s) :
                      ModifiedLen(SubSeq(s, 1, n)) <= MaxStringLen => n <= Len(tag.value)
=============================================================================
