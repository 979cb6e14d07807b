-------------------------------- MODULE MCNbt --------------------------------
(* Nbt on small instances.                                                 *)
EXTENDS Nbt

Int32(n) == Tag(3, TagEnd, <<n>>)
Text(s) == Tag(TagString, TagEnd, s)
Compound(entries) == Tag(TagCompound, TagEnd, entries)
Entry(name, t) == [name |-> name, tag |-> t]

A == <<65>>
B == <<66>>

\* The ends of every width, and the code points around the surrogates.
Edges == <<0, 127, 128, 2047, 2048, 55295, 57344, 65535, 65536, 1114111>>

\* An array as long as one may be.
Longest == [n \in 1 .. MaxArrayLen |-> n]

Leaves == <<Int32(5), Tag(7, TagEnd, <<>>), Tag(12, TagEnd, <<3, 4>>), Tag(11, TagEnd, Longest), Text(<<>>)>>
            \o [n \in DOMAIN Edges |-> Text(<<Edges[n], 65, Edges[n]>>)]

Nested == <<
    ListOf(<<>>), Compound(<<>>),
    ListOf(<<Int32(1), Int32(2)>>),
    ListOf(<<Compound(<<>>), Compound(<<Entry(A, Int32(1))>>)>>),
    Compound(<<Entry(A, Int32(1)), Entry(B, Text(A)), Entry(<<>>, ListOf(<<>>))>>),
    \* as deep as the reader goes
    ListOf(<<ListOf(<<ListOf(<<>>)>>)>>),
    Compound(<<Entry(A, ListOf(<<Int32(1)>>)), Entry(B, Compound(<<Entry(A, Int32(2))>>))>>),
    \* and one level more
    ListOf(<<ListOf(<<ListOf(<<Int32(1)>>)>>)>>),
    Compound(<<Entry(A, ListOf(<<Compound(<<Entry(A, Int32(1))>>)>>))>>) >>

Component(text, color, bold, extra) ==
    [text |-> text, translate |-> <<>>, color |-> color,
     styles |-> <<bold, <<>>, <<>>, <<>>, <<>>>>, extra |-> extra]

Plain(text) == Component(<<text>>, <<>>, <<>>, <<>>)
Empty == Component(<<>>, <<>>, <<>>, <<>>)

\* Children without parts are as deep as the reader goes, children with text deeper.
Components == <<
    Plain(A), Component(<<A>>, <<B>>, <<<<1>>>>, <<>>),
    [Empty EXCEPT !.translate = <<B>>, !.styles = [n \in 1 .. 5 |-> <<<<n % 2>>>>]],
    Component(<<A>>, <<>>, <<>>, <<Empty>>), Component(<<A>>, <<>>, <<>>, <<Empty, Empty, Empty>>),
    Component(<<A>>, <<>>, <<>>, <<Plain(B)>>),
    Component(<<>>, <<B>>, <<>>, <<Component(<<A>>, <<>>, <<>>, <<Plain(B)>>), Empty>>)>>

MCDocuments == Leaves \o Nested \o [n \in DOMAIN Components |-> ToNbt(Components[n])]

MCLongStrings == {<<65, 128512, 128512, 66>>, <<2048, 2048, 2048, 2048, 2048>>,
                  <<128512, 128512, 65>>, <<0, 0, 0, 0, 0, 0, 0>>}

Written ==
    {Network(MCDocuments[n]) : n \in DOMAIN MCDocuments} \cup {Network(Text(s)) : s \in MCLongStrings}

\* Inputs that were cut short.
Cut == UNION {{SubSeq(w, 1, n) : n \in 0 .. Len(w) - 1} : w \in Written}

\* Any few fields: types, small lengths, one length and one type too large.
Field == {0, 1, 3, 8, 9, 10, 11, 12}
Arbitrary == UNION {[1 .. n -> Field] : n \in 1 .. 5}

\* Compounds with a name given twice, lists and arrays of negative length, and
\* strings that no writer writes: long forms, lone and broken surrogates.
Odd == {
    <<10, 3, 1, 65, 5, 3, 1, 65, 6, 0>>,
    <<10, 3, 1, 65, 5, 8, 1, 66, 0, 3, 1, 65, 6, 0>>,
    <<10, 8, 1, 65, 1, 66, 3, 1, 65, 6, 3, 1, 65, 7, 0>>,
    <<11, MaxArrayLen + 1, 0>> \o Longest,
    <<9, 3, -1>>, <<9, 0, -1>>, <<7, -1>>, <<9, 77, 0>>, <<9, 77, 1, 1>>,
    <<8, 2, 193, 129>>, <<8, 3, 224, 129, 129>>, <<8, 1, 128>>, <<8, 2, 195, 65>>,
    <<8, 3, 237, 160, 128>>, <<8, 3, 237, 176, 128>>, <<8, 4, 237, 160, 128, 65>>,
    <<8, 6, 237, 160, 128, 237, 160, 128>>, <<8, 6, 237, 160, 128, 226, 130, 172>>,
    <<8, 4, 240, 159, 152, 128>> }

\* Nothing but openings, past the depth limit, of lists that announce what never comes.
Deep == {[n \in 1 .. 12 |-> IF n % 2 = 1 THEN 9 ELSE 1],
         <<9, 9, 1, 9, 1, 9, 1, 9, 1, 9, 1, 1, 7>>,
         <<9, 9, 11, 9, 11, 9, 11>>,
         <<10, 10, 0, 10, 0, 10, 0, 10, 0, 10, 0, 0, 0, 0, 0, 0>>}

MCInputs == Written \cup Cut \cup Arbitrary \cup Odd \cup Deep
=============================================================================
