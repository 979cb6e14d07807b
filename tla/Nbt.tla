--------------------------------- MODULE Nbt ---------------------------------
(***************************************************************************)
(* Writing NBT (rukkit-protocol, nbt.rs, write_network and write_payload), *)
(* and what the reader makes of it.  The writer has no limits of its own:  *)
(* it truncates strings, and what is nested deeper than the reader goes is *)
(* written all the same.                                                   *)
(***************************************************************************)
EXTENDS NbtReader

CONSTANT Documents   \* tags that are written, as a sequence

RECURSIVE WrittenPayload(_), Nesting(_)

\* write_payload.
WrittenPayload(t) ==
    CASE t.type \in Fixed      -> t.value
      [] t.type \in Arrays     -> <<Len(t.value)>> \o t.value
      [] t.type = TagString    -> WrittenString(t.value)
      [] t.type = TagList      ->
             <<t.element, Len(t.value)>>
               \o FlattenSeq([n \in DOMAIN t.value |-> WrittenPayload(t.value[n])])
      [] t.type = TagCompound  ->
             FlattenSeq([n \in DOMAIN t.value |->
                 LET entry == t.value[n]
                 IN  <<entry.tag.type>> \o WrittenString(entry.name) \o WrittenPayload(entry.tag)])
               \o <<TagEnd>>

\* write_network: a type and a payload, without a name.
Network(t) == <<t.type>> \o WrittenPayload(t)

\* NbtList::new, for items of one type.
ListOf(items) == Tag(TagList, IF items = <<>> THEN TagEnd ELSE items[1].type, items)

\* Component::to_nbt (text.rs): the parts that are set, in this order, under names
\* that stand here for "text" to "extra".  A part is a sequence of one or none; a
\* component has five styles, and its children are one list, of compounds.
Names == <<<<116>>, <<84>>, <<99>>, <<98>>, <<105>>, <<117>>, <<115>>, <<111>>, <<101>>>>

RECURSIVE ToNbt(_)
ToNbt(component) ==
    LET Set(n, part, kind) ==
            [k \in DOMAIN part |-> [name |-> Names[n], tag |-> Tag(kind, TagEnd, part[k])]]
        children == [n \in DOMAIN component.extra |-> ToNbt(component.extra[n])]
    IN  Tag(TagCompound, TagEnd,
            Set(1, component.text, TagString)
            \o Set(2, component.translate, TagString)
            \o Set(3, component.color, TagString)
            \o FlattenSeq([n \in 1 .. 5 |-> Set(3 + n, component.styles[n], 1)])
            \o IF children = <<>> THEN <<>>
               ELSE <<[name |-> Names[9], tag |-> ListOf(children)]>>)

\* How many lists and compounds the innermost tag of a tag is in.
Nesting(t) ==
    LET parts == CASE t.type = TagList     -> {Nesting(t.value[n]) : n \in DOMAIN t.value}
                   [] t.type = TagCompound -> {Nesting(t.value[n].tag) : n \in DOMAIN t.value}
                   [] OTHER                -> {}
    IN  IF parts = {} THEN 0 ELSE 1 + (CHOOSE m \in parts : \A k \in parts : k <= m)

-----------------------------------------------------------------------------
(* Properties.                                                             *)

\* The reader gives back every tag that was written, to the last field, unless
\* it is nested deeper than the limit; that one it refuses.
RoundTrips ==
    at \in {"done", "failed"} =>
        LET documents == Documents
        IN  \A n \in DOMAIN documents :
                input = Network(documents[n]) =>
                    IF Nesting(documents[n]) > MaxDepth THEN at = "failed"
                    ELSE at = "done" /\ tag = documents[n] /\ wire = <<>>

\* Fields in which a name is given twice, with the later entry in the place of the
\* earlier one.  An entry is from a to before b, and the later one from c to before d.
Merged(fields) ==
    LET n == Len(fields)
        NamedAt(k) == IF StringThere(SubSeq(fields, k + 1, n))
                      THEN <<StringAt(SubSeq(fields, k + 1, n))>> ELSE <<>>
        pairs == {p \in (1 .. n) \X (1 .. n) :
                     p[1] < p[2] /\ NamedAt(p[1]) # <<>> /\ NamedAt(p[1]) = NamedAt(p[2])}
    IN  UNION {{SubSeq(fields, 1, p[1] - 1) \o SubSeq(fields, p[2], d - 1)
                    \o SubSeq(fields, b, p[2] - 1) \o SubSeq(fields, d, n) :
                    b \in p[1] + 1 .. p[2], d \in p[2] + 1 .. n + 1} : p \in pairs}

RECURSIVE MergesTo(_, _)
MergesTo(fields, again) ==
    \/ fields = again
    \/ \E m \in Merged(fields) : Len(m) >= Len(again) /\ MergesTo(m, again)

\* A character in more bytes than it needs: two for one that fits in seven bits (but
\* U+0000), three for one that fits in eleven.
Overlong(fields) ==
    \E n \in 1 .. Len(fields) - 1 :
        \/ fields[n] = 192 /\ fields[n + 1] \in 129 .. 191
        \/ fields[n] = 193 /\ fields[n + 1] \in 128 .. 191
        \/ fields[n] = 224 /\ fields[n + 1] \in 128 .. 159

\* Whatever is accepted is written as it was read, field for field.  There are
\* three exceptions: of a name that was given twice the last value is written, once,
\* in the place of the first; a character in more bytes than it needs is written in
\* as many as it does; and for a bare zero byte, which the reader takes for U+0000,
\* two are written.
WritesWhatItRead ==
    at = "done" =>
        LET consumed == SubSeq(input, 1, Len(input) - Len(wire))
            again == Network(tag)
        IN  \/ MergesTo(consumed, again)
            \/ Overlong(consumed)
            \/ \E n \in 2 .. Len(again) : again[n - 1] = 192 /\ again[n] = 128
=============================================================================
