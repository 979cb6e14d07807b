----------------------------- MODULE BlockArray -----------------------------
(***************************************************************************)
(* What paletted containers and chunk columns promise: an array of ids.  A *)
(* write changes one entry and answers with the id that was there, a fill  *)
(* gives one region of the array one id, a write beyond the array changes  *)
(* nothing, and nothing else can be seen of how the array is represented.  *)
(***************************************************************************)
CONSTANTS
    Indices,
    Ids,
    Regions,   \* the sets of indices that a fill covers
    Beyond     \* what a write beyond the array answers, where there are any

VARIABLES
    content,   \* the id of every index
    reply      \* what the last write answered

Set(i, v) ==
    /\ content' = [content EXCEPT ![i] = v]
    /\ reply' = content[i]

Fill(region, v) ==
    /\ content' = [i \in Indices |-> IF i \in region THEN v ELSE content[i]]
    /\ UNCHANGED reply

Miss(v) ==
    /\ reply' = v
    /\ UNCHANGED content

Init ==
    /\ content \in [Indices -> Ids]
    /\ reply \in Ids

Next ==
    \/ \E v \in Ids :
         \/ \E i \in Indices : Set(i, v)
         \/ \E region \in Regions : Fill(region, v)
    \/ \E v \in Beyond : Miss(v)

Spec == Init /\ [][Next]_<<content, reply>>
=============================================================================
