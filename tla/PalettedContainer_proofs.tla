----------------------- MODULE PalettedContainer_proofs -----------------------
(***************************************************************************)
(* Proofs that the paletted container keeps its representation sound and   *)
(* implements an array of ids, for every volume, every set of ids and all  *)
(* palette thresholds. The invariant adds to the properties that a direct  *)
(* storage holds ids of callers.                                           *)
(*                                                                         *)
(* The wire: slots set one after the other into words of zeros are found   *)
(* there by a walk (PackedIs), the fields of each representation end in    *)
(* those words (EndsInCells), and so their widths add up to wire_len and a *)
(* client's walk finds the content.                                        *)
(***************************************************************************)
EXTENDS PalettedContainer, Arithmetic, SequenceTheorems

-----------------------------------------------------------------------------
(* Powers of two.                                                          *)

\* A palette of one more bit names at least one more id, and a palette of any
\* width names some id.
LEMMA PowerGrows ==
    ASSUME NEW n \in Nat
    PROVE  /\ 2^n \in Nat /\ 2^n >= 1
           /\ 2^(n + 1) \in Nat /\ 2^n < 2^(n + 1)
<1>1. 2^n \in Nat \ {0} /\ 2^(n + 1) \in Nat \ {0}
  BY TwoPositive
<1>2. 2 * 2^n <= 2^(n + 1)
  BY TwoMonotone
<1> QED
  BY <1>1, <1>2

-----------------------------------------------------------------------------
(* The invariant.                                                          *)

Sound ==
    /\ TypeOK
    /\ RepresentationSound
    /\ form = "Direct" => slots \in [Indices -> Ids]

\* Every entry of a sound container is an id some caller wrote.
LEMMA EntriesAreIds ==
    ASSUME Sound
    PROVE  \A i \in Indices : Get(i) \in Ids
<1> SUFFICES ASSUME NEW i \in Indices PROVE Get(i) \in Ids
  OBVIOUS
<1> USE DEF Sound, TypeOK, RepresentationSound, Get
<1>1. CASE form = "Single"
  BY <1>1, SMT
<1>2. CASE form = "Indirect"
  <2>1. slots[i] + 1 \in 1 .. Len(palette)
    BY <1>2, SMT
  <2>2. palette[slots[i] + 1] \in Ids
    BY <2>1, SMT
  <2> QED
    BY <1>2, <2>2
<1>3. CASE form = "Direct"
  BY <1>3
<1> QED
  BY <1>1, <1>2, <1>3

\* An id the palette names has a slot, and the slot stands for it.
LEMMA SlotNames ==
    ASSUME Sound, NEW v \in Ids, Named(v)
    PROVE  SlotOf(v) \in Nat /\ SlotOf(v) < Len(palette) /\ palette[SlotOf(v) + 1] = v
<1>1. Len(palette) \in Nat /\ DOMAIN palette = 1 .. Len(palette)
  BY DEF Sound, TypeOK
<1>2. PICK slot \in DOMAIN palette : SlotOf(v) = slot - 1 /\ palette[slot] = v
  BY DEF SlotOf, Named
<1>3. slot \in 1 .. Len(palette) /\ SlotOf(v) + 1 = slot
  BY <1>1, <1>2, SMT
<1> QED
  BY <1>1, <1>2, <1>3, SMT

\* A container filled with one id is sound.
LEMMA SingleIsSound ==
    ASSUME NEW v \in Ids, BecomesSingle(v), reply' \in Ids, panicked' \in BOOLEAN
    PROVE  Sound' /\ Content' = [i \in Indices |-> v]
<1>1. /\ form' = "Single" /\ palette' = <<v>> /\ bits' = 0
      /\ slots' = [i \in Indices |-> 0]
  BY DEF BecomesSingle, Becomes
<1>2. palette' \in Seq(Ids) /\ Len(palette') = 1 /\ palette'[0 + 1] = v
  BY <1>1, SMT
<1>3. Sound'
  BY <1>1, <1>2 DEF Sound, TypeOK, RepresentationSound
<1>4. Content' = [i \in Indices |-> v]
  BY <1>1, <1>2 DEF Content, Get
<1> QED
  BY <1>3, <1>4

\* What a widened or lengthened palette keeps: the ids of the old slots, and
\* the new one at the end.
Longer(v) == Append(palette, v)

LEMMA Lengthened ==
    ASSUME Sound, form # "Direct", NEW v \in Ids, ~Named(v)
    PROVE  /\ Longer(v) \in Seq(Ids)
           /\ Len(palette) \in Nat /\ Len(Longer(v)) = Len(palette) + 1
           /\ \A n \in 1 .. Len(palette) : Longer(v)[n] = palette[n]
           /\ Longer(v)[Len(palette) + 1] = v
           /\ \A m, n \in DOMAIN Longer(v) : Longer(v)[m] = Longer(v)[n] => m = n
<1>1. palette \in Seq(Ids) /\ \A m, n \in DOMAIN palette : palette[m] = palette[n] => m = n
  BY SMT DEF Sound, TypeOK, RepresentationSound
<1>2. /\ Longer(v) \in Seq(Ids)
      /\ Len(palette) \in Nat /\ Len(Longer(v)) = Len(palette) + 1
      /\ \A n \in 1 .. Len(palette) : Longer(v)[n] = palette[n]
      /\ Longer(v)[Len(palette) + 1] = v
      /\ DOMAIN Longer(v) = 1 .. Len(palette) + 1
      /\ DOMAIN palette = 1 .. Len(palette)
  BY <1>1, SMT DEF Longer
<1>3. \A n \in 1 .. Len(palette) : palette[n] # v
  BY <1>2 DEF Named
<1>4. ASSUME NEW m \in DOMAIN Longer(v), NEW n \in DOMAIN Longer(v), Longer(v)[m] = Longer(v)[n]
      PROVE  m = n
  BY <1>1, <1>2, <1>3, <1>4, SMT
<1> QED
  BY <1>2, <1>4

\* A palette one longer, at a width that names it, with entry i on the new slot:
\* sound, and only entry i has changed.
LEMMA LengthenedIsSound ==
    ASSUME Sound, form # "Direct", NEW v \in Ids, ~Named(v), NEW i \in Indices, NEW width \in Nat,
           MinBits <= width, width <= MaxBits, 2^width \in Nat, Len(palette) + 1 <= 2^width,
           Becomes("Indirect", Append(palette, v), width, [slots EXCEPT ![i] = Len(palette)]),
           reply' = Get(i), panicked' \in BOOLEAN
    PROVE  Sound' /\ Content' = [Content EXCEPT ![i] = v]
<1> USE PalettedContainerAssumption
<1>1. /\ form' = "Indirect" /\ palette' = Append(palette, v) /\ bits' = width
      /\ slots' = [slots EXCEPT ![i] = Len(palette)]
  BY DEF Becomes
<1>2. /\ palette' \in Seq(Ids)
      /\ Len(palette) \in Nat /\ Len(palette') = Len(palette) + 1
      /\ \A n \in 1 .. Len(palette) : palette'[n] = palette[n]
      /\ palette'[Len(palette) + 1] = v
      /\ \A m, n \in DOMAIN palette' : palette'[m] = palette'[n] => m = n
  BY <1>1, Lengthened DEF Longer
<1>3. slots \in [Indices -> Nat] /\ \A j \in Indices : slots[j] < Len(palette)
  <2>1. CASE form = "Single"
    BY <2>1, SMT DEF Sound, TypeOK, RepresentationSound
  <2>2. CASE form = "Indirect"
    BY <2>2 DEF Sound, TypeOK, RepresentationSound
  <2> QED
    BY <2>1, <2>2 DEF Sound, TypeOK
<1>4. slots' \in [Indices -> Nat] /\ \A j \in Indices : slots'[j] < Len(palette')
  BY <1>1, <1>2, <1>3, SMT
<1>5. reply' \in Ids
  BY EntriesAreIds
<1>6. TypeOK'
  BY <1>1, <1>2, <1>4, <1>5 DEF TypeOK
<1>7. RepresentationSound'
  BY <1>1, <1>2, <1>4, SMT DEF RepresentationSound
<1>8. Sound'
  BY <1>1, <1>6, <1>7 DEF Sound
<1>9. ASSUME NEW j \in Indices PROVE Get(j)' = IF j = i THEN v ELSE Get(j)
  <2>1. Get(j)' = palette'[slots'[j] + 1] /\ Get(j) = palette[slots[j] + 1]
    BY <1>1 DEF Get
  <2>2. CASE j = i
    BY <1>1, <1>2, <1>3, <2>1, <2>2, SMT
  <2>3. CASE j # i
    <3>1. slots'[j] = slots[j] /\ slots[j] + 1 \in 1 .. Len(palette)
      BY <1>1, <1>2, <1>3, <2>3, SMT
    <3> QED
      BY <1>2, <2>1, <2>3, <3>1
  <2> QED
    BY <2>2, <2>3
<1>10. Content' = [Content EXCEPT ![i] = v]
  BY <1>9 DEF Content
<1> QED
  BY <1>8, <1>10

-----------------------------------------------------------------------------
(* Each operation keeps the container sound and does to the array what     *)
(* BlockArray says.                                                        *)

\* A write that does not panic changes the entry it names and no other, and
\* answers with the id that was there.
LEMMA SetStores ==
    ASSUME Sound, NEW i \in Indices, NEW v \in Ids, Set(i, v)
    PROVE  Sound' /\ Array!Set(i, v)
<1> USE PalettedContainerAssumption
<1> DEFINE Goal == Sound' /\ Content' = [Content EXCEPT ![i] = v] /\ reply' = Get(i)
<1> SUFFICES Goal
  BY DEF Content, Array!Set
<1>1. TypeOK /\ RepresentationSound /\ Get(i) \in Ids /\ panicked \in BOOLEAN
  BY EntriesAreIds DEF Sound, TypeOK
<1>2. CASE SetSame(i, v)
  <2>1. /\ form = "Single" /\ palette = <<v>> /\ reply' = v
        /\ form' = form /\ palette' = palette /\ bits' = bits /\ slots' = slots
        /\ panicked' = panicked
    BY <1>2 DEF SetSame
  <2>2. \A j \in Indices : slots[j] = 0 /\ Get(j) = v /\ Get(j)' = v
    BY <1>1, <2>1, SMT DEF RepresentationSound, Get
  <2>3. Sound'
    BY <2>1, <2>2, <1>1 DEF Sound, TypeOK, RepresentationSound, Fits
  <2> QED
    BY <2>1, <2>2, <2>3 DEF Content
<1>3. CASE SetStored(i, v)
  <2>1. /\ form = "Direct" /\ Fits(v, DirectBits) /\ reply' = Get(i)
        /\ slots' = [slots EXCEPT ![i] = v]
        /\ form' = form /\ palette' = palette /\ bits' = bits /\ panicked' = panicked
    BY <1>3 DEF SetStored
  <2>2. slots \in [Indices -> Ids]
    BY <2>1 DEF Sound
  <2>3. slots' \in [Indices -> Ids] /\ slots' \in [Indices -> Nat]
    BY <2>1, <2>2
  <2>4. bits = DirectBits /\ \A j \in Indices : Fits(slots[j], bits)
    BY <1>1, <2>1 DEF RepresentationSound
  <2>5. \A j \in Indices : Fits(slots'[j], bits')
    BY <2>1, <2>2, <2>4
  <2>6. Sound'
    BY <1>1, <2>1, <2>3, <2>4, <2>5 DEF Sound, TypeOK, RepresentationSound
  <2>7. \A j \in Indices : Get(j)' = IF j = i THEN v ELSE Get(j)
    BY <2>1, <2>2 DEF Get
  <2> QED
    BY <2>1, <2>6, <2>7 DEF Content
<1>4. CASE SetNamed(i, v)
  <2>1. /\ form = "Indirect" /\ Named(v) /\ reply' = Get(i)
        /\ slots' = [slots EXCEPT ![i] = SlotOf(v)]
        /\ form' = form /\ palette' = palette /\ bits' = bits /\ panicked' = panicked
    BY <1>4 DEF SetNamed
  <2>2. SlotOf(v) \in Nat /\ SlotOf(v) < Len(palette) /\ palette[SlotOf(v) + 1] = v
    BY <2>1, SlotNames
  <2>3. slots \in [Indices -> Nat]
    BY <1>1 DEF TypeOK
  <2>4. slots' \in [Indices -> Nat]
    BY <2>1, <2>2, <2>3
  <2>5. \A j \in Indices : slots'[j] < Len(palette')
    BY <1>1, <2>1, <2>2, <2>3 DEF RepresentationSound
  <2>6. Sound'
    BY <1>1, <2>1, <2>4, <2>5 DEF Sound, TypeOK, RepresentationSound
  <2>7. \A j \in Indices : Get(j)' = IF j = i THEN v ELSE Get(j)
    BY <2>1, <2>2, <2>3 DEF Get
  <2> QED
    BY <2>1, <2>6, <2>7 DEF Content
<1>5. CASE SetPushed(i, v)
  <2>1. /\ form = "Indirect" /\ ~Named(v) /\ Len(palette) < 2^bits /\ reply' = Get(i)
        /\ Becomes("Indirect", Append(palette, v), bits, [slots EXCEPT ![i] = Len(palette)])
        /\ panicked' = panicked
    BY <1>5 DEF SetPushed, Becomes
  <2>2. bits \in Nat /\ MinBits <= bits /\ bits <= MaxBits /\ 2^bits \in Nat
    BY <1>1, <2>1, PowerGrows DEF TypeOK, RepresentationSound
  <2>3. Len(palette) \in Nat
    BY <1>1 DEF TypeOK
  <2>4. Len(palette) + 1 <= 2^bits
    BY <2>1, <2>2, <2>3, SMT
  <2> QED
    BY <1>1, <2>1, <2>2, <2>4, LengthenedIsSound
<1>6. CASE SetSecond(i, v)
  <2>1. /\ form = "Single" /\ palette # <<v>> /\ reply' = Get(i) /\ panicked' = panicked
        /\ Becomes("Indirect", Append(palette, v), MinBits, [slots EXCEPT ![i] = 1])
    BY <1>6 DEF SetSecond
  <2>2. palette \in Seq(Ids) /\ Len(palette) = 1
    BY <1>1, <2>1 DEF TypeOK, RepresentationSound
  <2>3. ~Named(v)
    <3>1. palette = <<palette[1]>> /\ DOMAIN palette = {1}
      BY <2>2, SMT
    <3> QED
      BY <2>1, <3>1 DEF Named
  <2>4. PICK n \in Nat : n + 1 = MinBits
    <3>1. MinBits - 1 \in Nat /\ (MinBits - 1) + 1 = MinBits
      BY SMT
    <3> QED
      BY <3>1
  <2>5. 2^MinBits \in Nat /\ Len(palette) + 1 <= 2^MinBits
    <3>1. 2^n \in Nat /\ 2^n >= 1 /\ 2^(n + 1) \in Nat /\ 2^n < 2^(n + 1)
      BY PowerGrows
    <3>2. 2^(n + 1) = 2^MinBits
      BY <2>4
    <3> QED
      BY <2>2, <3>1, <3>2, SMT
  <2>6. MinBits \in Nat /\ MinBits <= MinBits /\ form # "Direct"
    BY <2>1, SMT
  <2> QED
    BY <1>1, <2>1, <2>2, <2>3, <2>5, <2>6, LengthenedIsSound
<1>7. CASE SetWidened(i, v)
  <2>1. /\ Full(v) /\ bits + 1 <= MaxBits /\ reply' = Get(i) /\ panicked' = panicked
        /\ Becomes("Indirect", Append(palette, v), bits + 1, [slots EXCEPT ![i] = Len(palette)])
    BY <1>7 DEF SetWidened
  <2>2. form = "Indirect" /\ ~Named(v)
    BY <2>1 DEF Full
  <2>3. bits \in Nat /\ MinBits <= bits /\ Len(palette) <= 2^bits /\ Len(palette) \in Nat
    BY <1>1, <2>2 DEF TypeOK, RepresentationSound
  <2>4. bits + 1 \in Nat /\ MinBits <= bits + 1
    BY <2>3, SMT
  <2>5. 2^(bits + 1) \in Nat /\ Len(palette) + 1 <= 2^(bits + 1)
    BY <2>3, PowerGrows, SMT
  <2> QED
    BY <1>1, <2>1, <2>2, <2>4, <2>5, LengthenedIsSound
<1>8. CASE SetInlined(i, v)
  <2>1. /\ Fits(v, DirectBits) /\ \A j \in Indices : Fits(Get(j), DirectBits)
        /\ form' = "Direct" /\ palette' = <<>> /\ bits' = DirectBits
        /\ slots' = [Content EXCEPT ![i] = v]
        /\ reply' = Get(i) /\ panicked' = panicked
    BY <1>8 DEF SetInlined, Becomes
  <2>2. Content \in [Indices -> Ids] /\ \A j \in Indices : Content[j] = Get(j)
    BY EntriesAreIds DEF Content
  <2>3. slots' \in [Indices -> Ids] /\ slots' \in [Indices -> Nat]
    BY <2>1, <2>2
  <2>4. \A j \in Indices : Fits(slots'[j], bits')
    BY <2>1, <2>2
  <2>5. Sound'
    BY <1>1, <2>1, <2>3, <2>4 DEF Sound, TypeOK, RepresentationSound
  <2>6. Content' = slots'
    BY <2>1, <2>3 DEF Content, Get
  <2> QED
    BY <2>1, <2>5, <2>6
<1> QED
  BY <1>2, <1>3, <1>4, <1>5, <1>6, <1>7, <1>8 DEF Set

\* A write that panics leaves the container sound: untouched when it was direct,
\* else holding the new id everywhere.
LEMMA PanicLoses ==
    ASSUME Sound, NEW i \in Indices, NEW v \in Ids, SetPanics(i, v)
    PROVE  Sound' /\ (Array!Fill(Indices, v) \/ UNCHANGED <<Content, reply>>)
<1>1. reply' = reply /\ reply' \in Ids /\ panicked' \in BOOLEAN
  BY DEF SetPanics, Sound, TypeOK
<1>2. CASE BecomesSingle(v)
  BY <1>1, <1>2, SingleIsSound DEF Array!Fill
<1>3. CASE UNCHANGED <<form, palette, bits, slots>>
  BY <1>1, <1>3 DEF Sound, TypeOK, RepresentationSound, Fits, Content, Get
<1> QED
  BY <1>2, <1>3 DEF SetPanics

LEMMA FillStores ==
    ASSUME Sound, NEW v \in Ids, Fill(v)
    PROVE  Sound' /\ Array!Fill(Indices, v)
<1>1. BecomesSingle(v) /\ reply' = reply /\ reply' \in Ids /\ panicked' \in BOOLEAN
  BY DEF Fill, Sound, TypeOK
<1> QED
  BY <1>1, SingleIsSound DEF Array!Fill

\* A list of as many entries as there are distinct ids, which has every one of
\* them, has none of them twice.
LEMMA ListsAreInjective ==
    ASSUME NEW order \in Lists, ListsInOrder(order), Sound
    PROVE  /\ Len(order) = Cardinality(Distinct) /\ Len(order) \in Nat
           /\ DOMAIN order = 1 .. Len(order) /\ order \in Seq(Ids)
           /\ \A m, n \in DOMAIN order : order[m] = order[n] => m = n
<1> DEFINE k == Cardinality(Distinct)
<1>1. IsFiniteSet(Indices)
  BY PalettedContainerAssumption, FS_Interval, SMT DEF Indices
<1>2. IsFiniteSet(Distinct) /\ k \in Nat
  <2> DEFINE f == [i \in Indices |-> Get(i)]
  <2>1. f \in Surjection(Indices, Distinct)
    BY DEF Distinct, Surjection
  <2> QED
    BY <1>1, <2>1, FS_Surjection, FS_CardinalityType
<1>3. order \in [1 .. k -> Distinct]
  BY DEF Lists
<1>4. IsFiniteSet(1 .. k) /\ Cardinality(1 .. k) = k
  BY <1>2, FS_Interval, SMT
<1>5. order \in Surjection(1 .. k, Distinct)
  BY <1>3 DEF ListsInOrder, Surjection
<1>6. order \in Injection(1 .. k, Distinct)
  BY <1>2, <1>4, <1>5, FS_SurjSameCardinalityImpliesInj
<1>7. Distinct \subseteq Ids
  BY EntriesAreIds DEF Distinct
<1>8. order \in Seq(Ids) /\ Len(order) = k /\ DOMAIN order = 1 .. k
  BY <1>2, <1>3, <1>7, SMT
<1>9. \A m, n \in 1 .. k : order[m] = order[n] => m = n
  BY <1>6, <1>8 DEF Injection, IsInjective
<1> QED
  BY <1>2, <1>8, <1>9

\* shrink keeps the container sound and its content as it is.
LEMMA ShrinkKeepsContent ==
    ASSUME Sound, Shrink
    PROVE  Sound' /\ UNCHANGED <<Content, reply>>
<1> USE PalettedContainerAssumption
<1>1. CASE ShrinkToSingle
  <2>1. PICK v \in Distinct : Distinct = {v} /\ BecomesSingle(v)
    BY <1>1 DEF ShrinkToSingle
  <2>2. v \in Ids /\ \A i \in Indices : Get(i) = v
    BY <2>1, EntriesAreIds DEF Distinct
  <2>3. reply' = reply /\ reply' \in Ids /\ panicked' \in BOOLEAN
    BY <1>1 DEF ShrinkToSingle, Sound, TypeOK
  <2>4. Sound' /\ Content' = [i \in Indices |-> v]
    BY <2>1, <2>2, <2>3, SingleIsSound
  <2> QED
    BY <2>2, <2>3, <2>4 DEF Content
<1>2. ASSUME NEW order \in Lists, NEW width \in MinBits .. MaxBits, ShrinkToPalette(order, width)
      PROVE  Sound' /\ UNCHANGED <<Content, reply>>
  <2>1. /\ ListsInOrder(order) /\ Narrowest(width, Len(order)) /\ Cardinality(Distinct) > 1
        /\ form' = "Indirect" /\ palette' = order /\ bits' = width
        /\ slots' = [i \in Indices |-> SlotIn(order, Get(i))]
        /\ reply' = reply /\ panicked' = panicked
    BY <1>2 DEF ShrinkToPalette, Becomes
  <2>2. /\ Len(order) \in Nat /\ DOMAIN order = 1 .. Len(order) /\ order \in Seq(Ids)
        /\ \A m, n \in DOMAIN order : order[m] = order[n] => m = n
    BY <2>1, ListsAreInjective
  <2>3. ASSUME NEW i \in Indices
        PROVE  /\ SlotIn(order, Get(i)) \in Nat /\ SlotIn(order, Get(i)) < Len(order)
               /\ order[SlotIn(order, Get(i)) + 1] = Get(i)
    <3>1. Get(i) \in {order[n] : n \in DOMAIN order}
      BY <2>1 DEF ListsInOrder, Distinct
    <3>2. PICK n \in DOMAIN order : SlotIn(order, Get(i)) = n - 1 /\ order[n] = Get(i)
      BY <3>1 DEF SlotIn
    <3>3. n \in 1 .. Len(order) /\ SlotIn(order, Get(i)) + 1 = n
      BY <2>2, <3>2, SMT
    <3> QED
      BY <2>2, <3>2, <3>3, SMT
  <2>4. slots' \in [Indices -> Nat] /\ \A i \in Indices : slots'[i] < Len(palette')
    BY <2>1, <2>3
  <2>5. width \in Nat /\ MinBits <= width /\ width <= MaxBits /\ Len(order) <= 2^width
    BY <2>1, SMT DEF Narrowest
  <2>6. Sound'
    BY <2>1, <2>2, <2>4, <2>5 DEF Sound, TypeOK, RepresentationSound
  <2>7. \A i \in Indices : Get(i)' = Get(i)
    BY <2>1, <2>3 DEF Get
  <2> QED
    BY <2>1, <2>6, <2>7 DEF Content
<1> QED
  BY <1>1, <1>2 DEF Shrink

-----------------------------------------------------------------------------
(* Theorems.                                                               *)

LEMMA InitSound ==
    ASSUME Init
    PROVE  Sound /\ Array!Init
<1>1. PICK v \in Ids : form = "Single" /\ palette = <<v>>
  BY DEF Init
<1>2. palette \in Seq(Ids) /\ Len(palette) = 1 /\ palette[0 + 1] = v
  BY <1>1, SMT
<1>3. bits = 0 /\ slots = [i \in Indices |-> 0] /\ reply \in Ids /\ panicked \in BOOLEAN
  BY DEF Init
<1>4. Sound
  BY <1>1, <1>2, <1>3 DEF Sound, TypeOK, RepresentationSound
<1>5. Content = [i \in Indices |-> v]
  BY <1>1, <1>2, <1>3 DEF Content, Get
<1> QED
  BY <1>3, <1>4, <1>5 DEF Array!Init

LEMMA NextSound ==
    ASSUME Sound, [Next]_vars
    PROVE  Sound' /\ [Array!Next]_<<Content, reply>>
<1>1. CASE UNCHANGED vars
  BY <1>1 DEF vars, Sound, TypeOK, RepresentationSound, Fits, Content, Get
<1>2. CASE Shrink
  BY <1>2, ShrinkKeepsContent
<1>3. ASSUME NEW v \in Ids, Fill(v) PROVE Sound' /\ [Array!Next]_<<Content, reply>>
  BY <1>3, FillStores DEF Array!Next
<1>4. ASSUME NEW v \in Ids, NEW i \in Indices, Set(i, v)
      PROVE  Sound' /\ [Array!Next]_<<Content, reply>>
  BY <1>4, SetStores DEF Array!Next
<1>5. ASSUME NEW v \in Ids, NEW i \in Indices, SetPanics(i, v)
      PROVE  Sound' /\ [Array!Next]_<<Content, reply>>
  BY <1>5, PanicLoses DEF Array!Next
<1> QED
  BY <1>1, <1>2, <1>3, <1>4, <1>5 DEF Next

\* In every reachable state slots, palette and storage agree with their types and
\* with each other: no sequence of writes, fills and shrinks leaves an entry
\* without an id, a palette wider than its slots, or an id in it twice.
THEOREM ContainerSound == Spec => [](TypeOK /\ RepresentationSound)
<1>1. Init => Sound
  BY InitSound
<1>2. Sound /\ [Next]_vars => Sound'
  BY NextSound
<1>3. Sound => TypeOK /\ RepresentationSound
  BY DEF Sound
<1> QED
  BY <1>1, <1>2, <1>3, PTL DEF Spec

\* The types alone, as the run checks them.
THEOREM ContainerTypes == Spec => []TypeOK
BY ContainerSound, PTL

\* The container implements an array of ids: no change of representation can be
\* seen in what is read or answered.
THEOREM ContainerStores == Spec => Stores
<1>1. Init => Sound /\ Array!Init
  BY InitSound
<1>2. Sound /\ [Next]_vars => Sound' /\ [Array!Next]_<<Content, reply>>
  BY NextSound
<1> QED
  BY <1>1, <1>2, PTL DEF Spec, Stores, Array!Spec

\* Writes never narrow a container; shrink narrows it to what its content needs.
\* The direct width is at least the widest palette's, as it is for every registry
\* whose ids do not all fit a palette.
THEOREM ContainerNarrows ==
    ASSUME MaxBits <= DirectBits
    PROVE  Spec => NarrowsOnlyToFit
<1> DEFINE Fit == bits' < bits =>
                    \/ Content' = Content /\ Narrowest(bits', Cardinality(Distinct))
                    \/ bits' = 0 /\ \E v \in Ids : Distinct' = {v}
<1>1. Sound /\ [Next]_vars => [Fit]_vars
  <2> SUFFICES ASSUME Sound, Next, bits' < bits
               PROVE  \/ Content' = Content /\ Narrowest(bits', Cardinality(Distinct))
                      \/ bits' = 0 /\ \E v \in Ids : Distinct' = {v}
    BY DEF Fit
  <2> USE PalettedContainerAssumption
  <2>1. bits \in Nat
    BY DEF Sound, TypeOK
  <2>2. ASSUME NEW v \in Ids, BecomesSingle(v), reply' \in Ids, panicked' \in BOOLEAN
        PROVE  bits' = 0 /\ \E w \in Ids : Distinct' = {w}
    <3>1. Content' = [i \in Indices |-> v] /\ bits' = 0
      BY <2>2, SingleIsSound DEF BecomesSingle, Becomes
    <3>2. 0 \in Indices /\ \A i \in Indices : Get(i)' = v
      BY <3>1, SMT DEF Content, Indices
    <3> QED
      BY <3>1, <3>2 DEF Distinct
  <2>3. CASE Shrink
    <3>1. Content' = Content
      BY <2>3, ShrinkKeepsContent
    <3>2. CASE ShrinkToSingle
      <4>1. PICK v \in Distinct : BecomesSingle(v)
        BY <3>2 DEF ShrinkToSingle
      <4>2. v \in Ids /\ reply' \in Ids /\ panicked' \in BOOLEAN
        BY <3>2, EntriesAreIds DEF Distinct, ShrinkToSingle, Sound, TypeOK
      <4> QED
        BY <2>2, <4>1, <4>2
    <3>3. ASSUME NEW order \in Lists, NEW width \in MinBits .. MaxBits, ShrinkToPalette(order, width)
          PROVE  Narrowest(bits', Cardinality(Distinct))
      <4>1. ListsInOrder(order) /\ Narrowest(width, Len(order)) /\ bits' = width
        BY <3>3 DEF ShrinkToPalette, Becomes
      <4> QED
        BY <4>1, ListsAreInjective
    <3> QED
      BY <2>3, <3>1, <3>2, <3>3 DEF Shrink
  <2>4. ASSUME NEW v \in Ids, Fill(v) PROVE bits' = 0 /\ \E w \in Ids : Distinct' = {w}
    BY <2>2, <2>4 DEF Fill, Sound, TypeOK
  <2>5. ASSUME NEW v \in Ids, NEW i \in Indices, SetPanics(i, v)
        PROVE  bits' = 0 /\ \E w \in Ids : Distinct' = {w}
    <3>1. bits' # bits
      BY <2>1, SMT
    <3> QED
      BY <2>2, <2>5, <3>1 DEF SetPanics, Sound, TypeOK
  <2>6. ASSUME NEW v \in Ids, NEW i \in Indices, Set(i, v) PROVE FALSE
    <3>1. bits' >= bits
      <4>1. CASE SetSame(i, v) \/ SetStored(i, v) \/ SetNamed(i, v) \/ SetPushed(i, v)
        BY <2>1, <4>1, SMT DEF SetSame, SetStored, SetNamed, SetPushed
      <4>2. CASE SetSecond(i, v)
        BY <4>2, SMT DEF SetSecond, Becomes, Sound, RepresentationSound
      <4>3. CASE SetWidened(i, v)
        BY <2>1, <4>3, SMT DEF SetWidened, Becomes
      <4>4. CASE SetInlined(i, v)
        <5>1. bits' = DirectBits /\ form = "Indirect"
          BY <4>4 DEF SetInlined, Becomes, Full
        <5>2. bits <= MaxBits
          BY <5>1 DEF Sound, RepresentationSound
        <5> QED
          BY <2>1, <5>1, <5>2, SMT
      <4> QED
        BY <2>6, <4>1, <4>2, <4>3, <4>4 DEF Set
    <3>2. bits' \in Nat
      BY <2>6, SetStores DEF Sound, TypeOK
    <3> QED
      BY <2>1, <3>1, <3>2, SMT
  <2> QED
    BY <2>3, <2>4, <2>5, <2>6 DEF Next
<1>2. Init => Sound
  BY InitSound
<1>3. Sound /\ [Next]_vars => Sound'
  BY NextSound
<1> QED
  BY <1>1, <1>2, <1>3, PTL DEF Spec, NarrowsOnlyToFit

-----------------------------------------------------------------------------
(* Panics.                                                                 *)

\* palette.rs, set: where every id fits direct storage, as the ids of a registry
\* do, no history of writes within bounds reaches the assertion in BitStorage::set,
\* and nothing is lost to the placeholder.
THEOREM FittingIdsNeverPanic ==
    ASSUME \A v \in Ids : Fits(v, DirectBits)
    PROVE  Spec => []NeverPanics
<1>1. Init => Sound /\ NeverPanics
  BY InitSound DEF Init, NeverPanics
<1>2. Sound /\ NeverPanics /\ [Next]_vars => NeverPanics'
  <2> SUFFICES ASSUME Sound, NeverPanics, [Next]_vars PROVE NeverPanics'
    OBVIOUS
  <2>1. ASSUME NEW i \in Indices, NEW v \in Ids PROVE ~SetPanics(i, v)
    <3>1. Fits(v, DirectBits) /\ \A j \in Indices : Fits(Get(j), DirectBits)
      BY EntriesAreIds
    <3> QED
      BY <3>1, Zenon DEF SetPanics
  <2>2. ASSUME NEW v \in Ids, Fill(v) PROVE NeverPanics'
    BY <2>2 DEF Fill, NeverPanics
  <2>3. ASSUME NEW v \in Ids, NEW i \in Indices, Set(i, v) PROVE NeverPanics'
    BY <2>3 DEF Set, SetSame, SetStored, SetNamed, SetPushed, SetSecond, SetWidened,
                      SetInlined, NeverPanics
  <2>4. ASSUME Shrink PROVE NeverPanics'
    BY <2>4, Zenon DEF Shrink, ShrinkToSingle, ShrinkToPalette, NeverPanics
  <2>5. ASSUME UNCHANGED vars PROVE NeverPanics'
    BY <2>5 DEF vars, NeverPanics
  <2> QED
    BY <2>1, <2>2, <2>3, <2>4, <2>5 DEF Next
<1> QED
  BY <1>1, <1>2, NextSound, PTL DEF Spec

-----------------------------------------------------------------------------
(* The words of the storage.                                               *)

Words == CellsRequired(Volume, bits)

\* Storages of the container's volume, at its width.
Storages ==
    [len : {Volume}, bits : {bits}, data : Packings(WordBits, bits, Volume)]

\* What the storage of a container that has one can hold.
LEMMA StorageIs ==
    ASSUME Sound, form # "Single"
    PROVE  /\ WordBits \in Nat \ {0} /\ Scale \in Nat \ {0} /\ Volume \in Nat \ {0}
           /\ bits \in Nat /\ bits \in 1 .. WordBits \div 2
           /\ Volume < Scale \div WordBits
           /\ \A i \in Indices : slots[i] \in 0 .. 2^bits - 1
           /\ Indices = 0 .. Volume - 1
<1>1. bits \in (MinBits .. MaxBits) \cup {DirectBits} /\ bits \in Nat
  BY PalettedContainerAssumption DEF Sound, TypeOK, RepresentationSound
<1>2. Representable(Volume, bits)
  BY <1>1, StorageAssumption
<1>3. 2^bits \in Nat
  BY <1>1, TwoPositive
<1>4. ASSUME NEW i \in Indices
      PROVE  slots[i] \in 0 .. 2^bits - 1
  <2>1. slots[i] \in Nat /\ Len(palette) \in Nat
    BY DEF Sound, TypeOK
  <2>2. CASE form = "Indirect"
    BY <1>3, <2>1, <2>2 DEF Sound, RepresentationSound
  <2>3. CASE form = "Direct"
    BY <1>3, <2>1, <2>3 DEF Sound, RepresentationSound, Fits
  <2> QED
    BY <2>2, <2>3 DEF Sound, TypeOK
<1> QED
  BY <1>1, <1>2, <1>4, PalettedContainerAssumption, BitStorageAssumption DEF Representable, Indices

\* A storage has fewer words than entries, or as many.
LEMMA WordsAreFew ==
    ASSUME Sound, form # "Single"
    PROVE  /\ Words \in Nat /\ Words <= Volume
           /\ Packings(WordBits, bits, Volume) = [0 .. Words - 1 -> 0 .. 2^WordBits - 1]
<1>1. /\ WordBits \in Nat \ {0} /\ bits \in 1 .. WordBits \div 2 /\ Volume \in Nat \ {0}
  BY StorageIs
<1>. DEFINE d == WordBits \div bits
            n == Volume + d - 1
<1>2. d \in Nat \ {0} /\ n \div d \in Nat
  <2>1. 0 \in 0 .. Volume - 1
    BY <1>1
  <2> QED
    BY <1>1, <2>1, EntryPlace
<1>3. Words = n \div d
  BY DEF Words, CellsRequired, PerWord
<1>4. Packings(WordBits, bits, Volume) = [0 .. Words - 1 -> 0 .. 2^WordBits - 1]
  BY <1>3 DEF Packings
<1>. HIDE DEF d
<1>5. n \in Nat
  BY <1>1, <1>2
<1>6. n < (Volume + 1) * d
  <2>1. (Volume + 1) * d = Volume * d + d /\ Volume <= Volume * d /\ Volume * d \in Nat
    BY <1>1, <1>2, SMT
  <2> QED
    BY <1>1, <1>2, <2>1
<1>. HIDE DEF n
<1>7. n \div d < Volume + 1
  BY <1>1, <1>2, <1>5, <1>6, Volume + 1 \in Nat, DivBelow
<1>. DEFINE k == n \div d
<1>. HIDE DEF k
<1>8. k \in Nat /\ k <= Volume
  BY <1>1, <1>2, <1>7 DEF k
<1> QED
  BY <1>3, <1>4, <1>8 DEF k

\* A write into the storage changes the entry it names and no other.
LEMMA BitSetIs ==
    ASSUME Sound, form # "Single", NEW s \in Storages, NEW i \in Indices, NEW v \in 0 .. 2^bits - 1
    PROVE  /\ BitSet(s, i, v) \in Storages
           /\ \A j \in Indices :
                 PackedEntry(WordBits, bits, BitSet(s, i, v).data, j) =
                     IF j = i THEN v ELSE PackedEntry(WordBits, bits, s.data, j)
<1>. DEFINE put == PackedPut(WordBits, bits, s.data, i, v)
<1>1. /\ WordBits \in Nat \ {0} /\ Scale \in Nat \ {0} /\ Volume \in Nat
      /\ bits \in 1 .. WordBits \div 2 /\ Volume < Scale \div WordBits
      /\ i \in 0 .. Volume - 1 /\ Indices = 0 .. Volume - 1
  BY StorageIs
<1>2. s.len = Volume /\ s.bits = bits /\ s.data \in Packings(WordBits, bits, Volume)
  BY DEF Storages
<1>3. /\ put \in Packings(WordBits, bits, Volume)
      /\ \A j \in 0 .. Volume - 1 :
            PackedEntry(WordBits, bits, put, j) =
                IF j = i THEN v ELSE PackedEntry(WordBits, bits, s.data, j)
  BY <1>1, <1>2, PackedPutIs
<1>4. BitSet(s, i, v) = [s EXCEPT !.data = put]
  <2>. DEFINE d == PerWord(bits)
  <2>1. CellOf(s, i) = i \div d
    <3>1. LET e == WordBits \div bits IN (i * ((Scale + e - 1) \div e)) \div Scale = i \div e
      BY <1>1, EntryByReciprocal
    <3>2. CellOf(s, i) = (i * Reciprocal(d)) \div Scale
      BY <1>2 DEF CellOf
    <3> QED
      BY <3>1, <3>2 DEF Reciprocal, PerWord
  <2>2. d \in Nat \ {0}
    BY <1>1, EntryPlace DEF PerWord
  <2>. DEFINE q == i \div d
              r == i % d
  <2>3. q \in Nat /\ r \in 0 .. d - 1 /\ i = q * d + r
    <3>1. i \in Nat
      BY <1>1
    <3>. HIDE DEF d
    <3> QED
      BY <2>2, <3>1, DivModOf
  <2>. HIDE DEF q, r
  <2>4. i - q * d = r
    BY <2>2, <2>3, SMT
  <2>5. Offset(s, i) = (i - q * d) * bits
    BY <1>2, <2>1 DEF Offset, q
  <2>6. Offset(s, i) = (i % d) * bits
    BY <2>4, <2>5 DEF r
  <2>7. put = [s.data EXCEPT ![CellOf(s, i)] =
                  WordWith(s.data[CellOf(s, i)], Offset(s, i), bits, v)]
    BY <2>1, <2>6 DEF PackedPut, PerWord
  <2> QED
    BY <1>2, <2>7 DEF BitSet, WordWith, WordField, Field
<1>. HIDE DEF put
<1>5. [s EXCEPT !.data = put] \in Storages /\ [s EXCEPT !.data = put].data = put
  BY <1>3 DEF Storages
<1> QED
  BY <1>1, <1>3, <1>4, <1>5

\* A new storage is words of zeros.
LEMMA ZeroedIs ==
    ASSUME Sound, form # "Single"
    PROVE  Zeroed(Volume, bits) \in Storages
<1>1. WordBits \in Nat \ {0} /\ bits \in 1 .. WordBits \div 2 /\ Volume \in Nat
  BY StorageIs
<1>2. [cell \in 0 .. Words - 1 |-> 0] \in Packings(WordBits, bits, Volume)
  BY <1>1, PackedZeros DEF Words, CellsRequired, PerWord
<1>3. Zeroed(Volume, bits) = [len |-> Volume, bits |-> bits, data |-> [cell \in 0 .. Words - 1 |-> 0]]
  BY DEF Zeroed, Words
<1> QED
  BY <1>2, <1>3 DEF Storages

\* palette.rs, write_cells: the words that are written hold the slots, each where a
\* walk finds it.
LEMMA PackedIs ==
    ASSUME Sound, form # "Single"
    PROVE  /\ Packed \in Packings(WordBits, bits, Volume)
           /\ \A i \in Indices : PackedEntry(WordBits, bits, Packed, i) = slots[i]
<1>. DEFINE m == Volume
            zeroed == Zeroed(Volume, bits)
            Body(g) == [n \in 0 .. m |-> IF n = 0 THEN zeroed ELSE BitSet(g[n - 1], n - 1, slots[n - 1])]
            after == CHOOSE g : g = Body(g)
            step == [n \in 1 .. m |-> [x \in Storages |-> BitSet(x, n - 1, slots[n - 1])]]
            Entry(x, j) == PackedEntry(WordBits, bits, x.data, j)
<1>1. m \in Nat \ {0} /\ Indices = 0 .. m - 1
  BY StorageIs
<1>2. zeroed \in Storages
  BY ZeroedIs
<1>. HIDE DEF zeroed
<1>3. \A n \in 1 .. m : n - 1 \in Indices /\ n - 1 \in 0 .. m /\ n \in 0 .. m /\ n # 0
  BY <1>1
<1>4. \A n \in 1 .. m : \A x \in Storages :
         /\ BitSet(x, n - 1, slots[n - 1]) \in Storages
         /\ \A j \in Indices :
               Entry(BitSet(x, n - 1, slots[n - 1]), j) = IF j = n - 1 THEN slots[n - 1] ELSE Entry(x, j)
  <2> SUFFICES ASSUME NEW n \in 1 .. m, NEW x \in Storages
               PROVE  /\ BitSet(x, n - 1, slots[n - 1]) \in Storages
                      /\ \A j \in Indices :
                            Entry(BitSet(x, n - 1, slots[n - 1]), j)
                                = IF j = n - 1 THEN slots[n - 1] ELSE Entry(x, j)
    OBVIOUS
  <2>. DEFINE i == n - 1
              v == slots[n - 1]
  <2>1. i \in Indices /\ v \in 0 .. 2^bits - 1
    BY <1>3, StorageIs
  <2>. HIDE DEF i, v
  <2>2. /\ BitSet(x, i, v) \in Storages
        /\ \A j \in Indices : Entry(BitSet(x, i, v), j) = IF j = i THEN v ELSE Entry(x, j)
    BY <2>1, BitSetIs
  <2> QED
    BY <2>2 DEF i, v
<1>. HIDE DEF m, Entry
<1>5. step \in [1 .. m -> [Storages -> Storages]]
  BY <1>4
<1>6. PICK f \in [0 .. m -> Storages] : Computed(f, m, zeroed, step)
  <2>. HIDE DEF step
  <2> QED
    BY <1>1, <1>2, <1>5, Recursion
<1>7. f = Body(f)
  <2>1. \A n \in 0 .. m : f[n] = IF n = 0 THEN zeroed ELSE BitSet(f[n - 1], n - 1, slots[n - 1])
    <3> TAKE n \in 0 .. m
    <3>1. CASE n = 0
      BY <1>6, <3>1 DEF Computed
    <3>2. CASE n \in 1 .. m
      <4>1. f[n] = step[n][f[n - 1]] /\ f[n - 1] \in Storages
        BY <1>3, <1>6, <3>2 DEF Computed
      <4> QED
        BY <1>3, <3>2, <4>1
    <3> QED
      BY <1>1, <3>1, <3>2
  <2> QED
    BY <2>1
<1>8. after = Body(after)
  <2>. HIDE DEF Body
  <2> QED
    BY <1>7
<1>. HIDE DEF after, step
<1>9. after[0] = zeroed /\ \A n \in 1 .. m : after[n] = BitSet(after[n - 1], n - 1, slots[n - 1])
  BY <1>1, <1>3, <1>8
<1>. DEFINE S == {n \in 0 .. m : after[n] \in Storages /\ \A j \in Indices : j < n => Entry(after[n], j) = slots[j]}
<1>10. 0 \in S
  BY <1>1, <1>2, <1>9
<1>11. \A n \in 0 .. m - 1 : n \in S => n + 1 \in S
  <2> SUFFICES ASSUME NEW n \in 0 .. m - 1, n \in S PROVE n + 1 \in S
    OBVIOUS
  <2>1. n + 1 \in 1 .. m /\ n + 1 \in 0 .. m /\ (n + 1) - 1 = n
    BY <1>1
  <2>. DEFINE x == after[n]
  <2>2. x \in Storages /\ \A j \in Indices : j < n => Entry(x, j) = slots[j]
    OBVIOUS
  <2>3. after[n + 1] = BitSet(x, n, slots[n])
    BY <1>9, <2>1
  <2>. HIDE DEF x
  <2>4. /\ BitSet(x, n, slots[n]) \in Storages
        /\ \A j \in Indices : Entry(BitSet(x, n, slots[n]), j) = IF j = n THEN slots[n] ELSE Entry(x, j)
    BY <1>4, <2>1, <2>2
  <2>5. ASSUME NEW j \in Indices, j < n + 1 PROVE Entry(after[n + 1], j) = slots[j]
    <3>1. j = n \/ j < n
      BY <1>1, <2>5
    <3> QED
      BY <2>2, <2>3, <2>4, <3>1
  <2> QED
    BY <2>1, <2>3, <2>4, <2>5
<1>. HIDE DEF S
<1>12. m \in S
  <2>1. \A n \in 0 .. m : n \in S
    BY <1>1, <1>10, <1>11, InductionUpTo
  <2> QED
    BY <1>1, <2>1
<1>13. after[m] \in Storages /\ \A j \in Indices : Entry(after[m], j) = slots[j]
  BY <1>1, <1>12 DEF S
<1>14. Packed = after[m].data
  BY DEF Packed, after, m, zeroed
<1> QED
  BY <1>13, <1>14 DEF Entry, Storages

-----------------------------------------------------------------------------
(* Widths on the wire.                                                     *)

Largest == 2^Width - 1

\* Fields of the wire.
Fields == [value : Nat, width : Nat]

LEMMA VarintFieldIs ==
    ASSUME NEW v \in 0 .. Largest
    PROVE  VarintField(v) \in Fields /\ VarintField(v).value = v /\ VarintField(v).width = VarintLen(v)
           /\ VarintLen(v) \in Nat
<1>0. v \in Unsigned
  BY DEF Largest, Unsigned
<1>1. VarintLen(v) \in 1 .. MaxVarintBytes /\ v \in Nat
  BY <1>0, VarintLenIs, UnsignedType
<1> QED
  BY <1>1 DEF VarintField, Fields

\* The bytes of some fields are the last of the sums of their widths.
LEMMA LengthIs ==
    ASSUME NEW fields \in Seq(Fields)
    PROVE  \E f \in [0 .. Len(fields) -> Nat] :
               /\ f[0] = 0 /\ \A n \in 1 .. Len(fields) : f[n] = f[n - 1] + fields[n].width
               /\ Length(fields) = f[Len(fields)]
<1>. DEFINE m == Len(fields)
            w == [n \in 1 .. m |-> fields[n].width]
            Body(g) == [n \in 0 .. m |-> IF n = 0 THEN 0 ELSE g[n - 1] + fields[n].width]
            sum == CHOOSE g : g = Body(g)
<1>1. m \in Nat /\ \A n \in 1 .. m : fields[n] \in Fields
  BY LenProperties
<1>2. w \in [1 .. m -> Nat] /\ \A n \in 1 .. m : w[n] = fields[n].width
  BY <1>1 DEF Fields
<1>. HIDE DEF m, w
<1>3. PICK f \in [0 .. m -> Nat] : f[0] = 0 /\ \A n \in 1 .. m : f[n] = f[n - 1] + w[n]
  BY <1>1, <1>2, SumsExist
<1>4. \A n \in 0 .. m : n = 0 \/ n \in 1 .. m
  BY <1>1
<1>5. f = Body(f)
  <2>1. \A n \in 0 .. m : f[n] = IF n = 0 THEN 0 ELSE f[n - 1] + fields[n].width
    BY <1>2, <1>3, <1>4
  <2> QED
    BY <2>1
<1>6. sum = Body(sum)
  <2>. HIDE DEF Body
  <2> QED
    BY <1>5
<1>. HIDE DEF sum
<1>7. /\ sum = [n \in 0 .. m |-> sum[n]]
      /\ sum[0] = 0 /\ \A n \in 1 .. m : sum[n] = sum[n - 1] + fields[n].width
  <2>1. 0 \in 0 .. m /\ \A n \in 1 .. m : n \in 0 .. m /\ n # 0
    BY <1>1
  <2> QED
    BY <1>6, <2>1
<1>8. \A n \in 0 .. m : sum[n] \in Nat
  <2>1. \A n \in 1 .. m : sum[n] = sum[n - 1] + w[n]
    BY <1>2, <1>7
  <2> QED
    BY <1>1, <1>2, <1>7, <2>1, SumsAreNatural
<1>9. sum \in [0 .. m -> Nat]
  BY <1>7, <1>8
<1>10. Length(fields) = sum[m]
  BY DEF Length, sum, m
<1> QED
  BY <1>7, <1>9, <1>10 DEF m

\* The same for the ids of a palette, as wire_len adds them up.
LEMMA PaletteWidthIs ==
    ASSUME palette \in Seq(0 .. Largest)
    PROVE  \E f \in [0 .. Len(palette) -> Nat] :
               /\ f[0] = 0 /\ \A n \in 1 .. Len(palette) : f[n] = f[n - 1] + VarintLen(palette[n])
               /\ PaletteWidth = f[Len(palette)]
<1>. DEFINE m == Len(palette)
            w == [n \in 1 .. m |-> VarintLen(palette[n])]
            Body(g) == [n \in 0 .. m |-> IF n = 0 THEN 0 ELSE g[n - 1] + VarintLen(palette[n])]
            sum == CHOOSE g : g = Body(g)
<1>1. m \in Nat /\ \A n \in 1 .. m : palette[n] \in 0 .. Largest
  BY LenProperties
<1>2. w \in [1 .. m -> Nat] /\ \A n \in 1 .. m : w[n] = VarintLen(palette[n])
  BY <1>1, VarintFieldIs
<1>. HIDE DEF m, w
<1>3. PICK f \in [0 .. m -> Nat] : f[0] = 0 /\ \A n \in 1 .. m : f[n] = f[n - 1] + w[n]
  BY <1>1, <1>2, SumsExist
<1>4. \A n \in 0 .. m : n = 0 \/ n \in 1 .. m
  BY <1>1
<1>5. f = Body(f)
  <2>1. \A n \in 0 .. m : f[n] = IF n = 0 THEN 0 ELSE f[n - 1] + VarintLen(palette[n])
    BY <1>2, <1>3, <1>4
  <2> QED
    BY <2>1
<1>6. sum = Body(sum)
  <2>. HIDE DEF Body
  <2> QED
    BY <1>5
<1>. HIDE DEF sum
<1>7. /\ sum = [n \in 0 .. m |-> sum[n]]
      /\ sum[0] = 0 /\ \A n \in 1 .. m : sum[n] = sum[n - 1] + VarintLen(palette[n])
  <2>1. 0 \in 0 .. m /\ \A n \in 1 .. m : n \in 0 .. m /\ n # 0
    BY <1>1
  <2> QED
    BY <1>6, <2>1
<1>8. \A n \in 0 .. m : sum[n] \in Nat
  <2>1. \A n \in 1 .. m : sum[n] = sum[n - 1] + w[n]
    BY <1>2, <1>7
  <2> QED
    BY <1>1, <1>2, <1>7, <2>1, SumsAreNatural
<1>9. sum \in [0 .. m -> Nat]
  BY <1>7, <1>8
<1>10. PaletteWidth = sum[m]
  BY DEF PaletteWidth, sum, m
<1> QED
  BY <1>7, <1>9, <1>10 DEF m

-----------------------------------------------------------------------------
(* The fields of each representation.                                      *)

\* A width is written, and then a number for each of the words, eight bytes wide.
Cell(c) == [value |-> Packed[c - 1], width |-> 8]

LEMMA CellFieldsAre ==
    ASSUME Sound, form # "Single"
    PROVE  /\ Words \in 0 .. Largest /\ Words \in Nat
           /\ CellFields \in Seq(Fields) /\ Len(CellFields) = 1 + Words
           /\ CellFields[1] = VarintField(Words)
           /\ \A c \in 1 .. Words : CellFields[1 + c] = Cell(c) /\ Cell(c) \in Fields
<1>1. Words \in Nat /\ Words <= Volume /\ Volume \in Nat
  BY WordsAreFew, StorageIs
<1>2. Words \in 0 .. Largest
  <2>1. Width \in Nat
    BY VarintAssumption
  <2>2. 2^Width \in Nat
    BY <2>1, TwoPositive
  <2> QED
    BY <1>1, <2>2, WireAssumption DEF Largest
<1>3. Packed \in [0 .. Words - 1 -> Nat]
  <2>1. Packed \in [0 .. Words - 1 -> 0 .. 2^WordBits - 1]
    BY PackedIs, WordsAreFew
  <2>2. 0 .. 2^WordBits - 1 \subseteq Nat
    OBVIOUS
  <2> QED
    BY <2>1, <2>2
<1>4. \A c \in 1 .. Words : Cell(c) \in Fields
  <2> TAKE c \in 1 .. Words
  <2>1. c - 1 \in 0 .. Words - 1
    BY <1>1
  <2> QED
    BY <1>3, <2>1 DEF Cell, Fields
<1>. DEFINE head == <<VarintField(Words)>>
            cells == [c \in 1 .. Words |-> Cell(c)]
<1>5. head \in Seq(Fields) /\ Len(head) = 1 /\ head[1] = VarintField(Words)
  BY <1>2, VarintFieldIs
<1>6. cells \in Seq(Fields) /\ Len(cells) = Words
  BY <1>1, <1>4
<1>7. CellFields = head \o cells
  BY DEF CellFields, Cell, Words
<1>. HIDE DEF head, cells
<1>8. /\ head \o cells \in Seq(Fields) /\ Len(head \o cells) = 1 + Words
      /\ \A n \in 1 .. 1 + Words : (head \o cells)[n] = IF n <= 1 THEN head[n] ELSE cells[n - 1]
  <2>1. head \in Seq(Fields) /\ cells \in Seq(Fields)
    BY <1>5, <1>6
  <2>2. /\ head \o cells \in Seq(Fields) /\ Len(head \o cells) = Len(head) + Len(cells)
        /\ \A n \in 1 .. Len(head) + Len(cells) :
              (head \o cells)[n] = IF n <= Len(head) THEN head[n] ELSE cells[n - Len(head)]
    BY <2>1, ConcatProperties, Zenon
  <2> QED
    BY <1>5, <1>6, <2>2
<1>9. \A c \in 1 .. Words : (head \o cells)[1 + c] = Cell(c)
  <2> TAKE c \in 1 .. Words
  <2>1. 1 + c \in 1 .. 1 + Words /\ ~ (1 + c <= 1) /\ (1 + c) - 1 = c
    BY <1>1
  <2>2. (head \o cells)[1 + c] = cells[c]
    BY <1>8, <2>1
  <2> QED
    BY <2>2 DEF cells
<1>10. (head \o cells)[1] = VarintField(Words)
  <2>1. 1 \in 1 .. 1 + Words
    BY <1>1
  <2> QED
    BY <1>5, <1>8, <2>1
<1> QED
  BY <1>1, <1>2, <1>4, <1>7, <1>8, <1>9, <1>10

\* The fields behind a first part that ends at place n.
Follow(fields, n, cells) ==
    \A c \in 1 .. Len(cells) : fields[n + c] = cells[c]

\* Some fields and then those of the words.
LEMMA FieldsJoined ==
    ASSUME NEW first \in Seq(Fields), NEW second \in Seq(Fields)
    PROVE  /\ first \o second \in Seq(Fields)
           /\ Len(first) \in Nat /\ Len(second) \in Nat
           /\ Len(first \o second) = Len(first) + Len(second)
           /\ \A n \in 1 .. Len(first) : (first \o second)[n] = first[n]
           /\ Follow(first \o second, Len(first), second)
<1>. DEFINE a == Len(first)
            b == Len(second)
            both == first \o second
<1>1. a \in Nat /\ b \in Nat
  BY LenProperties
<1>2. /\ both \in Seq(Fields) /\ Len(both) = a + b
      /\ \A n \in 1 .. a + b : both[n] = IF n <= a THEN first[n] ELSE second[n - a]
  BY ConcatProperties, Zenon
<1>. HIDE DEF a, b, both
<1>3. \A n \in 1 .. a : both[n] = first[n]
  <2> TAKE n \in 1 .. a
  <2>1. n \in 1 .. a + b /\ n <= a
    BY <1>1
  <2> QED
    BY <1>2, <2>1
<1>4. \A c \in 1 .. b : both[a + c] = second[c]
  <2> TAKE c \in 1 .. b
  <2>1. a + c \in 1 .. a + b /\ ~ (a + c <= a) /\ (a + c) - a = c
    BY <1>1
  <2>2. both[a + c] = second[(a + c) - a]
    BY <1>2, <2>1
  <2> QED
    BY <2>1, <2>2
<1> QED
  BY <1>1, <1>2, <1>3, <1>4 DEF Follow, a, b, both

\* Where the words are, in what is written: behind n fields, and nothing follows.
EndsInCells(fields, n) ==
    /\ fields \in Seq(Fields) /\ n \in Nat /\ Words \in Nat
    /\ Len(fields) = n + 1 + Words
    /\ fields[n + 1] = VarintField(Words)
    /\ \A c \in 1 .. Words : fields[n + 1 + c] = Cell(c)

LEMMA CellsFollow ==
    ASSUME Sound, form # "Single", NEW first \in Seq(Fields)
    PROVE  EndsInCells(first \o CellFields, Len(first))
<1>. DEFINE a == Len(first)
            both == first \o CellFields
<1>1. /\ Words \in Nat /\ CellFields \in Seq(Fields) /\ Len(CellFields) = 1 + Words
      /\ CellFields[1] = VarintField(Words)
      /\ \A c \in 1 .. Words : CellFields[1 + c] = Cell(c)
  BY CellFieldsAre
<1>2. /\ both \in Seq(Fields) /\ a \in Nat /\ Len(both) = a + (1 + Words)
      /\ \A c \in 1 .. 1 + Words : both[a + c] = CellFields[c]
  <2>1. /\ both \in Seq(Fields) /\ a \in Nat /\ Len(both) = a + Len(CellFields)
        /\ Follow(both, a, CellFields)
    BY <1>1, FieldsJoined, Zenon
  <2>. HIDE DEF a, both
  <2>2. \A c \in 1 .. Len(CellFields) : both[a + c] = CellFields[c]
    BY <2>1, Zenon DEF Follow
  <2> QED
    BY <1>1, <2>1, <2>2, Zenon
<1>. HIDE DEF a, both
<1>3. both[a + 1] = VarintField(Words)
  <2>1. 1 \in 1 .. 1 + Words
    BY <1>1
  <2> QED
    BY <1>1, <1>2, <2>1
<1>4. \A c \in 1 .. Words : both[a + 1 + c] = Cell(c)
  <2> TAKE c \in 1 .. Words
  <2>1. 1 + c \in 1 .. 1 + Words /\ a + 1 + c = a + (1 + c)
    BY <1>1, <1>2
  <2> QED
    BY <1>1, <1>2, <2>1
<1>5. Len(both) = a + 1 + Words
  BY <1>1, <1>2
<1> QED
  BY <1>1, <1>2, <1>3, <1>4, <1>5 DEF EndsInCells, a, both

\* Ids and the length of a palette fit a varint.
LEMMA NumbersFit ==
    ASSUME Sound
    PROVE  /\ palette \in Seq(0 .. Largest)
           /\ form = "Indirect" => Len(palette) \in 0 .. Largest
           /\ bits \in Nat
<1>1. palette \in Seq(0 .. Largest)
  BY WireAssumption, SeqMonotonic DEF Sound, TypeOK, Largest, Unsigned
<1>2. ASSUME form = "Indirect"
      PROVE  Len(palette) \in 0 .. Largest
  <2>1. Len(palette) \in Nat /\ Len(palette) <= 2^bits /\ bits <= MaxBits /\ bits \in Nat /\ MaxBits \in Nat
    BY <1>2, PalettedContainerAssumption DEF Sound, TypeOK, RepresentationSound
  <2>2. 2^bits <= 2^MaxBits /\ 2^bits \in Nat /\ 2^MaxBits \in Nat
    BY <2>1, TwoMonotone, TwoPositive
  <2>3. Width \in Nat
    BY VarintAssumption
  <2>4. 2^Width \in Nat /\ 2^MaxBits < 2^Width
    BY <2>3, TwoPositive, WireAssumption
  <2> QED
    BY <2>1, <2>2, <2>4 DEF Largest
<1> QED
  BY <1>1, <1>2 DEF Sound, TypeOK

LEMMA ByteIsField ==
    ASSUME NEW v \in Nat
    PROVE  ByteField(v) \in Fields /\ ByteField(v).value = v /\ ByteField(v).width = 1
BY DEF ByteField, Fields

\* palette.rs, write, with a palette: its width, its length, the ids, the words.
LEMMA IndirectWritten ==
    ASSUME Sound, form = "Indirect"
    PROVE  /\ EndsInCells(Written, 2 + Len(palette)) /\ Len(palette) \in Nat
           /\ Written[1] = ByteField(bits) /\ Written[2] = VarintField(Len(palette))
           /\ \A n \in 1 .. Len(palette) : Written[2 + n] = VarintField(palette[n])
<1>. DEFINE P == Len(palette)
            start == <<ByteField(bits), VarintField(P)>>
            ids == [n \in DOMAIN palette |-> VarintField(palette[n])]
            first == start \o ids
<1>1. /\ P \in 0 .. Largest /\ P \in Nat /\ bits \in Nat /\ DOMAIN palette = 1 .. P
      /\ \A n \in 1 .. P : palette[n] \in 0 .. Largest
  BY NumbersFit, LenProperties
<1>2. start \in Seq(Fields) /\ Len(start) = 2 /\ start[1] = ByteField(bits) /\ start[2] = VarintField(P)
  BY <1>1, VarintFieldIs, ByteIsField
<1>3. ids \in Seq(Fields) /\ Len(ids) = P /\ \A n \in 1 .. P : ids[n] = VarintField(palette[n])
  <2>1. \A n \in 1 .. P : VarintField(palette[n]) \in Fields
    BY <1>1, VarintFieldIs
  <2>. HIDE DEF P
  <2> QED
    BY <1>1, <2>1
<1>4. /\ first \in Seq(Fields) /\ Len(first) = 2 + P
      /\ \A n \in 1 .. 2 : first[n] = start[n]
      /\ \A n \in 1 .. P : first[2 + n] = ids[n]
  <2>. HIDE DEF start, ids, P
  <2>1. start \in Seq(Fields) /\ ids \in Seq(Fields)
    BY <1>2, <1>3
  <2>2. /\ first \in Seq(Fields) /\ Len(first) = Len(start) + Len(ids)
        /\ \A n \in 1 .. Len(start) : first[n] = start[n]
        /\ \A c \in 1 .. Len(ids) : first[Len(start) + c] = ids[c]
    BY <2>1, FieldsJoined, Zenon DEF Follow
  <2>. HIDE DEF first
  <2> QED
    BY <1>2, <1>3, <2>2
<1>5. Written = first \o CellFields
  BY DEF Written
<1>. HIDE DEF P, start, ids, first
<1>6. EndsInCells(Written, 2 + P)
  BY <1>4, <1>5, CellsFollow
<1>7. \A n \in 1 .. 2 + P : Written[n] = first[n]
  BY <1>4, <1>5, CellFieldsAre, FieldsJoined
<1>8. Written[1] = ByteField(bits) /\ Written[2] = VarintField(P)
  <2>1. 1 \in 1 .. 2 + P /\ 2 \in 1 .. 2 + P /\ 1 \in 1 .. 2 /\ 2 \in 1 .. 2
    BY <1>1
  <2> QED
    BY <1>2, <1>4, <1>7, <2>1
<1>9. \A n \in 1 .. P : Written[2 + n] = VarintField(palette[n])
  <2> TAKE n \in 1 .. P
  <2>1. 2 + n \in 1 .. 2 + P
    BY <1>1
  <2> QED
    BY <1>3, <1>4, <1>7, <2>1
<1> QED
  BY <1>1, <1>6, <1>8, <1>9 DEF P

\* palette.rs, write, of a direct storage: its width and the words.
LEMMA DirectWritten ==
    ASSUME Sound, form = "Direct"
    PROVE  EndsInCells(Written, 1) /\ Written[1] = ByteField(bits)
<1>. DEFINE first == <<ByteField(bits)>>
<1>1. bits \in Nat
  BY NumbersFit
<1>2. first \in Seq(Fields) /\ Len(first) = 1 /\ first[1] = ByteField(bits)
  BY <1>1, ByteIsField
<1>3. Written = first \o CellFields
  BY DEF Written
<1>. HIDE DEF first
<1>4. EndsInCells(Written, 1)
  BY <1>2, <1>3, CellsFollow
<1>5. \A n \in 1 .. 1 : Written[n] = first[n]
  BY <1>2, <1>3, CellFieldsAre, FieldsJoined
<1> QED
  BY <1>2, <1>4, <1>5

\* Of one id: no width, the id, no words.
LEMMA SingleWritten ==
    ASSUME Sound, form = "Single"
    PROVE  /\ Written \in Seq(Fields) /\ Len(Written) = 3
           /\ Written[1] = ByteField(0) /\ Written[2] = VarintField(palette[1]) /\ Written[3] = VarintField(0)
           /\ palette[1] \in 0 .. Largest /\ 0 \in 0 .. Largest
<1>1. palette[1] \in 0 .. Largest
  <2>1. palette \in Seq(0 .. Largest) /\ Len(palette) = 1
    BY NumbersFit DEF Sound, RepresentationSound
  <2>2. 1 \in 1 .. Len(palette)
    BY <2>1
  <2> QED
    BY <2>1, <2>2, ElementOfSeq
<1>2. 0 \in 0 .. Largest
  <2>1. Largest \in Int
    BY VarintAssumption, TwoPositive DEF Largest
  <2> QED
    BY <1>1, <2>1
<1>3. ByteField(0) \in Fields /\ VarintField(palette[1]) \in Fields /\ VarintField(0) \in Fields
  BY <1>1, <1>2, ByteIsField, VarintFieldIs
<1> QED
  BY <1>1, <1>2, <1>3 DEF Written

-----------------------------------------------------------------------------
(* wire_len is the length of what write produces.                          *)

\* The sums of the widths of some fields.
Sums(f, fields) ==
    /\ f \in [0 .. Len(fields) -> Nat]
    /\ f[0] = 0 /\ \A n \in 1 .. Len(fields) : f[n] = f[n - 1] + fields[n].width

\* The words add their varint and eight bytes for each.
LEMMA CellsAdd ==
    ASSUME NEW fields, NEW n, EndsInCells(fields, n), Words \in 0 .. Largest,
           NEW f, Sums(f, fields)
    PROVE  f[Len(fields)] = f[n] + CellsWidth
<1>1. n \in Nat /\ Words \in Nat /\ Len(fields) = n + 1 + Words
  BY DEF EndsInCells
<1>2. \A k \in 0 .. n + 1 + Words : f[k] \in Nat
  BY <1>1 DEF Sums
<1>3. \A k \in 1 .. n + 1 + Words : f[k] = f[k - 1] + fields[k].width
  BY <1>1 DEF Sums
<1>4. f[n + 1] = f[n] + VarintLen(Words)
  <2>1. n + 1 \in 1 .. n + 1 + Words /\ (n + 1) - 1 = n
    BY <1>1
  <2>2. fields[n + 1].width = VarintLen(Words)
    BY DEF EndsInCells, VarintField
  <2> QED
    BY <1>3, <2>1, <2>2
<1>. DEFINE S == {c \in 0 .. Words : f[n + 1 + c] = f[n + 1] + 8 * c}
<1>5. 0 \in S
  <2>1. 0 \in 0 .. Words /\ n + 1 + 0 = n + 1 /\ n + 1 \in 0 .. n + 1 + Words
    BY <1>1
  <2> QED
    BY <1>2, <2>1
<1>6. \A c \in 0 .. Words - 1 : c \in S => c + 1 \in S
  <2> SUFFICES ASSUME NEW c \in 0 .. Words - 1, c \in S PROVE c + 1 \in S
    OBVIOUS
  <2>1. /\ c + 1 \in 1 .. Words /\ c + 1 \in 0 .. Words
        /\ n + 1 + (c + 1) \in 1 .. n + 1 + Words /\ (n + 1 + (c + 1)) - 1 = n + 1 + c
        /\ n + 1 \in 0 .. n + 1 + Words
    BY <1>1
  <2>2. fields[n + 1 + (c + 1)].width = 8
    <3>1. fields[n + 1 + (c + 1)] = Cell(c + 1)
      BY <2>1 DEF EndsInCells
    <3> QED
      BY <3>1 DEF Cell
  <2>3. f[n + 1 + (c + 1)] = f[n + 1 + c] + 8
    BY <1>3, <2>1, <2>2
  <2>4. f[n + 1 + c] = f[n + 1] + 8 * c
    OBVIOUS
  <2>5. f[n + 1 + (c + 1)] = f[n + 1] + 8 * (c + 1)
    <3>. DEFINE x == f[n + 1]
    <3>1. x \in Nat /\ f[n + 1 + (c + 1)] = (x + 8 * c) + 8
      BY <1>2, <2>1, <2>3, <2>4
    <3>. HIDE DEF x
    <3>2. (x + 8 * c) + 8 = x + 8 * (c + 1)
      BY <1>1, <3>1
    <3> QED
      BY <3>1, <3>2 DEF x
  <2> QED
    BY <2>1, <2>5
<1>. HIDE DEF S
<1>7. Words \in S
  <2>1. \A c \in 0 .. Words : c \in S
    BY <1>1, <1>5, <1>6, InductionUpTo
  <2> QED
    BY <1>1, <2>1
<1>8. f[Len(fields)] = f[n + 1] + 8 * Words
  BY <1>1, <1>7 DEF S
<1>9. VarintLen(Words) \in Int /\ f[n] \in Nat
  <2>1. n \in 0 .. n + 1 + Words /\ n + 1 \in 1 .. n + 1 + Words /\ n + 1 \in 0 .. n + 1 + Words
    BY <1>1
  <2>2. f[n] \in Nat /\ f[n + 1] \in Nat
    BY <1>2, <2>1
  <2> QED
    BY <2>2, VarintFieldIs
<1>10. CellsWidth = VarintLen(Words) + 8 * Words
  BY DEF CellsWidth, Words
<1> QED
  BY <1>1, <1>4, <1>8, <1>9, <1>10

\* Length is the last of the sums.
LEMMA LengthSums ==
    ASSUME NEW fields \in Seq(Fields)
    PROVE  \E f : Sums(f, fields) /\ Length(fields) = f[Len(fields)]
BY LengthIs DEF Sums

LEMMA LengthOfIndirect ==
    ASSUME Sound, form = "Indirect"
    PROVE  Length(Written) = WireLen
<1>. DEFINE P == Len(palette)
<1>1. /\ EndsInCells(Written, 2 + P) /\ P \in Nat
      /\ Written[1] = ByteField(bits) /\ Written[2] = VarintField(P)
      /\ \A n \in 1 .. P : Written[2 + n] = VarintField(palette[n])
  BY IndirectWritten
<1>2. /\ Written \in Seq(Fields) /\ Len(Written) = 2 + P + 1 + Words /\ Words \in Nat
      /\ Words \in 0 .. Largest
  BY <1>1, CellFieldsAre DEF EndsInCells
<1>3. PICK f : Sums(f, Written) /\ Length(Written) = f[Len(Written)]
  BY <1>2, LengthSums
<1>4. palette \in Seq(0 .. Largest) /\ P \in 0 .. Largest
  BY NumbersFit
<1>5. PICK g \in [0 .. P -> Nat] :
         /\ g[0] = 0 /\ \A n \in 1 .. P : g[n] = g[n - 1] + VarintLen(palette[n])
         /\ PaletteWidth = g[P]
  BY <1>4, PaletteWidthIs
<1>6. Length(Written) = f[2 + P] + CellsWidth
  <2>. DEFINE n == 2 + P
              fields == Written
  <2>1. EndsInCells(fields, n) /\ Sums(f, fields) /\ Length(fields) = f[Len(fields)]
    BY <1>1, <1>3, Zenon
  <2>. HIDE DEF n, fields
  <2>2. f[Len(fields)] = f[n] + CellsWidth
    BY <1>2, <2>1, CellsAdd, ZenonT(30)
  <2> QED
    BY <2>1, <2>2, Zenon DEF n, fields
<1>. HIDE DEF P
<1>7. /\ \A n \in 0 .. 2 + P + 1 + Words : f[n] \in Nat
      /\ f[0] = 0 /\ \A n \in 1 .. 2 + P + 1 + Words : f[n] = f[n - 1] + Written[n].width
  BY <1>2, <1>3 DEF Sums
<1>8. VarintLen(P) \in Nat
  BY <1>4, VarintFieldIs
<1>9. f[2] = 1 + VarintLen(P)
  <2>1. 1 \in 1 .. 2 + P + 1 + Words /\ 2 \in 1 .. 2 + P + 1 + Words /\ 1 - 1 = 0 /\ 2 - 1 = 1
    BY <1>1, <1>2
  <2>2. Written[1].width = 1 /\ Written[2].width = VarintLen(P)
    BY <1>1 DEF ByteField, VarintField
  <2>3. f[1] = f[0] + 1 /\ f[2] = f[1] + VarintLen(P)
    BY <1>7, <2>1, <2>2
  <2> QED
    BY <1>7, <1>8, <2>3
<1>. DEFINE S == {n \in 0 .. P : f[2 + n] = f[2] + g[n]}
<1>10. 0 \in S
  <2>1. 0 \in 0 .. P /\ 2 + 0 = 2
    BY <1>1
  <2> QED
    BY <1>5, <1>8, <1>9, <2>1
<1>11. \A n \in 0 .. P - 1 : n \in S => n + 1 \in S
  <2> SUFFICES ASSUME NEW n \in 0 .. P - 1, n \in S PROVE n + 1 \in S
    OBVIOUS
  <2>1. /\ n + 1 \in 1 .. P /\ n + 1 \in 0 .. P /\ n \in 0 .. P /\ (n + 1) - 1 = n
        /\ 2 + (n + 1) \in 1 .. 2 + P + 1 + Words /\ (2 + (n + 1)) - 1 = 2 + n
    BY <1>1, <1>2
  <2>2. Written[2 + (n + 1)].width = VarintLen(palette[n + 1])
    <3>. DEFINE k == n + 1
    <3>1. k \in 1 .. P
      BY <2>1
    <3>. HIDE DEF k
    <3>2. Written[2 + k] = VarintField(palette[k])
      BY <1>1, <3>1
    <3>3. Written[2 + k].width = VarintLen(palette[k])
      BY <3>2 DEF VarintField
    <3> QED
      BY <3>3 DEF k
  <2>3. f[2 + (n + 1)] = f[2 + n] + VarintLen(palette[n + 1])
    BY <1>7, <2>1, <2>2
  <2>4. g[n + 1] = g[n] + VarintLen(palette[n + 1])
    BY <1>5, <2>1
  <2>5. VarintLen(palette[n + 1]) \in Nat
    <3>1. palette[n + 1] \in 0 .. Largest
      BY <1>4, <2>1, ElementOfSeq DEF P
    <3> QED
      BY <3>1, VarintFieldIs
  <2>6. g[n] \in Nat /\ f[2] \in Nat
    BY <1>5, <1>8, <1>9, <2>1
  <2> QED
    BY <2>1, <2>3, <2>4, <2>5, <2>6
<1>. HIDE DEF S
<1>12. f[2 + P] = f[2] + g[P]
  <2>1. \A n \in 0 .. P : n \in S
    BY <1>1, <1>10, <1>11, InductionUpTo
  <2>2. P \in S
    BY <1>1, <2>1
  <2> QED
    BY <2>2 DEF S
<1>13. WireLen = 1 + VarintLen(P) + PaletteWidth + CellsWidth
  BY DEF WireLen, P
<1> QED
  BY <1>5, <1>6, <1>9, <1>12, <1>13

LEMMA LengthOfDirect ==
    ASSUME Sound, form = "Direct"
    PROVE  Length(Written) = WireLen
<1>1. EndsInCells(Written, 1) /\ Written[1] = ByteField(bits)
  BY DirectWritten
<1>2. /\ Written \in Seq(Fields) /\ Len(Written) = 1 + 1 + Words /\ Words \in Nat
      /\ Words \in 0 .. Largest
  BY <1>1, CellFieldsAre DEF EndsInCells
<1>3. PICK f : Sums(f, Written) /\ Length(Written) = f[Len(Written)]
  BY <1>2, LengthSums
<1>4. Length(Written) = f[1] + CellsWidth
  BY <1>1, <1>2, <1>3, CellsAdd
<1>5. f[1] = 1
  <2>1. 1 \in 1 .. Len(Written) /\ 1 - 1 = 0
    BY <1>2
  <2>2. f[1] = f[0] + 1 /\ f[0] = 0
    BY <1>1, <1>3, <2>1 DEF Sums, ByteField
  <2> QED
    BY <2>2
<1>6. WireLen = 1 + CellsWidth
  BY DEF WireLen
<1> QED
  BY <1>4, <1>5, <1>6

LEMMA LengthOfSingle ==
    ASSUME Sound, form = "Single"
    PROVE  Length(Written) = WireLen
<1>1. /\ Written \in Seq(Fields) /\ Len(Written) = 3
      /\ Written[1] = ByteField(0) /\ Written[2] = VarintField(palette[1]) /\ Written[3] = VarintField(0)
      /\ palette[1] \in 0 .. Largest /\ 0 \in 0 .. Largest
  BY SingleWritten
<1>2. PICK f : Sums(f, Written) /\ Length(Written) = f[Len(Written)]
  BY <1>1, LengthSums
<1>3. f[0] = 0 /\ f[1] = f[0] + 1 /\ f[2] = f[1] + VarintLen(palette[1]) /\ f[3] = f[2] + 1
  <2>1. \A n \in 1 .. 3 : f[n] = f[n - 1] + Written[n].width
    BY <1>1, <1>2 DEF Sums
  <2>2. f[1] = f[0] + Written[1].width /\ f[2] = f[1] + Written[2].width /\ f[3] = f[2] + Written[3].width
    <3>1. f[1] = f[1 - 1] + Written[1].width
      BY <2>1
    <3>2. f[2] = f[2 - 1] + Written[2].width
      BY <2>1
    <3>3. f[3] = f[3 - 1] + Written[3].width
      BY <2>1
    <3> QED
      BY <3>1, <3>2, <3>3
  <2>3. Written[1].width = 1 /\ Written[2].width = VarintLen(palette[1]) /\ Written[3].width = 1
    BY <1>1, ZeroIs DEF ByteField, VarintField
  <2> QED
    BY <1>2, <2>2, <2>3 DEF Sums
<1>4. VarintLen(palette[1]) \in Nat
  BY <1>1, VarintFieldIs
<1>5. WireLen = 1 + VarintLen(palette[1]) + 1
  BY DEF WireLen
<1> QED
  BY <1>1, <1>2, <1>3, <1>4, <1>5

-----------------------------------------------------------------------------
(* A client reads the content back.                                        *)

\* The storage a client takes from the fields from place k on.
StorageAt(fields, k, width) ==
    [len |-> Volume, bits |-> width,
     data |-> [cell \in 0 .. fields[k].value - 1 |-> fields[k + 1 + cell].value]]

LEMMA EntriesReadBack ==
    ASSUME Sound, form # "Single", NEW fields, NEW n, EndsInCells(fields, n), NEW k, k = n + 1
    PROVE  BitEntries(StorageAt(fields, k, bits)) = slots
<1>. DEFINE data == [cell \in 0 .. fields[k].value - 1 |-> fields[k + 1 + cell].value]
            d == PerWord(bits)
<1>1. n \in Nat /\ Words \in Nat /\ fields[k] = VarintField(Words)
  BY DEF EndsInCells
<1>2. fields[k].value = Words
  BY <1>1 DEF VarintField
<1>3. ASSUME NEW cell \in 0 .. Words - 1
      PROVE  fields[k + 1 + cell].value = Packed[cell]
  <2>. DEFINE c == cell + 1
  <2>1. c \in 1 .. Words /\ k + 1 + cell = n + 1 + c /\ c - 1 = cell
    BY <1>1
  <2>. HIDE DEF c
  <2>2. fields[n + 1 + c] = Cell(c)
    BY <2>1 DEF EndsInCells
  <2> QED
    BY <2>1, <2>2 DEF Cell
<1>4. /\ Packed \in [0 .. Words - 1 -> 0 .. 2^WordBits - 1]
      /\ \A i \in Indices : PackedEntry(WordBits, bits, Packed, i) = slots[i]
  <2>1. Packings(WordBits, bits, Volume) = [0 .. Words - 1 -> 0 .. 2^WordBits - 1]
    BY WordsAreFew
  <2>2. Packed \in Packings(WordBits, bits, Volume)
    BY PackedIs
  <2>3. \A i \in Indices : PackedEntry(WordBits, bits, Packed, i) = slots[i]
    BY PackedIs
  <2> QED
    BY <2>1, <2>2, <2>3
<1>5. data = Packed
  <2>1. data = [cell \in 0 .. Words - 1 |-> Packed[cell]]
    BY <1>2, <1>3
  <2> QED
    BY <1>4, <2>1
<1>. DEFINE s == [len |-> Volume, bits |-> bits, data |-> data]
<1>6. StorageAt(fields, k, bits) = s
  BY DEF StorageAt
<1>. HIDE DEF data
<1>7. BitEntries(s) = [i \in 0 .. Volume - 1 |-> Field(data[i \div d], (i % d) * bits, bits)]
  BY DEF BitEntries
<1>8. \A i \in 0 .. Volume - 1 : Field(data[i \div d], (i % d) * bits, bits) = slots[i]
  <2> TAKE i \in 0 .. Volume - 1
  <2>1. PackedEntry(WordBits, bits, data, i) = slots[i]
    BY <1>4, <1>5 DEF Indices
  <2>2. PackedEntry(WordBits, bits, data, i) = WordField(data[i \div d], (i % d) * bits, bits)
    BY DEF PackedEntry, PerWord
  <2> QED
    BY <2>1, <2>2 DEF WordField, Field
<1>. HIDE DEF s, d
<1>9. slots = [i \in 0 .. Volume - 1 |-> slots[i]]
  BY DEF Sound, TypeOK, Indices
<1> QED
  BY <1>6, <1>7, <1>8, <1>9

LEMMA SingleReadBack ==
    ASSUME Sound, form = "Single"
    PROVE  ReadBack(Written) = Content
<1>1. Written[1] = ByteField(0) /\ Written[2] = VarintField(palette[1])
  BY SingleWritten
<1>2. Written[1].value = 0 /\ Written[2].value = palette[1]
  BY <1>1 DEF ByteField, VarintField
<1>3. ReadBack(Written) = [i \in Indices |-> palette[1]]
  <2>1. ReadBack(Written) = [i \in Indices |-> Written[2].value]
    BY <1>2 DEF ReadBack
  <2> QED
    BY <1>2, <2>1
<1>4. \A i \in Indices : Get(i) = palette[1]
  BY DEF Get, Sound, RepresentationSound
<1> QED
  BY <1>3, <1>4 DEF Content

LEMMA IndirectReadBack ==
    ASSUME Sound, form = "Indirect"
    PROVE  ReadBack(Written) = Content
<1>. DEFINE P == Len(palette)
<1>1. /\ EndsInCells(Written, 2 + P) /\ P \in Nat
      /\ Written[1] = ByteField(bits) /\ Written[2] = VarintField(P)
      /\ \A n \in 1 .. P : Written[2 + n] = VarintField(palette[n])
  BY IndirectWritten
<1>2. Written[1].value = bits /\ Written[2].value = P
  BY <1>1 DEF ByteField, VarintField
<1>3. bits \in 1 .. MaxBits /\ bits # 0
  BY PalettedContainerAssumption DEF Sound, TypeOK, RepresentationSound
<1>4. \A i \in Indices : slots[i] \in Nat /\ slots[i] < P
  BY DEF Sound, TypeOK, RepresentationSound
<1>. HIDE DEF P
<1>5. ReadBack(Written) =
          [i \in Indices |-> Written[3 + BitEntries(StorageAt(Written, 3 + P, bits))[i]].value]
  BY <1>2, <1>3 DEF ReadBack, StorageAt
<1>6. BitEntries(StorageAt(Written, 3 + P, bits)) = slots
  <2>1. 3 + P = (2 + P) + 1
    BY <1>1
  <2> QED
    BY <1>1, <2>1, EntriesReadBack
<1>7. ReadBack(Written) = [i \in Indices |-> Written[3 + slots[i]].value]
  BY <1>5, <1>6
<1>8. \A i \in Indices : Written[3 + slots[i]].value = Get(i)
  <2> TAKE i \in Indices
  <2>. DEFINE n == slots[i] + 1
  <2>1. n \in 1 .. P /\ 3 + slots[i] = 2 + n
    BY <1>1, <1>4
  <2>2. Get(i) = palette[n]
    BY DEF Get
  <2>. HIDE DEF n
  <2>3. Written[2 + n].value = palette[n]
    <3>1. Written[2 + n] = VarintField(palette[n])
      BY <1>1, <2>1
    <3> QED
      BY <3>1 DEF VarintField
  <2> QED
    BY <2>1, <2>2, <2>3
<1> QED
  BY <1>7, <1>8 DEF Content

LEMMA DirectReadBack ==
    ASSUME Sound, form = "Direct", MaxBits < DirectBits
    PROVE  ReadBack(Written) = Content
<1>1. EndsInCells(Written, 1) /\ Written[1] = ByteField(bits)
  BY DirectWritten
<1>2. Written[1].value = DirectBits /\ bits = DirectBits
  BY <1>1 DEF ByteField, Sound, RepresentationSound
<1>3. DirectBits # 0 /\ ~ (DirectBits \in 1 .. MaxBits)
  BY PalettedContainerAssumption
<1>4. ReadBack(Written) = BitEntries(StorageAt(Written, 2, DirectBits))
  BY <1>2, <1>3 DEF ReadBack, StorageAt
<1>5. BitEntries(StorageAt(Written, 2, bits)) = slots
  BY <1>1, 2 = 1 + 1, EntriesReadBack
<1>6. Content = slots
  <2>1. Content = [i \in Indices |-> slots[i]]
    BY DEF Content, Get
  <2> QED
    BY <2>1 DEF Sound, TypeOK
<1> QED
  BY <1>2, <1>4, <1>5, <1>6

\* palette.rs: wire_len, which is computed without writing, is the length of what
\* write produces, and a client that reads it back has the content, whatever
\* history of writes, fills and shrinks led to it and whatever the representation.
THEOREM WireIsFaithful == Spec => []WireFaithful
<1>1. ASSUME Sound PROVE WireFaithful
  <2>1. form \in {"Single", "Indirect", "Direct"}
    BY <1>1 DEF Sound, TypeOK
  <2>2. Length(Written) = WireLen
    BY <1>1, <2>1, LengthOfSingle, LengthOfIndirect, LengthOfDirect
  <2>3. MaxBits < DirectBits => ReadBack(Written) = Content
    BY <1>1, <2>1, SingleReadBack, IndirectReadBack, DirectReadBack
  <2> QED
    BY <2>2, <2>3 DEF WireFaithful
<1> QED
  BY <1>1, InitSound, NextSound, PTL DEF Spec
=============================================================================
