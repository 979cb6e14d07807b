-------------------------- MODULE NbtReader_proofs --------------------------
(***************************************************************************)
(* The recursion of read_payload is bounded for every input and every      *)
(* limit.  Only the two actions that open a list or a compound make the    *)
(* stack higher, and they are behind the check of the depth; the rest      *)
(* change what is on the stack, or take from it.                           *)
(*                                                                         *)
(* And what is read stays well formed: the wire is the rest of the input,  *)
(* every frame of the stack is an open list or compound, and names come    *)
(* from decode_modified_utf8, which returns only characters.  That last    *)
(* part is an induction over the places of a string, from its end.         *)
(*                                                                         *)
(* Strings come back: of each one the longest beginning that its length    *)
(* can announce is written, and that is what the reader gets.  Each        *)
(* character's code decodes to it; the codes lie where the sums of the     *)
(* lengths say (an induction from the front), so the string decodes to     *)
(* itself (an induction from the end).  A tag that holds a string is then  *)
(* read in three steps, none of which can fail.                            *)
(***************************************************************************)
EXTENDS NbtReader, Arithmetic, SequenceTheorems

\* A sequence of anything: what a list or compound holds nests without end,
\* and no set of frames is needed for the bound.
IsStack(s) == \E S : s \in Seq(S)

\* The strengthening of DepthBounded: where entries are read, a compound is open.
IInv ==
    /\ IsStack(stack)
    /\ at = "entries" => stack # <<>>
    /\ Len(stack) <= MaxDepth + 1

\* Opening a list or a compound makes the stack higher by one.
LEMMA Opened ==
    ASSUME NEW s, IsStack(s), NEW open
    PROVE  IsStack(Append(s, open)) /\ Len(Append(s, open)) = Len(s) + 1 /\ Append(s, open) # <<>>
<1>1. PICK S : s \in Seq(S)
  BY DEF IsStack
<1>2. s \in Seq(S \cup {open}) /\ open \in S \cup {open}
  BY <1>1, SeqMonotonic
<1>3. /\ Append(s, open) \in Seq(S \cup {open})
      /\ Len(Append(s, open)) = Len(s) + 1
  BY <1>2, AppendProperties
<1>4. Len(s) \in Nat
  BY <1>1, LenProperties
<1>5. Append(s, open) # <<>>
  BY <1>3, <1>4
<1> QED
  BY <1>3, <1>5 DEF IsStack

\* Changing what is on the stack does not change its height.
LEMMA Changed ==
    ASSUME NEW s, IsStack(s), NEW t, t = [n \in DOMAIN s |-> t[n]]
    PROVE  IsStack(t) /\ Len(t) = Len(s) /\ (s # <<>> => t # <<>>)
<1>1. PICK S : s \in Seq(S)
  BY DEF IsStack
<1>2. Len(s) \in Nat /\ DOMAIN s = 1 .. Len(s)
  BY <1>1, LenProperties
<1>. DEFINE T == {t[n] : n \in 1 .. Len(s)}
<1>3. t \in [1 .. Len(s) -> T]
  BY <1>2
<1>4. t \in Seq(T)
  BY <1>2, <1>3, SeqDef
<1>5. Len(t) = Len(s)
  BY <1>2, <1>3, <1>4, LenProperties
<1>6. s # <<>> => t # <<>>
  BY <1>1, <1>4, <1>5, EmptySeq, SMT
<1> QED
  BY <1>4, <1>5, <1>6 DEF IsStack

\* Closing the innermost list or compound makes it lower by one.
LEMMA Closed ==
    ASSUME NEW s, IsStack(s), s # <<>>
    PROVE  IsStack(Front(s)) /\ Len(Front(s)) = Len(s) - 1
<1>1. PICK S : s \in Seq(S)
  BY DEF IsStack
<1>2. Len(s) \in Nat /\ Len(s) > 0
  BY <1>1, LenProperties, EmptySeq
<1>3. 1 \in Int /\ Len(s) - 1 \in Int /\ \A n \in 1 .. Len(s) - 1 : s[n] \in S
  BY <1>1, <1>2, ElementOfSeq
<1>. DEFINE shorter == SubSeq(s, 1, Len(s) - 1)
<1>4. /\ shorter \in Seq(S)
      /\ Len(shorter) = IF 1 <= Len(s) - 1 THEN (Len(s) - 1) - 1 + 1 ELSE 0
  BY <1>3, SubSeqProperties
<1>5. CASE Len(s) = 1
  BY <1>4, <1>5 DEF IsStack, Front
<1>6. CASE Len(s) # 1
  <2>1. 1 <= Len(s) - 1 /\ (Len(s) - 1) - 1 + 1 = Len(s) - 1
    BY <1>2, <1>6, SMT
  <2> QED
    BY <1>4, <2>1, Zenon DEF IsStack, Front
<1> QED
  BY <1>5, <1>6

\* Every action keeps the strengthening.
LEMMA DepthStep ==
    ASSUME IInv, [Next]_vars
    PROVE  IInv'
<1>0. MaxDepth \in Nat /\ Len(stack) \in Nat
  BY NbtReaderAssumption, LenProperties DEF IInv, IsStack
<1>1. CASE UNCHANGED stack /\ at' # "entries"
  BY <1>1 DEF IInv
<1>2. ASSUME ~TooDeep, NEW open, stack' = Append(stack, open)
      PROVE  IInv'
  BY <1>0, <1>2, Opened DEF IInv, TooDeep
<1>3. ASSUME stack # <<>>, stack' = [n \in DOMAIN stack |-> stack'[n]]
      PROVE  IInv'
  BY <1>3, Changed DEF IInv
<1>4. ASSUME stack # <<>>, stack' = Front(stack), at' # "entries"
      PROVE  IInv'
  BY <1>0, <1>4, Closed DEF IInv
<1>5. CASE ReadRoot
  BY <1>1, <1>5 DEF ReadRoot
<1>6. CASE ReadFixed \/ ReadArray \/ ReadString \/ ReadEmptyList
  BY <1>1, <1>6 DEF ReadFixed, ReadArray, ReadString, ReadEmptyList, Returns
<1>7. CASE OpenList
  BY <1>2, <1>7 DEF OpenList, Payload
<1>8. CASE OpenCompound
  BY <1>2, <1>8 DEF OpenCompound, Payload
<1>9. CASE ReadEntry
  BY <1>3, <1>9 DEF ReadEntry, IInv
<1>10. CASE CloseCompound
  BY <1>4, <1>10 DEF CloseCompound, IInv
<1>11. CASE DeliverRoot
  BY <1>1, <1>11 DEF DeliverRoot
<1>12. CASE DeliverElement
  BY <1>3, <1>12 DEF DeliverElement
<1>13. CASE CloseList
  BY <1>4, <1>13 DEF CloseList
<1>14. CASE DeliverEntry
  BY <1>3, <1>14 DEF DeliverEntry
<1>15. CASE FailsRoot \/ FailsDeep \/ FailsPayload \/ FailsEntry
  BY <1>1, <1>15 DEF FailsRoot, FailsDeep, FailsPayload, FailsEntry, Fails
<1>16. CASE UNCHANGED vars
  BY <1>16 DEF vars, IInv
<1> QED
  BY <1>5, <1>6, <1>7, <1>8, <1>9, <1>10, <1>11, <1>12, <1>13, <1>14, <1>15, <1>16 DEF Next

\* nbt.rs:31, MAX_DEPTH: for every limit and every input, read_payload is never
\* more than one level past the limit.
THEOREM DepthIsBounded == Spec => []DepthBounded
<1>1. Init => IInv
  <2> SUFFICES ASSUME Init PROVE IInv
    OBVIOUS
  <2>1. stack = <<>> /\ at = "root" /\ <<>> \in Seq({}) /\ Len(<<>>) = 0
    BY EmptySeq DEF Init
  <2> QED
    BY <2>1, NbtReaderAssumption DEF IInv, IsStack
<1>2. IInv /\ [Next]_vars => IInv'
  BY DepthStep
<1>3. IInv => DepthBounded
  BY DEF IInv, DepthBounded
<1> QED
  BY <1>1, <1>2, <1>3, PTL DEF Spec

-----------------------------------------------------------------------------
(* Strings: what decodes is made of characters.                            *)

Scalars == {cp \in Int : IsScalar(cp)}

LEMMA SurrogatesAre ==
    /\ High \in Nat /\ Low \in Nat /\ AfterLow \in Nat
    /\ 2048 <= High /\ Low = High + 1024 /\ AfterLow = Low + 1024 /\ AfterLow <= Beyond
    /\ Beyond = 65536 /\ MaxChar \in Nat /\ MaxChar = Beyond + 1024 * 1024 - 1
BY SMT DEF High, Low, AfterLow, Beyond, MaxChar

LEMMA ScalarIs ==
    ASSUME NEW x \in Int
    PROVE  IsScalar(x) <=> (0 <= x /\ x < High) \/ (AfterLow <= x /\ x <= MaxChar)
BY SurrogatesAre DEF IsScalar

\* What a pair of surrogates stands for, and that neither stands for itself.
LEMMA PairIsScalar ==
    ASSUME NEW a \in High .. Low - 1, NEW b \in Low .. AfterLow - 1
    PROVE  Beyond + (a - High) * 1024 + b - Low \in Scalars /\ ~ IsScalar(a)
<1>. DEFINE x == Beyond + (a - High) * 1024 + b - Low
<1>1. x \in Int /\ Beyond <= x /\ x <= MaxChar
  BY SurrogatesAre
<1>2. ~ IsScalar(a)
  BY ScalarIs, SurrogatesAre
<1>. HIDE DEF x
<1>3. IsScalar(x)
  BY <1>1, ScalarIs, SurrogatesAre
<1> QED
  BY <1>1, <1>2, <1>3 DEF x, Scalars

\* The first bits of a byte say how many it announces.
LEMMA FirstBits ==
    ASSUME NEW x \in Int
    PROVE  /\ x \in 0 .. 127 => 0 <= x /\ x <= 127 /\ x \div 32 # 6 /\ x \div 16 # 14
           /\ x \div 32 = 6 => x \div 16 # 14
           /\ x % 32 \in Int /\ 0 <= x % 32 /\ x % 32 <= 31
           /\ x % 64 \in Int /\ 0 <= x % 64 /\ x % 64 <= 63
OBVIOUS

\* A character that decodes is one, and takes no more bytes than there are.
LEMMA CharAtIs ==
    ASSUME NEW bytes \in Seq(Int), NEW i \in 1 .. Len(bytes), CharAt(bytes, i) # Bad
    PROVE  /\ CharAt(bytes, i).char \in Scalars
           /\ CharAt(bytes, i).used \in Nat \ {0}
           /\ i + CharAt(bytes, i).used <= Len(bytes) + 1
<1>. DEFINE m == Len(bytes)
            p1 == bytes[i] \in 0 .. 127
            p2 == bytes[i] \div 32 = 6 /\ Continues(bytes, i + 1)
            p3 == IsUnit(bytes, i) /\ IsScalar(Unit(bytes, i))
            p4 == IsPair(bytes, i)
            c2 == (bytes[i] % 32) * 64 + (bytes[i + 1] % 64)
            c4 == Beyond + (Unit(bytes, i) - High) * 1024 + Unit(bytes, i + 3) - Low
            e1 == [used |-> 1, char |-> bytes[i]]
            e2 == [used |-> 2, char |-> c2]
            e3 == [used |-> 3, char |-> Unit(bytes, i)]
            e4 == [used |-> 6, char |-> c4]
<1>1. CharAt(bytes, i) = CASE p1 -> e1 [] p2 -> e2 [] p3 -> e3 [] p4 -> e4 [] OTHER -> Bad
  BY DEF CharAt
<1>2. m \in Nat /\ i \in 1 .. m /\ \A n \in 1 .. m : bytes[n] \in Int
  BY LenProperties
<1>3. IsUnit(bytes, i) => bytes[i] \div 16 = 14
  BY DEF IsUnit
<1>4. p4 => /\ IsUnit(bytes, i) /\ IsUnit(bytes, i + 3)
            /\ Unit(bytes, i) \in High .. Low - 1 /\ Unit(bytes, i + 3) \in Low .. AfterLow - 1
  BY DEF IsPair
<1>5. p4 => ~p3 /\ c4 \in Scalars
  BY <1>4, PairIsScalar
<1>6. p1 => ~p2 /\ ~p3 /\ ~p4
  BY <1>2, <1>3, <1>4, FirstBits
<1>7. p2 => ~p3 /\ ~p4
  BY <1>2, <1>3, <1>4, FirstBits
<1>8. Continues(bytes, i + 1) => i + 1 <= m
  BY DEF Continues
<1>9. ASSUME NEW n \in Int, IsUnit(bytes, n) PROVE n + 2 <= m
  BY <1>9 DEF IsUnit, Continues
<1>10. p1 => bytes[i] \in Scalars
  <2> SUFFICES ASSUME p1 PROVE bytes[i] \in Scalars
    OBVIOUS
  <2>. DEFINE x == bytes[i]
  <2>1. x \in Int /\ 0 <= x /\ x <= 127
    BY <1>2, FirstBits
  <2>. HIDE DEF x
  <2>2. IsScalar(x)
    BY <2>1, ScalarIs, SurrogatesAre
  <2> QED
    BY <2>1, <2>2 DEF x, Scalars
<1>11. p2 => c2 \in Scalars
  <2> SUFFICES ASSUME p2 PROVE c2 \in Scalars
    OBVIOUS
  <2>1. bytes[i] \in Int /\ bytes[i + 1] \in Int
    BY <1>2, <1>8
  <2>. DEFINE x == bytes[i] % 32
              y == bytes[i + 1] % 64
  <2>2. x \in Int /\ 0 <= x /\ x <= 31 /\ y \in Int /\ 0 <= y /\ y <= 63
    BY <2>1, FirstBits
  <2>. HIDE DEF x, y
  <2>3. x * 64 + y \in Int /\ 0 <= x * 64 + y /\ x * 64 + y < 2048
    BY <2>2
  <2>4. IsScalar(x * 64 + y)
    BY <2>3, ScalarIs, SurrogatesAre
  <2> QED
    BY <2>3, <2>4 DEF x, y, Scalars
<1>12. p3 => Unit(bytes, i) \in Scalars
  <2> SUFFICES ASSUME p3 PROVE Unit(bytes, i) \in Scalars
    OBVIOUS
  <2>1. Unit(bytes, i) \in Int
    BY SurrogatesAre DEF IsScalar
  <2> QED
    BY <2>1 DEF Scalars
<1>13. p3 => i + 2 <= m
  BY <1>2, <1>9
<1>14. p4 => i + 5 <= m
  <2> SUFFICES ASSUME p4 PROVE i + 5 <= m
    OBVIOUS
  <2>1. i + 3 \in Int /\ i + 3 + 2 = i + 5
    BY <1>2
  <2>2. i + 3 + 2 <= m
    BY <1>4, <1>9, <2>1
  <2> QED
    BY <2>1, <2>2
<1>. HIDE DEF m, p1, p2, p3, p4, c2, c4
<1>15. CharAt(bytes, i) = IF p1 THEN e1 ELSE IF p2 THEN e2 ELSE IF p3 THEN e3 ELSE IF p4 THEN e4 ELSE Bad
  <2>. HIDE DEF e1, e2, e3, e4
  <2> QED
    BY <1>1, <1>5, <1>6, <1>7
<1>16. CASE p1
  BY <1>2, <1>10, <1>15, <1>16 DEF m
<1>17. CASE ~p1 /\ p2
  <2>1. i + 1 <= m
    BY <1>8, <1>17 DEF p2
  <2> QED
    BY <1>2, <1>11, <1>15, <1>17, <2>1 DEF m
<1>18. CASE ~p1 /\ ~p2 /\ p3
  BY <1>2, <1>12, <1>13, <1>15, <1>18 DEF m
<1>19. CASE ~p1 /\ ~p2 /\ ~p3 /\ p4
  BY <1>2, <1>5, <1>14, <1>15, <1>19 DEF m
<1> QED
  BY <1>15, <1>16, <1>17, <1>18, <1>19

\* A string that decodes is a sequence of characters.
Strings == [ok : BOOLEAN, chars : Seq(Scalars)]

\* What decode_modified_utf8 makes of the bytes from each place on.
DecodesFrom(bytes, from) ==
    LET m == Len(bytes)
    IN  /\ from[m + 1] = [ok |-> TRUE, chars |-> <<>>]
        /\ \A i \in 1 .. m :
              LET c == CharAt(bytes, i)
              IN  from[i] = IF c = Bad THEN [ok |-> FALSE, chars |-> <<>>]
                            ELSE [ok |-> from[i + c.used].ok,
                                  chars |-> <<c.char>> \o from[i + c.used].chars]

\* The recursion is well founded: it defines such a function.
LEMMA DecodedFrom ==
    ASSUME NEW bytes \in Seq(Int)
    PROVE  \E from \in [1 .. Len(bytes) + 1 -> Strings] :
              Decoded(bytes) = from[1] /\ DecodesFrom(bytes, from)
<1>. DEFINE m == Len(bytes)
            used(i) == CharAt(bytes, i).used
            Value(g, i) ==
                IF i > m THEN [ok |-> TRUE, chars |-> <<>>]
                ELSE LET c == CharAt(bytes, i)
                         rest == g[i + c.used]
                     IN  IF c = Bad THEN [ok |-> FALSE, chars |-> <<>>]
                         ELSE [ok |-> rest.ok, chars |-> <<c.char>> \o rest.chars]
            Body(g) == [i \in 1 .. m + 1 |-> Value(g, i)]
            from == CHOOSE g : g = Body(g)
            Reads(i) == i <= m /\ CharAt(bytes, i) # Bad
<1>1. m \in Nat
  BY LenProperties
<1>2. \A i \in 1 .. m + 1 :
         Reads(i) => used(i) \in Nat \ {0} /\ i + used(i) <= m + 1 /\ CharAt(bytes, i).char \in Scalars
  <2> SUFFICES ASSUME NEW i \in 1 .. m + 1, Reads(i)
               PROVE  used(i) \in Nat \ {0} /\ i + used(i) <= m + 1 /\ CharAt(bytes, i).char \in Scalars
    OBVIOUS
  <2>1. i \in 1 .. Len(bytes)
    BY <1>1
  <2> QED
    BY <2>1, CharAtIs
<1>3. ASSUME NEW g, NEW i \in 1 .. m + 1, Reads(i) => g[i + used(i)] \in Strings
      PROVE  Value(g, i) \in Strings
  <2>1. <<>> \in Seq(Scalars)
    BY EmptySeq
  <2>2. CASE ~Reads(i)
    <3>1. Value(g, i) = [ok |-> TRUE, chars |-> <<>>] \/ Value(g, i) = [ok |-> FALSE, chars |-> <<>>]
      BY <1>1, <2>2
    <3> QED
      BY <2>1, <3>1 DEF Strings
  <2>3. CASE Reads(i)
    <3>. DEFINE rest == g[i + used(i)]
                char == CharAt(bytes, i).char
    <3>1. Value(g, i) = [ok |-> rest.ok, chars |-> <<char>> \o rest.chars]
      BY <1>1, <2>3
    <3>2. rest \in Strings /\ char \in Scalars
      BY <1>2, <1>3, <2>3
    <3>. HIDE DEF rest, char
    <3>3. rest.ok \in BOOLEAN /\ rest.chars \in Seq(Scalars) /\ <<char>> \in Seq(Scalars)
      BY <3>2 DEF Strings
    <3>4. <<char>> \o rest.chars \in Seq(Scalars)
      BY <3>3, ConcatProperties
    <3> QED
      BY <3>1, <3>3, <3>4 DEF Strings
  <2> QED
    BY <2>2, <2>3
<1>4. ASSUME NEW g, NEW h, NEW i \in 1 .. m + 1, Reads(i) => g[i + used(i)] = h[i + used(i)]
      PROVE  Value(g, i) = Value(h, i)
  <2>1. CASE ~Reads(i)
    BY <1>1, <2>1
  <2>2. CASE Reads(i)
    BY <1>1, <1>4, <2>2
  <2> QED
    BY <2>1, <2>2
<1>. HIDE DEF m, Value, Reads, used
<1>. DEFINE Places(k) == m + 1 - k .. m + 1
            Right(g, k) == \A i \in Places(k) : g[i] = Value(g, i)
            K == {k \in 0 .. m : \E g \in [Places(k) -> Strings] : Right(g, k)}
<1>5. \A k \in 0 .. m : \A i \in Places(k) : i \in 1 .. m + 1
  BY <1>1
<1>6. \A k \in 0 .. m : \A i \in Places(k) : Reads(i) => i + used(i) \in Places(k) /\ i + used(i) > i
  BY <1>1, <1>2, <1>5
<1>7. ~ Reads(m + 1)
  BY <1>1 DEF Reads
<1>8. 0 \in K
  <2>. DEFINE g == [i \in Places(0) |-> Value(<<>>, m + 1)]
  <2>1. Places(0) = {m + 1} /\ m + 1 \in 1 .. m + 1
    BY <1>1
  <2>2. Value(<<>>, m + 1) \in Strings
    BY <1>3, <1>7, <2>1
  <2>3. g \in [Places(0) -> Strings]
    BY <2>2
  <2>. HIDE DEF g
  <2>4. Value(g, m + 1) = Value(<<>>, m + 1)
    BY <1>4, <1>7, <2>1
  <2>5. Right(g, 0)
    <3>1. g[m + 1] = Value(<<>>, m + 1)
      BY <2>1 DEF g
    <3> QED
      BY <2>1, <2>4, <3>1
  <2> QED
    BY <1>1, <2>3, <2>5
<1>9. \A k \in 0 .. m - 1 : k \in K => k + 1 \in K
  <2> SUFFICES ASSUME NEW k \in 0 .. m - 1, k \in K PROVE k + 1 \in K
    OBVIOUS
  <2>1. PICK g \in [Places(k) -> Strings] : Right(g, k)
    OBVIOUS
  <2>. DEFINE n == m - k
              h == [i \in Places(k + 1) |-> IF i = n THEN Value(g, n) ELSE g[i]]
  <2>2. /\ k + 1 \in 0 .. m /\ k \in 0 .. m /\ n \in 1 .. m + 1 /\ n \in Places(k + 1)
        /\ \A i \in Places(k + 1) : i # n => i \in Places(k)
        /\ \A i \in Places(k) : i # n /\ i \in Places(k + 1)
        /\ \A i \in Places(k + 1) : \A j \in Places(k + 1) : j > i => j \in Places(k)
    BY <1>1
  <2>3. \A i \in Places(k + 1) : Reads(i) => i + used(i) \in Places(k)
    BY <1>6, <2>2
  <2>4. Value(g, n) \in Strings
    BY <1>3, <2>2, <2>3
  <2>. HIDE DEF n, Places
  <2>5. h \in [Places(k + 1) -> Strings]
    BY <2>2, <2>4
  <2>6. \A i \in Places(k) : h[i] = g[i]
    BY <2>2
  <2>7. ASSUME NEW i \in Places(k + 1) PROVE h[i] = Value(h, i)
    <3>1. h[i] = Value(g, i)
      <4>1. CASE i = n
        BY <2>2, <4>1
      <4>2. CASE i # n
        BY <2>1, <2>2, <4>2
      <4> QED
        BY <4>1, <4>2
    <3>. HIDE DEF h
    <3>2. Reads(i) => g[i + used(i)] = h[i + used(i)]
      BY <2>3, <2>6
    <3>3. i \in 1 .. m + 1
      BY <1>5, <2>2
    <3>4. Value(g, i) = Value(h, i)
      BY <1>4, <3>2, <3>3
    <3> QED
      BY <3>1, <3>4
  <2>. HIDE DEF h
  <2> QED
    BY <2>2, <2>5, <2>7
<1>. HIDE DEF K
<1>10. m \in K
  <2>1. \A k \in 0 .. m : k \in K
    BY <1>1, <1>8, <1>9, InductionUpTo
  <2> QED
    BY <1>1, <2>1
<1>11. from = Body(from)
  <2>1. PICK g \in [Places(m) -> Strings] : Right(g, m)
    BY <1>10 DEF K
  <2>2. Places(m) = 1 .. m + 1
    BY <1>1
  <2>3. g = Body(g)
    BY <2>1, <2>2
  <2>. HIDE DEF Body
  <2> QED
    BY <2>3
<1>. HIDE DEF from
<1>12. \A i \in 1 .. m + 1 : from[i] = Value(from, i)
  BY <1>11
<1>. DEFINE T == {k \in 0 .. m : \A i \in Places(k) : from[i] \in Strings}
<1>13. 0 \in T
  <2>1. Places(0) = {m + 1} /\ m + 1 \in 1 .. m + 1
    BY <1>1
  <2>2. from[m + 1] \in Strings
    BY <1>3, <1>7, <1>12, <2>1
  <2> QED
    BY <1>1, <2>1, <2>2
<1>14. \A k \in 0 .. m - 1 : k \in T => k + 1 \in T
  <2> SUFFICES ASSUME NEW k \in 0 .. m - 1, k \in T PROVE k + 1 \in T
    OBVIOUS
  <2>. DEFINE n == m - k
  <2>1. /\ k + 1 \in 0 .. m /\ n \in 1 .. m + 1 /\ n \in Places(k + 1)
        /\ \A i \in Places(k + 1) : i # n => i \in Places(k)
        /\ \A j \in Places(k + 1) : j > n => j \in Places(k)
    BY <1>1
  <2>2. Reads(n) => n + used(n) \in Places(k)
    BY <1>6, <2>1
  <2>3. \A i \in Places(k) : from[i] \in Strings
    OBVIOUS
  <2>. HIDE DEF n, Places
  <2>4. Value(from, n) \in Strings
    BY <1>3, <2>1, <2>2, <2>3
  <2>5. \A i \in Places(k + 1) : from[i] \in Strings
    BY <1>12, <2>1, <2>3, <2>4
  <2> QED
    BY <2>1, <2>5
<1>. HIDE DEF T
<1>15. \A i \in 1 .. m + 1 : from[i] \in Strings
  <2>1. \A k \in 0 .. m : k \in T
    BY <1>1, <1>13, <1>14, InductionUpTo
  <2>2. m \in T /\ Places(m) = 1 .. m + 1
    BY <1>1, <2>1
  <2> QED
    BY <2>2 DEF T
<1>16. Decoded(bytes) = from[1]
  BY DEF Decoded, from, Value, m
<1>17. from \in [1 .. m + 1 -> Strings]
  <2>1. from = [i \in 1 .. m + 1 |-> from[i]]
    BY <1>11
  <2>. HIDE DEF from
  <2> QED
    BY <1>15, <2>1
<1>18. DecodesFrom(bytes, from)
  <2>. DEFINE c(i) == CharAt(bytes, i)
              read(i) == IF c(i) = Bad THEN [ok |-> FALSE, chars |-> <<>>]
                         ELSE [ok |-> from[i + c(i).used].ok,
                               chars |-> <<c(i).char>> \o from[i + c(i).used].chars]
  <2>1. m + 1 \in 1 .. m + 1 /\ m + 1 > m
    BY <1>1
  <2>2. from[m + 1] = [ok |-> TRUE, chars |-> <<>>]
    BY <1>12, <2>1 DEF Value
  <2>3. ASSUME NEW i \in 1 .. m PROVE from[i] = read(i)
    <3>1. i \in 1 .. m + 1 /\ ~ (i > m)
      BY <1>1
    <3> QED
      BY <1>12, <3>1 DEF Value
  <2> QED
    BY <2>2, <2>3 DEF DecodesFrom, m
<1> QED
  BY <1>16, <1>17, <1>18 DEF m

LEMMA DecodedIs ==
    ASSUME NEW bytes \in Seq(Int)
    PROVE  Decoded(bytes) \in Strings
<1>1. Len(bytes) \in Nat /\ 1 \in 1 .. Len(bytes) + 1
  BY LenProperties
<1> QED
  BY <1>1, DecodedFrom

-----------------------------------------------------------------------------
(* What is left of the input.                                              *)

IsRest(w, s) == \E n \in 0 .. Len(s) : w = SubSeq(s, n + 1, Len(s))

\* The rest of a sequence from a place on.
LEMMA RestIs ==
    ASSUME NEW s \in Seq(Int), NEW k \in 1 .. Len(s) + 1
    PROVE  /\ SubSeq(s, k, Len(s)) \in Seq(Int)
           /\ Len(SubSeq(s, k, Len(s))) = Len(s) + 1 - k
           /\ \A i \in 1 .. Len(s) + 1 - k : SubSeq(s, k, Len(s))[i] = s[k + i - 1]
<1>. DEFINE m == Len(s)
            rest == SubSeq(s, k, m)
<1>1. m \in Nat /\ k \in Int /\ m \in Int /\ \A i \in k .. m : s[i] \in Int
  BY LenProperties, ElementOfSeq
<1>2. /\ rest \in Seq(Int)
      /\ Len(rest) = IF k <= m THEN m - k + 1 ELSE 0
      /\ \A i \in 1 .. m - k + 1 : rest[i] = s[k + i - 1]
  <2>. HIDE DEF m
  <2>1. rest \in Seq(Int)
    BY <1>1, SubSeqProperties
  <2>2. Len(rest) = IF k <= m THEN m - k + 1 ELSE 0
    BY <1>1, SubSeqProperties
  <2>3. \A i \in 1 .. m - k + 1 : rest[i] = s[k + i - 1]
    BY <1>1, SubSeqProperties
  <2> QED
    BY <2>1, <2>2, <2>3
<1>. HIDE DEF m, rest
<1>3. Len(rest) = m + 1 - k
  BY <1>1, <1>2 DEF m
<1>4. \A i \in 1 .. m + 1 - k : rest[i] = s[k + i - 1]
  BY <1>1, <1>2
<1> QED
  BY <1>2, <1>3, <1>4 DEF m, rest

\* The rest of what is left is left.
LEMMA SuffixCut ==
    ASSUME NEW s \in Seq(Int), NEW w, IsRest(w, s), NEW k \in 1 .. Len(w) + 1
    PROVE  w \in Seq(Int) /\ Len(w) \in Nat /\ IsRest(SubSeq(w, k, Len(w)), s)
<1>. DEFINE m == Len(s)
<1>1. m \in Nat
  BY LenProperties
<1>2. PICK n \in 0 .. m : w = SubSeq(s, n + 1, m)
  BY DEF IsRest
<1>3. /\ w \in Seq(Int) /\ Len(w) = m - n
      /\ \A i \in 1 .. m - n : w[i] = s[n + i]
  <2>1. n + 1 \in 1 .. m + 1 /\ m + 1 - (n + 1) = m - n
    BY <1>1
  <2>2. \A i \in 1 .. m - n : (n + 1) + i - 1 = n + i
    BY <1>1
  <2>. DEFINE j == n + 1
  <2>3. j \in 1 .. m + 1 /\ m + 1 - j = m - n /\ w = SubSeq(s, j, m)
    BY <1>2, <2>1
  <2>4. \A i \in 1 .. m - n : j + i - 1 = n + i
    BY <2>2
  <2>. HIDE DEF j
  <2>5. w \in Seq(Int) /\ Len(w) = m + 1 - j /\ \A i \in 1 .. m + 1 - j : w[i] = s[j + i - 1]
    BY <2>3, RestIs
  <2> QED
    BY <2>3, <2>4, <2>5
<1>. DEFINE n2 == n + k - 1
            r == SubSeq(w, k, Len(w))
            t == SubSeq(s, n2 + 1, m)
<1>4. Len(w) \in Nat /\ n2 \in 0 .. m /\ n2 + 1 \in 1 .. m + 1
  BY <1>1, <1>3
<1>5. /\ r \in Seq(Int) /\ Len(r) = Len(w) + 1 - k
      /\ \A i \in 1 .. Len(w) + 1 - k : r[i] = w[k + i - 1]
  BY <1>3, RestIs
<1>6. /\ t \in Seq(Int) /\ Len(t) = m + 1 - (n2 + 1)
      /\ \A i \in 1 .. m + 1 - (n2 + 1) : t[i] = s[(n2 + 1) + i - 1]
  BY <1>4, RestIs
<1>. HIDE DEF m, r, t
<1>7. Len(r) = Len(t) /\ Len(r) \in Nat
  BY <1>1, <1>3, <1>5, <1>6
<1>8. \A i \in 1 .. Len(r) : r[i] = t[i]
  <2> TAKE i \in 1 .. Len(r)
  <2>1. /\ i \in 1 .. Len(w) + 1 - k /\ k + i - 1 \in 1 .. m - n
        /\ i \in 1 .. m + 1 - (n2 + 1) /\ n + (k + i - 1) = (n2 + 1) + i - 1
    BY <1>1, <1>3, <1>5, <1>6, <1>7
  <2>2. r[i] = s[n + (k + i - 1)]
    BY <1>3, <1>5, <2>1
  <2> QED
    BY <1>6, <2>1, <2>2
<1>9. r = t
  BY <1>5, <1>6, <1>7, <1>8, SeqEqual
<1> QED
  BY <1>3, <1>4, <1>9 DEF IsRest, m, r, t

\* Reading one field leaves the rest.
LEMMA SuffixTail ==
    ASSUME NEW s \in Seq(Int), NEW w, IsRest(w, s), w # <<>>
    PROVE  w \in Seq(Int) /\ Head(w) \in Int /\ IsRest(Tail(w), s)
<1>1. w \in Seq(Int) /\ Len(w) \in Nat
  <2>1. 1 \in 1 .. Len(w) + 1
    <3>1. PICK n \in 0 .. Len(s) : w = SubSeq(s, n + 1, Len(s))
      BY DEF IsRest
    <3>2. n + 1 \in 1 .. Len(s) + 1
      BY LenProperties
    <3>3. w \in Seq(Int)
      BY <3>1, <3>2, RestIs
    <3>4. Len(w) \in Nat
      BY <3>3, LenProperties
    <3> QED
      BY <3>4
  <2> QED
    BY <2>1, SuffixCut
<1>2. Len(w) # 0 /\ Head(w) \in Int /\ Tail(w) = SubSeq(w, 2, Len(w))
  BY <1>1, EmptySeq, HeadTailProperties, TailIsSubSeq
<1>3. 2 \in 1 .. Len(w) + 1
  BY <1>1, <1>2
<1> QED
  BY <1>1, <1>2, <1>3, SuffixCut

\* A string that is there is made of characters, and what is behind it is left.
LEMMA StringLeaves ==
    ASSUME NEW s \in Seq(Int), NEW w, IsRest(w, s), StringThere(w)
    PROVE  StringAt(w) \in Seq(Scalars) /\ IsRest(AfterCounted(w), s)
<1>1. w \in Seq(Int) /\ Head(w) \in Int
  BY SuffixTail DEF StringThere
<1>2. Len(w) \in Nat /\ Head(w) \in 0 .. Len(w) - 1
  BY <1>1, LenProperties DEF StringThere
<1>. DEFINE bytes == SubSeq(w, 2, 1 + Head(w))
<1>3. bytes \in Seq(Int)
  <2>1. 2 \in Int /\ 1 + Head(w) \in Int /\ \A i \in 2 .. 1 + Head(w) : i \in 1 .. Len(w)
    BY <1>2
  <2>2. \A i \in 2 .. 1 + Head(w) : w[i] \in Int
    BY <1>1, <2>1, ElementOfSeq
  <2> QED
    BY <2>1, <2>2, SubSeqProperties
<1>4. StringAt(w) \in Seq(Scalars)
  <2>. HIDE DEF bytes
  <2>1. Decoded(bytes).chars \in Seq(Scalars)
    BY <1>3, DecodedIs DEF Strings
  <2> QED
    BY <2>1 DEF StringAt, bytes
<1>5. 2 + Head(w) \in 1 .. Len(w) + 1
  BY <1>2
<1> QED
  BY <1>4, <1>5, SuffixCut DEF AfterCounted

-----------------------------------------------------------------------------
(* What is open.                                                           *)

\* Every name once.
Unique(entries) ==
    \A i, j \in DOMAIN entries : entries[i].name = entries[j].name => i = j

\* Lists and compounds that are open; what they hold is in H.
Frames(H) ==
    [of : {TagList, TagCompound}, element : Int, left : Int, name : Seq(Scalars), held : H,
     room : Int]

Waits(open) ==
    /\ open.of = TagList => open.left \in 1 .. MaxArrayLen
    /\ open.of = TagCompound => IsStack(open.held) /\ Unique(open.held)

Stacked(s) == \E H : s \in Seq(Frames(H)) /\ \A n \in 1 .. Len(s) : Waits(s[n])

LEMMA FramesGrow ==
    ASSUME NEW H, NEW J, H \subseteq J
    PROVE  Frames(H) \subseteq Frames(J)
BY DEF Frames

\* The innermost.
LEMMA LastIs ==
    ASSUME NEW s, Stacked(s), s # <<>>
    PROVE  /\ Len(s) \in Nat \ {0} /\ Last(s) = s[Len(s)]
           /\ Last(s) \in Frames({Last(s).held}) /\ Waits(Last(s))
<1>1. PICK H : s \in Seq(Frames(H)) /\ \A n \in 1 .. Len(s) : Waits(s[n])
  BY DEF Stacked
<1>2. Len(s) \in Nat \ {0}
  BY <1>1, EmptySeq
<1>3. Len(s) \in 1 .. Len(s)
  BY <1>2
<1>4. s[Len(s)] \in Frames(H) /\ Waits(s[Len(s)])
  BY <1>1, <1>3, ElementOfSeq
<1>5. Last(s) = s[Len(s)]
  BY DEF Last
<1>. DEFINE open == s[Len(s)]
<1>. HIDE DEF open
<1>6. open \in Frames({open.held})
  <2>1. open \in Frames(H)
    BY <1>4 DEF open
  <2> QED
    BY <2>1 DEF Frames
<1> QED
  BY <1>2, <1>4, <1>5, <1>6 DEF open

LEMMA StackedAppend ==
    ASSUME NEW s, Stacked(s), NEW h, NEW open \in Frames({h}), Waits(open)
    PROVE  Stacked(Append(s, open))
<1>1. PICK H : s \in Seq(Frames(H)) /\ \A n \in 1 .. Len(s) : Waits(s[n])
  BY DEF Stacked
<1>. DEFINE J == Frames(H \cup {h})
            t == Append(s, open)
<1>2. Frames(H) \subseteq J /\ Frames({h}) \subseteq J
  BY FramesGrow
<1>. HIDE DEF J
<1>3. s \in Seq(J) /\ open \in J
  BY <1>1, <1>2, SeqMonotonic
<1>4. /\ t \in Seq(J) /\ Len(t) = Len(s) + 1 /\ Len(s) \in Nat
      /\ \A n \in 1 .. Len(s) : t[n] = s[n]
      /\ t[Len(s) + 1] = open
  BY <1>3, AppendProperties, LenProperties
<1>. HIDE DEF t
<1>5. \A n \in 1 .. Len(t) : Waits(t[n])
  <2> TAKE n \in 1 .. Len(t)
  <2>1. n \in 1 .. Len(s) \/ n = Len(s) + 1
    BY <1>4
  <2> QED
    BY <1>1, <1>4, <2>1
<1> QED
  BY <1>4, <1>5 DEF Stacked, J, t

LEMMA StackedChanged ==
    ASSUME NEW s, Stacked(s), s # <<>>, NEW h, NEW open \in Frames({h}), Waits(open)
    PROVE  Stacked([s EXCEPT ![Len(s)] = open])
<1>1. PICK H : s \in Seq(Frames(H)) /\ \A n \in 1 .. Len(s) : Waits(s[n])
  BY DEF Stacked
<1>. DEFINE J == Frames(H \cup {h})
            t == [s EXCEPT ![Len(s)] = open]
<1>2. Frames(H) \subseteq J /\ Frames({h}) \subseteq J
  BY FramesGrow
<1>. HIDE DEF J
<1>3. s \in Seq(J) /\ open \in J
  BY <1>1, <1>2, SeqMonotonic
<1>4. Len(s) \in Nat \ {0} /\ Len(s) \in 1 .. Len(s)
  BY LastIs
<1>5. /\ t \in Seq(J) /\ Len(t) = Len(s)
      /\ \A n \in 1 .. Len(s) : t[n] = IF n = Len(s) THEN open ELSE s[n]
  BY <1>3, <1>4, ExceptSeq
<1>. HIDE DEF t
<1>6. \A n \in 1 .. Len(t) : Waits(t[n])
  BY <1>1, <1>5
<1> QED
  BY <1>5, <1>6 DEF Stacked, J, t

LEMMA StackedFront ==
    ASSUME NEW s, Stacked(s), s # <<>>
    PROVE  Stacked(Front(s))
<1>1. PICK H : s \in Seq(Frames(H)) /\ \A n \in 1 .. Len(s) : Waits(s[n])
  BY DEF Stacked
<1>2. Len(s) \in Nat \ {0}
  BY LastIs
<1>. DEFINE J == Frames(H)
            m == Len(s) - 1
            t == SubSeq(s, 1, m)
<1>3. 1 \in Int /\ m \in Int /\ \A i \in 1 .. m : s[i] \in J /\ Waits(s[i])
  BY <1>1, <1>2, ElementOfSeq
<1>. HIDE DEF J
<1>4. /\ t \in Seq(J) /\ Len(t) = IF 1 <= m THEN m - 1 + 1 ELSE 0
      /\ \A i \in 1 .. m - 1 + 1 : t[i] = s[1 + i - 1]
  BY <1>3, SubSeqProperties
<1>. HIDE DEF t
<1>5. \A i \in 1 .. Len(t) : Waits(t[i])
  <2> TAKE i \in 1 .. Len(t)
  <2>1. i \in 1 .. m /\ i \in 1 .. m - 1 + 1 /\ 1 + i - 1 = i
    BY <1>2, <1>4
  <2> QED
    BY <1>3, <1>4, <2>1
<1>6. Front(s) = t
  BY DEF Front, t
<1> QED
  BY <1>4, <1>5, <1>6 DEF Stacked, J

\* NbtCompound::insert keeps every name once.
LEMMA InsertedOnce ==
    ASSUME NEW entries, IsStack(entries), Unique(entries), NEW name, NEW value
    PROVE  IsStack(Inserted(entries, name, value)) /\ Unique(Inserted(entries, name, value))
<1>. DEFINE entry == [name |-> name, tag |-> value]
            after == Inserted(entries, name, value)
<1>1. PICK S : entries \in Seq(S)
  BY DEF IsStack
<1>2. Len(entries) \in Nat /\ DOMAIN entries = 1 .. Len(entries)
  BY <1>1, LenProperties
<1>3. entry.name = name
  OBVIOUS
<1>. HIDE DEF entry
<1>4. CASE \E n \in DOMAIN entries : entries[n].name = name
  <2>1. after = [n \in DOMAIN entries |-> IF entries[n].name = name THEN entry ELSE entries[n]]
    BY <1>4 DEF Inserted, entry
  <2>. HIDE DEF after
  <2>2. DOMAIN after = DOMAIN entries /\ after = [n \in DOMAIN entries |-> after[n]]
    BY <2>1
  <2>3. IsStack(after)
    BY <2>2, Changed
  <2>4. \A n \in DOMAIN entries : after[n].name = entries[n].name
    BY <1>3, <2>1
  <2>5. Unique(after)
    BY <2>2, <2>4 DEF Unique
  <2> QED
    BY <2>3, <2>5 DEF after
<1>5. CASE ~ \E n \in DOMAIN entries : entries[n].name = name
  <2>1. after = Append(entries, entry)
    BY <1>5 DEF Inserted, entry
  <2>. DEFINE m == Len(entries)
  <2>2. entries \in Seq(S \cup {entry}) /\ entry \in S \cup {entry}
    BY <1>1, SeqMonotonic
  <2>3. /\ after \in Seq(S \cup {entry}) /\ Len(after) = m + 1
        /\ \A n \in 1 .. m : after[n] = entries[n]
        /\ after[m + 1] = entry
    BY <2>1, <2>2, AppendProperties
  <2>4. DOMAIN after = 1 .. m + 1
    BY <2>3, LenProperties
  <2>. HIDE DEF after, m
  <2>5. \A n \in 1 .. m + 1 : n \in 1 .. m \/ n = m + 1
    BY <1>2 DEF m
  <2>6. Unique(after)
    <3> SUFFICES ASSUME NEW i \in 1 .. m + 1, NEW j \in 1 .. m + 1, after[i].name = after[j].name
                 PROVE  i = j
      BY <2>4 DEF Unique
    <3>1. CASE i \in 1 .. m /\ j \in 1 .. m
      BY <1>2, <2>3, <3>1 DEF Unique, m
    <3>2. CASE i \in 1 .. m /\ j = m + 1
      BY <1>2, <1>3, <1>5, <2>3, <3>2 DEF m
    <3>3. CASE i = m + 1 /\ j \in 1 .. m
      BY <1>2, <1>3, <1>5, <2>3, <3>3 DEF m
    <3> QED
      BY <2>5, <3>1, <3>2, <3>3
  <2> QED
    BY <2>3, <2>6 DEF IsStack, after
<1> QED
  BY <1>4, <1>5

-----------------------------------------------------------------------------
(* The types of the reader.                                                *)

\* The strengthening of TypeOK: what the frames on the stack are, and that
\* entries are read into an open compound or list.
Types ==
    /\ at \in {"root", "payload", "entries", "return", "done", "failed"}
    /\ type \in Int
    /\ input \in Seq(Int) /\ IsRest(wire, input)
    /\ tag.type \in 0 .. 12
    /\ at = "entries" => stack # <<>>
    /\ Stacked(stack)

\* The strengthening says what TypeOK does.
LEMMA TypesAreOK ==
    ASSUME Types
    PROVE  TypeOK
<1>1. PICK H : stack \in Seq(Frames(H)) /\ \A n \in 1 .. Len(stack) : Waits(stack[n])
  BY DEF Types, Stacked
<1>2. DOMAIN stack = 1 .. Len(stack)
  BY <1>1, LenProperties
<1>3. ASSUME NEW n \in DOMAIN stack
      PROVE  /\ stack[n].of \in {TagList, TagCompound}
             /\ stack[n].of = TagList => stack[n].left \in 1 .. MaxArrayLen
             /\ stack[n].of = TagCompound =>
                   \A i, j \in DOMAIN stack[n].held :
                       stack[n].held[i].name = stack[n].held[j].name => i = j
             /\ \A i \in DOMAIN stack[n].name : IsScalar(stack[n].name[i])
  <2>. DEFINE open == stack[n]
  <2>1. open \in Frames(H) /\ Waits(open)
    BY <1>1, <1>2, <1>3, ElementOfSeq
  <2>. HIDE DEF open
  <2>2. open.of \in {TagList, TagCompound} /\ open.name \in Seq(Scalars)
    BY <2>1 DEF Frames
  <2>3. \A i \in DOMAIN open.name : IsScalar(open.name[i])
    <3>1. \A i \in DOMAIN open.name : open.name[i] \in Scalars
      BY <2>2, ElementOfSeq, LenProperties
    <3> QED
      BY <3>1 DEF Scalars
  <2>4. /\ open.of = TagList => open.left \in 1 .. MaxArrayLen
        /\ open.of = TagCompound =>
              \A i, j \in DOMAIN open.held : open.held[i].name = open.held[j].name => i = j
    BY <2>1 DEF Waits, Unique
  <2> QED
    BY <2>2, <2>3, <2>4 DEF open
<1> QED
  BY <1>3 DEF Types, TypeOK, IsRest

\* Before anything is read.
LEMMA TypesInit ==
    ASSUME Init
    PROVE  Types
<1>1. input \in Seq(Int) /\ wire = input
  BY NbtReaderAssumption DEF Init
<1>2. IsRest(wire, input)
  <2>1. Len(input) \in Nat
    BY <1>1, LenProperties
  <2>. DEFINE rest == SubSeq(input, 1, Len(input))
  <2>2. 1 \in 1 .. Len(input) + 1 /\ 0 + 1 = 1 /\ 0 \in 0 .. Len(input)
    BY <2>1
  <2>3. /\ rest \in Seq(Int) /\ Len(rest) = Len(input) + 1 - 1
        /\ \A i \in 1 .. Len(input) + 1 - 1 : rest[i] = input[1 + i - 1]
    BY <1>1, <2>2, RestIs
  <2>. HIDE DEF rest
  <2>4. Len(rest) = Len(input) /\ \A i \in 1 .. Len(rest) : rest[i] = input[i]
    <3>1. Len(rest) = Len(input)
      BY <2>1, <2>3
    <3>2. \A i \in 1 .. Len(input) : i \in 1 .. Len(input) + 1 - 1 /\ 1 + i - 1 = i
      BY <2>1
    <3> QED
      BY <2>3, <3>1, <3>2
  <2>5. rest = input
    BY <1>1, <2>3, <2>4, SeqEqual
  <2> QED
    BY <1>1, <2>2, <2>5 DEF IsRest, rest
<1>3. Stacked(stack)
  <2>1. stack = <<>> /\ <<>> \in Seq(Frames({})) /\ Len(<<>>) = 0
    BY EmptySeq DEF Init
  <2> QED
    BY <2>1 DEF Stacked
<1>4. /\ at = "root" /\ type = 0 /\ tag.type = 0
  BY DEF Init, Tag, TagEnd
<1> QED
  BY <1>1, <1>2, <1>3, <1>4 DEF Types

\* A tag that is complete takes what it was read from off the front.
LEMMA TypesReturned ==
    ASSUME Types, NEW done, done.type \in 0 .. 12, NEW rest, IsRest(rest, input), Returns(done, rest)
    PROVE  Types'
BY DEF Types, Returns

\* Changing the innermost of what is open.
LEMMA ChangedLast ==
    ASSUME NEW s, Stacked(s), s # <<>>, NEW h, NEW left \in Int, NEW name \in Seq(Scalars),
           NEW open, open = [of |-> Last(s).of, element |-> Last(s).element, left |-> left,
                             name |-> name, held |-> h, room |-> Last(s).room],
           Waits(open)
    PROVE  Stacked([s EXCEPT ![Len(s)] = open])
<1>1. Last(s) \in Frames({Last(s).held})
  BY LastIs
<1>. DEFINE last == Last(s)
<1>. HIDE DEF last
<1>2. last.of \in {TagList, TagCompound} /\ last.element \in Int /\ last.room \in Int
  BY <1>1 DEF Frames, last
<1>3. open = [of |-> last.of, element |-> last.element, left |-> left, name |-> name, held |-> h,
              room |-> last.room]
  BY DEF last
<1>4. open \in Frames({h})
  BY <1>2, <1>3 DEF Frames
<1> QED
  BY <1>4, StackedChanged

\* Every action keeps the types.
LEMMA TypesStep ==
    ASSUME Types, [Next]_vars
    PROVE  Types'
<1>. DEFINE last == Last(stack)
<1>0. MaxArrayLen \in Nat
  BY NbtReaderAssumption
<1>1. wire # <<>> => /\ Head(wire) \in Int /\ IsRest(Tail(wire), input)
  BY SuffixTail DEF Types
<1>2. wire \in Seq(Int) /\ Len(wire) \in Nat
  <2>1. CASE wire = <<>>
    BY <2>1, EmptySeq
  <2>2. CASE wire # <<>>
    BY <2>2, SuffixTail, LenProperties DEF Types
  <2> QED
    BY <2>1, <2>2
<1>3. \A k \in 1 .. Len(wire) + 1 : IsRest(SubSeq(wire, k, Len(wire)), input)
  BY SuffixCut DEF Types
<1>4. ListThere(wire) => /\ wire[1] \in Int /\ wire[2] \in 0 .. MaxArrayLen
                         /\ IsRest(SubSeq(wire, 3, Len(wire)), input)
  <2> SUFFICES ASSUME ListThere(wire)
               PROVE  /\ wire[1] \in Int /\ wire[2] \in 0 .. MaxArrayLen
                      /\ IsRest(SubSeq(wire, 3, Len(wire)), input)
    OBVIOUS
  <2>1. Len(wire) >= 2 /\ wire[2] \in 0 .. MaxArrayLen
    BY DEF ListThere
  <2>2. 1 \in 1 .. Len(wire) /\ 3 \in 1 .. Len(wire) + 1
    BY <1>2, <2>1
  <2>3. wire[1] \in Int
    BY <1>2, <2>2, ElementOfSeq
  <2> QED
    BY <1>3, <2>1, <2>2, <2>3
<1>5. stack # <<>> => /\ Len(stack) \in Nat \ {0} /\ last = stack[Len(stack)]
                      /\ last \in Frames({last.held}) /\ Waits(last)
                      /\ Stacked(Front(stack))
  <2> SUFFICES ASSUME stack # <<>>
               PROVE  /\ Len(stack) \in Nat \ {0} /\ Last(stack) = stack[Len(stack)]
                      /\ Last(stack) \in Frames({Last(stack).held}) /\ Waits(Last(stack))
                      /\ Stacked(Front(stack))
    OBVIOUS
  <2> QED
    BY LastIs, StackedFront DEF Types
<1>6. stack # <<>> =>
        /\ DOMAIN stack = 1 .. Len(stack) /\ Len(stack) \in DOMAIN stack
        /\ last.of \in {TagList, TagCompound} /\ last.element \in Int /\ last.left \in Int
        /\ last.name \in Seq(Scalars) /\ last.room \in Int
        /\ last = [of |-> last.of, element |-> last.element, left |-> last.left,
                   name |-> last.name, held |-> last.held, room |-> last.room]
  <2> SUFFICES ASSUME stack # <<>>
               PROVE  /\ DOMAIN stack = 1 .. Len(stack) /\ Len(stack) \in DOMAIN stack
                      /\ last.of \in {TagList, TagCompound} /\ last.element \in Int
                      /\ last.left \in Int /\ last.name \in Seq(Scalars) /\ last.room \in Int
                      /\ last = [of |-> last.of, element |-> last.element, left |-> last.left,
                                 name |-> last.name, held |-> last.held, room |-> last.room]
    OBVIOUS
  <2>1. PICK H : stack \in Seq(Frames(H))
    BY DEF Types, Stacked
  <2>2. DOMAIN stack = 1 .. Len(stack) /\ Len(stack) \in DOMAIN stack
    BY <1>5, <2>1, LenProperties
  <2>3. last \in Frames({last.held})
    BY <1>5
  <2>. HIDE DEF last
  <2>4. /\ last.of \in {TagList, TagCompound} /\ last.element \in Int
        /\ last.left \in Int /\ last.name \in Seq(Scalars) /\ last.room \in Int
        /\ last = [of |-> last.of, element |-> last.element, left |-> last.left,
                   name |-> last.name, held |-> last.held, room |-> last.room]
    BY <2>3 DEF Frames
  <2> QED
    BY <2>2, <2>4
<1>22. RoomAround \in Int /\ (ListThere(wire) => Capacity \in Int)
  <2>1. RoomAround \in Int
    BY <1>6 DEF RoomAround
  <2>2. ListThere(wire) => Capacity \in Int
    BY <1>0, <1>2, <1>4 DEF Capacity
  <2> QED
    BY <2>1, <2>2
<1>. HIDE DEF last
<1>7. CASE ReadRoot
  BY <1>1, <1>7 DEF ReadRoot, Types
<1>8. CASE ReadFixed
  <2>1. Tag(type, TagEnd, <<Head(wire)>>).type \in 0 .. 12
    BY <1>8 DEF ReadFixed, Payload, Fixed, Tag
  <2> QED
    BY <1>1, <1>8, <2>1, TypesReturned DEF ReadFixed
<1>9. CASE ReadArray
  <2>1. Tag(type, TagEnd, SubSeq(wire, 2, 1 + Head(wire))).type \in 0 .. 12
    BY <1>9 DEF ReadArray, Payload, Arrays, Tag
  <2>2. Head(wire) \in 0 .. MaxArrayLen /\ Head(wire) < Len(wire)
    BY <1>9 DEF ReadArray, ArrayThere
  <2>3. 2 + Head(wire) \in 1 .. Len(wire) + 1
    BY <1>0, <1>2, <2>2
  <2>4. IsRest(AfterCounted(wire), input)
    BY <1>3, <2>3 DEF AfterCounted
  <2> QED
    BY <1>9, <2>1, <2>4, TypesReturned DEF ReadArray
<1>10. CASE ReadString
  <2>1. Tag(TagString, TagEnd, StringAt(wire)).type \in 0 .. 12
    BY DEF Tag, TagString
  <2>2. IsRest(AfterCounted(wire), input)
    BY <1>10, StringLeaves DEF ReadString, Types
  <2> QED
    BY <1>10, <2>1, <2>2, TypesReturned DEF ReadString
<1>11. CASE ReadEmptyList
  <2>1. Tag(TagList, wire[1], <<>>).type \in 0 .. 12
    BY DEF Tag, TagList
  <2> QED
    BY <1>4, <1>11, <2>1, TypesReturned DEF ReadEmptyList
<1>12. CASE OpenList
  <2>. DEFINE open == [of |-> TagList, element |-> wire[1], left |-> wire[2],
                       name |-> <<>>, held |-> <<>>, room |-> RoomAround + Capacity]
  <2>1. /\ ListThere(wire) /\ wire[2] > 0 /\ stack' = Append(stack, open)
        /\ type' = wire[1] /\ wire' = SubSeq(wire, 3, Len(wire))
        /\ at = "payload" /\ UNCHANGED <<input, at, tag>>
    BY <1>12 DEF OpenList, Payload
  <2>2. wire[2] \in 1 .. MaxArrayLen /\ <<>> \in Seq(Scalars)
    BY <1>0, <1>4, <2>1, EmptySeq
  <2>3. open \in Frames({<<>>})
    BY <1>0, <1>4, <1>22, <2>1, <2>2 DEF Frames
  <2>4. Waits(open)
    BY <2>2 DEF Waits, TagList, TagCompound
  <2>. HIDE DEF open
  <2>5. Stacked(stack')
    BY <2>1, <2>3, <2>4, StackedAppend DEF Types
  <2> QED
    BY <1>4, <2>1, <2>5 DEF Types
<1>13. CASE OpenCompound
  <2>. DEFINE open == [of |-> TagCompound, element |-> TagEnd, left |-> 0,
                       name |-> <<>>, held |-> <<>>, room |-> RoomAround]
  <2>1. /\ stack' = Append(stack, open) /\ at' = "entries"
        /\ UNCHANGED <<input, wire, type, tag>>
    BY <1>13 DEF OpenCompound
  <2>2. <<>> \in Seq(Scalars) /\ <<>> \in Seq({}) /\ DOMAIN <<>> = {}
    BY EmptySeq
  <2>3. open \in Frames({<<>>})
    BY <1>22, <2>2 DEF Frames, TagEnd
  <2>4. Waits(open)
    BY <2>2 DEF Waits, IsStack, Unique, TagList, TagCompound
  <2>. HIDE DEF open
  <2>5. Stacked(stack')
    BY <2>1, <2>3, <2>4, StackedAppend DEF Types
  <2>6. stack' # <<>>
    <3>1. IsStack(stack)
      BY DEF Types, Stacked, IsStack
    <3> QED
      BY <2>1, <3>1, Opened
  <2> QED
    BY <2>1, <2>5, <2>6 DEF Types
<1>14. CASE ReadEntry
  <2>1. /\ at = "entries" /\ wire # <<>> /\ StringThere(Tail(wire))
        /\ type' = Head(wire) /\ wire' = AfterCounted(Tail(wire))
        /\ stack' = [stack EXCEPT ![Len(stack)].name = StringAt(Tail(wire))]
        /\ at' = "payload" /\ UNCHANGED <<input, tag>>
    BY <1>14 DEF ReadEntry
  <2>. DEFINE name == StringAt(Tail(wire))
  <2>2. name \in Seq(Scalars) /\ IsRest(wire', input) /\ stack # <<>> /\ type' \in Int
    BY <1>1, <2>1, StringLeaves DEF Types
  <2>. DEFINE open == [of |-> last.of, element |-> last.element, left |-> last.left,
                       name |-> name, held |-> last.held, room |-> last.room]
  <2>. HIDE DEF name
  <2>3. Waits(open)
    <3>1. Waits(last)
      BY <1>5, <2>2
    <3> QED
      BY <3>1 DEF Waits
  <2>4. [last EXCEPT !.name = name] = open
    BY <1>6, <2>2
  <2>5. stack' = [stack EXCEPT ![Len(stack)] = open]
    BY <1>5, <1>6, <2>1, <2>2, <2>4 DEF name
  <2>. HIDE DEF open
  <2>6. open = [of |-> Last(stack).of, element |-> Last(stack).element, left |-> last.left,
                name |-> name, held |-> last.held, room |-> Last(stack).room]
    BY DEF open, last
  <2>7. Stacked(stack')
    BY <1>6, <2>2, <2>3, <2>5, <2>6, ChangedLast DEF Types
  <2> QED
    BY <2>1, <2>2, <2>7 DEF Types
<1>15. CASE CloseCompound
  <2>1. Tag(TagCompound, TagEnd, Last(stack).held).type \in 0 .. 12
    BY DEF Tag, TagCompound
  <2> QED
    BY <1>1, <1>5, <1>15, <2>1 DEF CloseCompound, Types
<1>16. CASE DeliverRoot
  BY <1>16 DEF DeliverRoot, Types
<1>17. CASE DeliverElement
  <2>1. /\ stack # <<>> /\ last.of = TagList /\ last.left > 1
        /\ stack' = [stack EXCEPT ![Len(stack)].left = @ - 1,
                                  ![Len(stack)].held = Append(@, tag)]
        /\ type' = last.element /\ at' = "payload" /\ UNCHANGED <<input, wire, tag>>
    BY <1>17 DEF DeliverElement, last
  <2>. DEFINE held == Append(last.held, tag)
              open == [of |-> last.of, element |-> last.element, left |-> last.left - 1,
                       name |-> last.name, held |-> held, room |-> last.room]
  <2>. HIDE DEF held
  <2>2. Waits(open) /\ last.left - 1 \in Int
    <3>1. last.left \in 1 .. MaxArrayLen
      BY <1>5, <2>1 DEF Waits
    <3> QED
      BY <1>0, <2>1, <3>1 DEF Waits, TagList, TagCompound
  <2>3. [[last EXCEPT !.left = last.left - 1] EXCEPT !.held = held] = open
    <3>. DEFINE of == last.of
                element == last.element
                was == last.left
                left == last.left - 1
                name == last.name
                old == last.held
                room == last.room
    <3>1. last = [of |-> of, element |-> element, left |-> was, name |-> name, held |-> old,
                  room |-> room]
      BY <1>6, <2>1, Zenon
    <3>. HIDE DEF of, element, was, left, name, old, room
    <3>. DEFINE less == [of |-> of, element |-> element, left |-> left, name |-> name,
                         held |-> old, room |-> room]
    <3>2. [last EXCEPT !.left = left] = less
      BY <3>1
    <3>3. [less EXCEPT !.held = held]
            = [of |-> of, element |-> element, left |-> left, name |-> name, held |-> held,
               room |-> room]
      OBVIOUS
    <3> QED
      BY <3>2, <3>3, Zenon DEF of, element, left, name, room
  <2>4. stack' = [stack EXCEPT ![Len(stack)] = open]
    BY <1>5, <1>6, <2>1, <2>3 DEF held
  <2>. HIDE DEF open
  <2>5. open = [of |-> Last(stack).of, element |-> Last(stack).element, left |-> last.left - 1,
                name |-> last.name, held |-> held, room |-> Last(stack).room]
    BY DEF open, last
  <2>6. Stacked(stack')
    BY <1>6, <2>1, <2>2, <2>4, <2>5, ChangedLast DEF Types
  <2> QED
    BY <1>6, <2>1, <2>6 DEF Types
<1>18. CASE CloseList
  <2>1. Tag(TagList, Last(stack).element, Append(Last(stack).held, tag)).type \in 0 .. 12
    BY DEF Tag, TagList
  <2> QED
    BY <1>5, <1>18, <2>1 DEF CloseList, Types
<1>19. CASE DeliverEntry
  <2>1. /\ stack # <<>> /\ last.of = TagCompound
        /\ stack' = [stack EXCEPT ![Len(stack)].held = Inserted(@, last.name, tag)]
        /\ at' = "entries" /\ UNCHANGED <<input, wire, type, tag>>
    BY <1>19 DEF DeliverEntry, last
  <2>. DEFINE held == Inserted(last.held, last.name, tag)
              open == [of |-> last.of, element |-> last.element, left |-> last.left,
                       name |-> last.name, held |-> held, room |-> last.room]
  <2>2. IsStack(held) /\ Unique(held)
    <3>1. IsStack(last.held) /\ Unique(last.held)
      BY <1>5, <2>1 DEF Waits
    <3> QED
      BY <3>1, InsertedOnce
  <2>. HIDE DEF held
  <2>3. Waits(open)
    BY <2>1, <2>2 DEF Waits, TagList, TagCompound
  <2>4. [last EXCEPT !.held = held] = open
    <3>. DEFINE of == last.of
                element == last.element
                left == last.left
                name == last.name
                old == last.held
                room == last.room
    <3>1. last = [of |-> of, element |-> element, left |-> left, name |-> name, held |-> old,
                 room |-> room]
      BY <1>6, <2>1, Zenon
    <3>. HIDE DEF of, element, left, name, old, room
    <3>2. [last EXCEPT !.held = held]
            = [of |-> of, element |-> element, left |-> left, name |-> name, held |-> held,
               room |-> room]
      BY <3>1
    <3> QED
      BY <3>2, Zenon DEF of, element, left, name, room
  <2>5. stack' = [stack EXCEPT ![Len(stack)] = open]
    BY <1>5, <1>6, <2>1, <2>4 DEF held
  <2>. HIDE DEF open
  <2>6. open = [of |-> Last(stack).of, element |-> Last(stack).element, left |-> last.left,
                name |-> last.name, held |-> held, room |-> Last(stack).room]
    BY DEF open, last
  <2>7. Stacked(stack')
    <3>1. stack # <<>> /\ Stacked(stack) /\ last.left \in Int /\ last.name \in Seq(Scalars) /\ last.room \in Int
      BY <1>6, <2>1 DEF Types
    <3> QED
      BY <2>3, <2>5, <2>6, <3>1, ChangedLast
  <2>8. stack' # <<>>
    <3>1. IsStack(stack) /\ stack' = [n \in DOMAIN stack |-> stack'[n]]
      BY <2>1 DEF Types, Stacked, IsStack
    <3> QED
      BY <2>1, <3>1, Changed
  <2> QED
    BY <2>1, <2>7, <2>8 DEF Types
<1>20. CASE FailsRoot \/ FailsDeep \/ FailsPayload \/ FailsEntry
  BY <1>20 DEF FailsRoot, FailsDeep, FailsPayload, FailsEntry, Fails, Types
<1>21. CASE UNCHANGED vars
  BY <1>21 DEF vars, Types
<1> QED
  BY <1>7, <1>8, <1>9, <1>10, <1>11, <1>12, <1>13, <1>14, <1>15, <1>16, <1>17, <1>18, <1>19, <1>20, <1>21 DEF Next

\* nbt.rs, read_payload, decode_modified and NbtCompound::insert: for every
\* input and every limit the reader stays within its input, an open list still
\* waits for elements, an open compound holds every name once, and a name is
\* made of characters.
THEOREM ReaderTypes == Spec => []TypeOK
<1>1. Init => Types
  BY TypesInit
<1>2. Types /\ [Next]_vars => Types'
  BY TypesStep
<1>3. Types => TypeOK
  BY TypesAreOK
<1> QED
  BY <1>1, <1>2, <1>3, PTL DEF Spec

-----------------------------------------------------------------------------
(* The capacity of the lists that are open together.                       *)

\* Every list adds at most one whole input to what there was around it.
Roomy(s, all) == \A n \in 1 .. Len(s) : s[n].room \in Nat /\ s[n].room <= n * all

LEMMA RoomyAppend ==
    ASSUME NEW s, Stacked(s), NEW all \in Nat, Roomy(s, all), NEW open, open.room \in Nat,
           open.room <= (IF s = <<>> THEN 0 ELSE Last(s).room) + all
    PROVE  Roomy(Append(s, open), all)
<1>. DEFINE t == Append(s, open)
            m == Len(s)
            around == IF s = <<>> THEN 0 ELSE Last(s).room
<1>1. PICK H : s \in Seq(Frames(H))
  BY DEF Stacked
<1>. DEFINE J == Frames(H) \cup {open}
<1>2. s \in Seq(J) /\ open \in J
  BY <1>1, SeqMonotonic
<1>3. /\ Len(t) = m + 1 /\ m \in Nat
      /\ \A n \in 1 .. m : t[n] = s[n]
      /\ t[m + 1] = open
  BY <1>2, AppendProperties, LenProperties
<1>4. around \in Nat /\ around <= m * all
  <2>1. CASE s = <<>>
    <3>1. m = 0
      BY <2>1, EmptySeq
    <3>2. around = 0
      BY <2>1
    <3>. HIDE DEF m, around
    <3> QED
      BY <3>1, <3>2
  <2>2. CASE s # <<>>
    <3>1. m \in Nat \ {0} /\ Last(s) = s[m]
      BY <2>2, LastIs
    <3>2. around = s[m].room
      BY <2>2, <3>1
    <3>3. m \in 1 .. m
      BY <3>1
    <3>. HIDE DEF around
    <3> QED
      BY <3>2, <3>3 DEF Roomy
  <2> QED
    BY <2>1, <2>2
<1>5. open.room <= (m + 1) * all
  <2>. DEFINE product == m * all
  <2>1. (m + 1) * all = product + all /\ product \in Nat
    BY <1>3
  <2>2. around <= product
    BY <1>4
  <2>3. open.room <= around + all
    OBVIOUS
  <2>. HIDE DEF product, around
  <2> QED
    BY <1>4, <2>1, <2>2, <2>3
<1>. HIDE DEF t
<1>6. \A n \in 1 .. m + 1 : n \in 1 .. m \/ n = m + 1
  BY <1>3
<1>7. ASSUME NEW n \in 1 .. m + 1
      PROVE  t[n].room \in Nat /\ t[n].room <= n * all
  <2>1. CASE n \in 1 .. m
    BY <1>3, <2>1 DEF Roomy
  <2>2. CASE n = m + 1
    <3>1. t[n] = open /\ open.room <= n * all
      BY <1>3, <1>5, <2>2
    <3> QED
      BY <3>1
  <2> QED
    BY <1>6, <2>1, <2>2
<1> QED
  BY <1>3, <1>7 DEF Roomy, t

LEMMA RoomyFront ==
    ASSUME NEW s, Stacked(s), s # <<>>, NEW all \in Nat, Roomy(s, all)
    PROVE  Roomy(Front(s), all)
<1>. DEFINE m == Len(s) - 1
            t == SubSeq(s, 1, m)
<1>1. PICK H : s \in Seq(Frames(H))
  BY DEF Stacked
<1>2. Len(s) \in Nat \ {0}
  BY LastIs
<1>. DEFINE J == Frames(H)
<1>3. 1 \in Int /\ m \in Int /\ \A i \in 1 .. m : s[i] \in J
  BY <1>1, <1>2, ElementOfSeq
<1>. HIDE DEF J
<1>4. /\ t \in Seq(J) /\ Len(t) = IF 1 <= m THEN m - 1 + 1 ELSE 0
      /\ \A i \in 1 .. m - 1 + 1 : t[i] = s[1 + i - 1]
  BY <1>3, SubSeqProperties
<1>. HIDE DEF t
<1>5. ASSUME NEW i \in 1 .. Len(t)
      PROVE  i \in 1 .. Len(s) /\ t[i] = s[i]
  <2>1. i \in 1 .. m - 1 + 1 /\ 1 + i - 1 = i /\ i \in 1 .. Len(s)
    BY <1>2, <1>4
  <2> QED
    BY <1>4, <2>1
<1>6. Roomy(t, all)
  BY <1>5 DEF Roomy
<1> QED
  BY <1>6 DEF Front, t

LEMMA RoomyChanged ==
    ASSUME NEW s, Stacked(s), NEW all, Roomy(s, all),
           NEW t, t = [n \in DOMAIN s |-> t[n]], \A n \in DOMAIN s : t[n].room = s[n].room
    PROVE  Roomy(t, all)
<1>1. PICK H : s \in Seq(Frames(H))
  BY DEF Stacked
<1>2. DOMAIN s = 1 .. Len(s) /\ Len(t) = Len(s)
  BY <1>1, LenProperties, Changed DEF IsStack
<1> QED
  BY <1>2 DEF Roomy

Rooms == Roomy(stack, Len(input))

LEMMA RoomsStep ==
    ASSUME Types, Rooms, [Next]_vars
    PROVE  Rooms'
<1>. DEFINE all == Len(input)
<1>0. all \in Nat /\ Stacked(stack) /\ Roomy(stack, all)
  BY LenProperties DEF Types, Rooms
<1>1. wire \in Seq(Int) /\ Len(wire) \in Nat /\ Len(wire) <= all
  <2>1. PICK n \in 0 .. Len(input) : wire = SubSeq(input, n + 1, Len(input))
    BY DEF Types, IsRest
  <2>2. input \in Seq(Int) /\ n + 1 \in 1 .. Len(input) + 1
    BY <1>0 DEF Types
  <2>. DEFINE j == n + 1
  <2>3. wire = SubSeq(input, j, Len(input)) /\ j \in 1 .. Len(input) + 1
    BY <2>1, <2>2
  <2>. HIDE DEF j
  <2>4. wire \in Seq(Int) /\ Len(wire) = Len(input) + 1 - j
    BY <2>2, <2>3, RestIs
  <2> QED
    BY <1>0, <2>3, <2>4
<1>2. stack # <<>> => /\ Len(stack) \in DOMAIN stack /\ DOMAIN stack = 1 .. Len(stack)
                      /\ Last(stack) = stack[Len(stack)] /\ Last(stack).room \in Nat
  <2> SUFFICES ASSUME stack # <<>>
               PROVE  /\ Len(stack) \in DOMAIN stack /\ DOMAIN stack = 1 .. Len(stack)
                      /\ Last(stack) = stack[Len(stack)] /\ Last(stack).room \in Nat
    OBVIOUS
  <2>1. PICK H : stack \in Seq(Frames(H))
    BY <1>0 DEF Stacked
  <2>2. Len(stack) \in Nat \ {0} /\ Last(stack) = stack[Len(stack)]
    BY <1>0, LastIs
  <2>3. Len(stack) \in 1 .. Len(stack) /\ DOMAIN stack = 1 .. Len(stack)
    BY <2>1, <2>2, LenProperties
  <2> QED
    BY <1>0, <2>2, <2>3 DEF Roomy
<1>3. RoomAround \in Nat
  BY <1>2 DEF RoomAround
<1>4. ASSUME Roomy(stack', all), input' = input
      PROVE  Rooms'
  BY <1>4 DEF Rooms
<1>5. ASSUME UNCHANGED <<stack, input>>
      PROVE  Rooms'
  BY <1>0, <1>4, <1>5
<1>6. ASSUME NEW open, stack' = Append(stack, open), UNCHANGED input, open.room \in Nat,
             open.room <= RoomAround + all
      PROVE  Rooms'
  BY <1>0, <1>4, <1>6, RoomyAppend DEF RoomAround
<1>7. ASSUME stack # <<>>, stack' = Front(stack), UNCHANGED input
      PROVE  Rooms'
  BY <1>0, <1>4, <1>7, RoomyFront
<1>8. ASSUME UNCHANGED input, stack' = [n \in DOMAIN stack |-> stack'[n]],
             \A n \in DOMAIN stack : stack'[n].room = stack[n].room
      PROVE  Rooms'
  BY <1>0, <1>4, <1>8, RoomyChanged
<1>9. CASE OpenList
  <2>. DEFINE open == [of |-> TagList, element |-> wire[1], left |-> wire[2],
                       name |-> <<>>, held |-> <<>>, room |-> RoomAround + Capacity]
  <2>1. stack' = Append(stack, open) /\ UNCHANGED input /\ ListThere(wire)
    BY <1>9 DEF OpenList
  <2>2. Capacity \in Nat /\ Capacity <= all
    <3>1. Len(wire) >= 2 /\ wire[2] \in 0 .. MaxArrayLen /\ MaxArrayLen \in Nat
      BY <2>1, NbtReaderAssumption DEF ListThere
    <3> QED
      BY <1>0, <1>1, <3>1 DEF Capacity
  <2>3. open.room = RoomAround + Capacity
    OBVIOUS
  <2>. HIDE DEF open
  <2> QED
    BY <1>0, <1>3, <1>6, <2>1, <2>2, <2>3
<1>10. CASE OpenCompound
  <2>. DEFINE open == [of |-> TagCompound, element |-> TagEnd, left |-> 0,
                       name |-> <<>>, held |-> <<>>, room |-> RoomAround]
  <2>1. stack' = Append(stack, open) /\ UNCHANGED input
    BY <1>10 DEF OpenCompound
  <2>2. open.room = RoomAround
    OBVIOUS
  <2>. HIDE DEF open
  <2> QED
    BY <1>0, <1>3, <1>6, <2>1, <2>2
<1>11. CASE ReadEntry \/ DeliverElement \/ DeliverEntry
  <2>1. PICK H : stack \in Seq(Frames(H))
    BY <1>0 DEF Stacked
  <2>2. \A n \in DOMAIN stack : stack[n] \in Frames(H)
    BY <2>1, ElementOfSeq, LenProperties
  <2>3. \A n \in DOMAIN stack : "room" \in DOMAIN stack[n]
    BY <2>2 DEF Frames
  <2>4. CASE ReadEntry
    BY <1>8, <2>3, <2>4 DEF ReadEntry
  <2>5. CASE DeliverElement
    BY <1>8, <2>2, <2>5 DEF DeliverElement, Frames
  <2>6. CASE DeliverEntry
    BY <1>8, <2>3, <2>6 DEF DeliverEntry
  <2> QED
    BY <1>11, <2>4, <2>5, <2>6
<1>12. CASE CloseCompound \/ CloseList
  <2>1. stack # <<>> /\ stack' = Front(stack) /\ UNCHANGED input
    BY <1>12 DEF CloseCompound, CloseList, Types
  <2> QED
    BY <1>7, <2>1
<1>13. CASE \/ ReadRoot \/ ReadFixed \/ ReadArray \/ ReadString \/ ReadEmptyList \/ DeliverRoot
            \/ FailsRoot \/ FailsDeep \/ FailsPayload \/ FailsEntry \/ UNCHANGED vars
  <2>1. UNCHANGED <<stack, input>>
    BY <1>13 DEF ReadRoot, ReadFixed, ReadArray, ReadString, ReadEmptyList, DeliverRoot, Returns,
       FailsRoot, FailsDeep, FailsPayload, FailsEntry, Fails, vars
  <2> QED
    BY <1>5, <2>1
<1> QED
  BY <1>9, <1>10, <1>11, <1>12, <1>13 DEF Next

\* nbt.rs:526, "Bound the eager allocation by the bytes actually available": for
\* every input and every limit, the lists that are open at once have room for no
\* more elements than the input has fields, once for every level of the recursion.
THEOREM RoomIsBounded == Spec => []RoomBounded
<1>1. Init => Types /\ Rooms /\ IInv
  <2> SUFFICES ASSUME Init PROVE Types /\ Rooms /\ IInv
    OBVIOUS
  <2>1. stack = <<>> /\ at = "root" /\ <<>> \in Seq({}) /\ Len(<<>>) = 0
    BY EmptySeq DEF Init
  <2>2. IInv
    BY <2>1, NbtReaderAssumption DEF IInv, IsStack
  <2>3. Rooms
    BY <2>1 DEF Rooms, Roomy
  <2> QED
    BY <2>2, <2>3, TypesInit
<1>2. Types /\ Rooms /\ IInv /\ [Next]_vars => (Types /\ Rooms /\ IInv)'
  BY TypesStep, RoomsStep, DepthStep
<1>3. Types /\ Rooms /\ IInv => RoomBounded
  <2> SUFFICES ASSUME Types, Rooms, IInv, stack # <<>>
               PROVE  Last(stack).room <= (MaxDepth + 1) * Len(input)
    BY DEF RoomBounded
  <2>. DEFINE m == Len(stack)
              all == Len(input)
              room == Last(stack).room
  <2>1. m \in Nat \ {0} /\ Last(stack) = stack[m]
    BY LastIs DEF Types
  <2>2. room \in Nat /\ room <= m * all
    BY <2>1 DEF Rooms, Roomy
  <2>3. m <= MaxDepth + 1 /\ MaxDepth \in Nat /\ all \in Nat
    BY NbtReaderAssumption, LenProperties DEF IInv, Types
  <2>. HIDE DEF m, all, room
  <2>4. m * all <= (MaxDepth + 1) * all
    BY <2>1, <2>3
  <2>5. m * all \in Nat /\ (MaxDepth + 1) * all \in Nat
    BY <2>1, <2>3
  <2>6. room <= (MaxDepth + 1) * all
    BY <2>2, <2>4, <2>5
  <2> QED
    BY <2>6 DEF room, all
<1> QED
  BY <1>1, <1>2, <1>3, PTL DEF Spec

-----------------------------------------------------------------------------
(* Characters: what is written for one, and what is read there.            *)

\* A unit of 16 bits in three bytes.
LEMMA UnitIs ==
    ASSUME NEW u \in Nat, u < Beyond
    PROVE  /\ ThreeBytes(u) \in Seq(Int) /\ Len(ThreeBytes(u)) = 3
           /\ ThreeBytes(u)[1] \div 32 # 6 /\ ThreeBytes(u)[1] \div 16 = 14
           /\ ThreeBytes(u)[1] \in Int /\ ThreeBytes(u)[1] > 127
           /\ ThreeBytes(u)[2] \div 64 = 2 /\ ThreeBytes(u)[3] \div 64 = 2
           /\ (ThreeBytes(u)[1] % 16) * 4096 + (ThreeBytes(u)[2] % 64) * 64 + (ThreeBytes(u)[3] % 64) = u
<1>. DEFINE h == u \div 64
            x == u \div 4096
            y == h % 64
            z == u % 64
<1>1. /\ h \in Nat /\ z \in 0 .. 63 /\ u = 64 * h + z /\ h < 1024
      /\ y \in 0 .. 63 /\ h = 64 * (h \div 64) + y
  <2>1. u < 65536
    BY SurrogatesAre
  <2> QED
    BY <2>1
<1>2. x \in Nat /\ x < 16 /\ u = 4096 * x + 64 * y + z
  BY <1>1
<1>. HIDE DEF x, y, z, h
<1>3. /\ (224 + x) \div 32 = 7 /\ (224 + x) \div 16 = 14 /\ (224 + x) % 16 = x
  BY <1>2
<1>4. /\ (128 + y) \div 64 = 2 /\ (128 + y) % 64 = y
      /\ (128 + z) \div 64 = 2 /\ (128 + z) % 64 = z
  BY <1>1
<1>5. ThreeBytes(u) = <<224 + x, 128 + y, 128 + z>>
  BY DEF ThreeBytes, x, y, z, h
<1>6. 224 + x \in Int /\ 128 + y \in Int /\ 128 + z \in Int /\ 224 + x > 127
  BY <1>1, <1>2
<1>7. x * 4096 + y * 64 + z = u
  BY <1>1, <1>2
<1>. DEFINE p == 224 + x
            q == 128 + y
            r == 128 + z
            s == <<p, q, r>>
<1>. HIDE DEF p, q, r
<1>8. s \in Seq(Int) /\ Len(s) = 3 /\ s[1] = p /\ s[2] = q /\ s[3] = r
  BY <1>6 DEF p, q, r
<1> QED
  BY <1>3, <1>4, <1>5, <1>6, <1>7, <1>8 DEF p, q, r

\* Bytes that are there at a place.
At(bytes, i, code) ==
    i + Len(code) <= Len(bytes) + 1 /\ \A j \in 1 .. Len(code) : bytes[i + j - 1] = code[j]

LEMMA UnitThere ==
    ASSUME NEW bytes \in Seq(Int), NEW i \in Nat \ {0}, NEW u \in Nat, u < Beyond,
           At(bytes, i, ThreeBytes(u))
    PROVE  /\ IsUnit(bytes, i) /\ Unit(bytes, i) = u
           /\ bytes[i] \notin 0 .. 127 /\ bytes[i] \div 32 # 6
<1>. DEFINE code == ThreeBytes(u)
<1>1. /\ Len(code) = 3
      /\ code[1] \div 32 # 6 /\ code[1] \div 16 = 14 /\ code[1] \in Int /\ code[1] > 127
      /\ code[2] \div 64 = 2 /\ code[3] \div 64 = 2
      /\ (code[1] % 16) * 4096 + (code[2] % 64) * 64 + (code[3] % 64) = u
  BY UnitIs
<1>2. Len(bytes) \in Nat
  BY LenProperties
<1>. HIDE DEF code
<1>0. i + 3 <= Len(bytes) + 1
  BY <1>1 DEF At, code
<1>3. \A j \in 1 .. 3 : bytes[i + j - 1] = code[j]
  <2>1. At(bytes, i, code)
    BY DEF code
  <2>2. \A j \in 1 .. Len(code) : bytes[i + j - 1] = code[j]
    BY <2>1, Zenon DEF At
  <2>3. Len(code) = 3
    BY <1>1
  <2> QED
    BY <2>2, <2>3, Zenon
<1>4. bytes[i] = code[1] /\ bytes[i + 1] = code[2] /\ bytes[i + 2] = code[3]
  <2>1. i + 1 - 1 = i /\ i + 2 - 1 = i + 1 /\ i + 3 - 1 = i + 2
    OBVIOUS
  <2>2. bytes[i + 1 - 1] = code[1] /\ bytes[i + 2 - 1] = code[2] /\ bytes[i + 3 - 1] = code[3]
    BY <1>3
  <2> QED
    BY <2>1, <2>2
<1>5. i <= Len(bytes) /\ i + 1 <= Len(bytes) /\ i + 2 <= Len(bytes)
  BY <1>0, <1>2
<1>6. IsUnit(bytes, i)
  BY <1>1, <1>4, <1>5 DEF IsUnit, Continues
<1>7. Unit(bytes, i) = u
  BY <1>1, <1>4 DEF Unit
<1>8. code[1] \notin 0 .. 127
  <2>. DEFINE x == code[1]
  <2>1. x \in Int /\ x > 127
    BY <1>1
  <2>. HIDE DEF x
  <2>2. x \notin 0 .. 127
    BY <2>1
  <2> QED
    BY <2>2 DEF x
<1> QED
  BY <1>1, <1>4, <1>6, <1>7, <1>8


\* How many bytes a character takes.
LEMMA Widths ==
    ASSUME NEW c \in Scalars
    PROVE  /\ c \in Nat /\ c <= MaxChar
           /\ 1 <= c /\ c <= 127 => EncodedChar(c) = <<c>> /\ CharLen(c) = 1
           /\ c = 0 \/ (128 <= c /\ c <= 2047) => EncodedChar(c) = TwoBytes(c) /\ CharLen(c) = 2
           /\ 2048 <= c /\ c < Beyond => EncodedChar(c) = ThreeBytes(c) /\ CharLen(c) = 3
           /\ c >= Beyond => /\ EncodedChar(c) = ThreeBytes(High + (c - Beyond) \div 1024)
                                                  \o ThreeBytes(Low + ((c - Beyond) % 1024))
                            /\ CharLen(c) = 6
<1>1. c \in Int /\ IsScalar(c)
  BY DEF Scalars
<1>2. c \in Nat /\ c <= MaxChar
  BY <1>1, ScalarIs, SurrogatesAre
<1>. DEFINE zero == c = 0
            one == c \in 1 .. 127
            two == c \in 128 .. 2047
            three == c \in 2048 .. Beyond - 1
            six == c >= Beyond
            pair == ThreeBytes(High + (c - Beyond) \div 1024) \o ThreeBytes(Low + ((c - Beyond) % 1024))
<1>3. /\ one <=> 1 <= c /\ c <= 127
      /\ two <=> 128 <= c /\ c <= 2047
      /\ three <=> 2048 <= c /\ c < Beyond
  <2>1. one <=> 1 <= c /\ c <= 127
    BY <1>1
  <2>2. two <=> 128 <= c /\ c <= 2047
    BY <1>1
  <2>3. three <=> 2048 <= c /\ c < Beyond
    <3>1. Beyond \in Int
      BY SurrogatesAre
    <3> QED
      BY <1>1, <3>1
  <2>. HIDE DEF one, two, three
  <2> QED
    BY <2>1, <2>2, <2>3
<1>4. EncodedChar(c) = CASE one         -> <<c>>
                         [] zero \/ two -> TwoBytes(c)
                         [] three       -> ThreeBytes(c)
                         [] six         -> pair
  BY DEF EncodedChar
<1>5. CharLen(c) = CASE zero -> 2 [] one -> 1 [] two -> 2 [] three -> 3 [] six -> 6
  BY DEF CharLen
<1>. HIDE DEF one, two, three, pair
<1>6. /\ zero => ~one /\ ~two /\ ~three /\ ~six
      /\ one => ~two /\ ~three /\ ~six
      /\ two => ~three /\ ~six
      /\ three => ~six
  BY <1>2, <1>3, SurrogatesAre
<1>7. /\ one => EncodedChar(c) = <<c>> /\ CharLen(c) = 1
      /\ zero \/ two => EncodedChar(c) = TwoBytes(c) /\ CharLen(c) = 2
      /\ three => EncodedChar(c) = ThreeBytes(c) /\ CharLen(c) = 3
      /\ six => EncodedChar(c) = pair /\ CharLen(c) = 6
  <2>. HIDE DEF zero, six
  <2>1. CASE one
    BY <2>1, <1>4, <1>5, <1>6
  <2>2. CASE zero
    BY <2>2, <1>4, <1>5, <1>6
  <2>3. CASE two
    BY <2>3, <1>4, <1>5, <1>6
  <2>4. CASE three
    BY <2>4, <1>4, <1>5, <1>6
  <2>5. CASE six
    BY <2>5, <1>4, <1>5, <1>6
  <2> QED
    BY <2>1, <2>2, <2>3, <2>4, <2>5, <1>6
<1> QED
  BY <1>2, <1>3, <1>7 DEF pair

\* The two surrogates of a character beyond 16 bits.
LEMMA PairOf ==
    ASSUME NEW c \in Nat, c >= Beyond, c <= MaxChar
    PROVE  LET a == High + (c - Beyond) \div 1024
               b == Low + ((c - Beyond) % 1024)
           IN  /\ a \in High .. Low - 1 /\ b \in Low .. AfterLow - 1
               /\ a \in Nat /\ a < Beyond /\ b \in Nat /\ b < Beyond
               /\ Beyond + (a - High) * 1024 + b - Low = c
<1>. DEFINE d == c - Beyond
            x == d \div 1024
            y == d % 1024
<1>1. x \in Nat /\ x < 1024 /\ y \in 0 .. 1023 /\ c = Beyond + 1024 * x + y
  <2>1. d \in Nat /\ d < 1024 * 1024 /\ c = Beyond + d
    BY SurrogatesAre
  <2>. HIDE DEF d
  <2>2. x \in Nat /\ y \in 0 .. 1023 /\ d = 1024 * x + y
    BY <2>1
  <2>. HIDE DEF x, y
  <2> QED
    BY <2>1, <2>2, SurrogatesAre
<1>. HIDE DEF x, y
<1>2. /\ High + x \in High .. Low - 1 /\ Low + y \in Low .. AfterLow - 1
      /\ High + x \in Nat /\ High + x < Beyond /\ Low + y \in Nat /\ Low + y < Beyond
      /\ Beyond + ((High + x) - High) * 1024 + (Low + y) - Low = c
  BY <1>1, SurrogatesAre
<1> QED
  BY <1>2 DEF x, y, d

LEMMA AtConcat ==
    ASSUME NEW bytes \in Seq(Int), NEW i \in Nat \ {0}, NEW s \in Seq(Int), NEW t \in Seq(Int),
           At(bytes, i, s \o t)
    PROVE  At(bytes, i, s) /\ At(bytes, i + Len(s), t)
<1>. DEFINE a == Len(s)
            b == Len(t)
            st == s \o t
<1>1. a \in Nat /\ b \in Nat /\ Len(bytes) \in Nat
  BY LenProperties
<1>2. /\ Len(st) = a + b
      /\ \A k \in 1 .. a + b : st[k] = IF k <= a THEN s[k] ELSE t[k - a]
  BY ConcatProperties
<1>. HIDE DEF a, b, st
<1>3. i + (a + b) <= Len(bytes) + 1 /\ \A j \in 1 .. a + b : bytes[i + j - 1] = st[j]
  BY <1>2 DEF At, st
<1>4. ASSUME NEW j \in 1 .. a PROVE bytes[i + j - 1] = s[j]
  <2>1. j \in 1 .. a + b /\ j <= a
    BY <1>1
  <2>2. bytes[i + j - 1] = st[j]
    BY <1>3, <2>1
  <2>3. st[j] = s[j]
    BY <1>2, <2>1
  <2> QED
    BY <2>2, <2>3
<1>5. ASSUME NEW j \in 1 .. b PROVE bytes[i + a + j - 1] = t[j]
  <2>. DEFINE k == a + j
  <2>1. k \in 1 .. a + b /\ ~ (k <= a) /\ k - a = j /\ i + a + j - 1 = i + k - 1
    BY <1>1
  <2>. HIDE DEF k
  <2>2. bytes[i + k - 1] = st[k] /\ st[k] = t[k - a]
    BY <1>2, <1>3, <2>1
  <2> QED
    BY <2>1, <2>2
<1>6. i + a <= Len(bytes) + 1 /\ i + a + b <= Len(bytes) + 1
  BY <1>1, <1>3
<1> QED
  BY <1>4, <1>5, <1>6 DEF At, a, b

\* A character and the code that is written for it.
LEMMA CodeIs ==
    ASSUME NEW c \in Scalars
    PROVE  /\ EncodedChar(c) \in Seq(Int) /\ CharLen(c) \in Nat \ {0}
           /\ Len(EncodedChar(c)) = CharLen(c)
<1>1. c \in Nat /\ c <= MaxChar
  BY Widths
<1>2. CASE 1 <= c /\ c <= 127
  <2>1. EncodedChar(c) = <<c>> /\ CharLen(c) = 1
    BY <1>2, Widths
  <2>2. <<c>> \in Seq(Int) /\ Len(<<c>>) = 1
    BY <1>1
  <2> QED
    BY <2>1, <2>2
<1>3. CASE c = 0 \/ (128 <= c /\ c <= 2047)
  <2>. DEFINE p == 192 + c \div 64
              q == 128 + (c % 64)
              s == <<p, q>>
  <2>1. p \in Int /\ q \in Int
    BY <1>1
  <2>. HIDE DEF p, q
  <2>2. s \in Seq(Int) /\ Len(s) = 2
    BY <2>1
  <2>3. EncodedChar(c) = TwoBytes(c) /\ CharLen(c) = 2
    BY <1>3, Widths
  <2>4. TwoBytes(c) = s
    BY DEF TwoBytes, p, q
  <2> QED
    BY <2>2, <2>3, <2>4
<1>4. CASE 2048 <= c /\ c < Beyond
  <2>1. EncodedChar(c) = ThreeBytes(c) /\ CharLen(c) = 3
    BY <1>4, Widths
  <2>3. ThreeBytes(c) \in Seq(Int) /\ Len(ThreeBytes(c)) = 3
    BY <1>1, <1>4, UnitIs
  <2> QED
    BY <2>1, <2>3
<1>5. CASE c >= Beyond
  <2>. DEFINE a == High + (c - Beyond) \div 1024
              b == Low + ((c - Beyond) % 1024)
  <2>1. a \in Nat /\ a < Beyond /\ b \in Nat /\ b < Beyond
    BY <1>1, <1>5, PairOf
  <2>. HIDE DEF a, b
  <2>2. /\ ThreeBytes(a) \in Seq(Int) /\ Len(ThreeBytes(a)) = 3
        /\ ThreeBytes(b) \in Seq(Int) /\ Len(ThreeBytes(b)) = 3
    BY <2>1, UnitIs
  <2>. DEFINE s == ThreeBytes(a)
              t == ThreeBytes(b)
  <2>3. s \o t \in Seq(Int) /\ Len(s \o t) = 6
    <3>. HIDE DEF s, t
    <3>1. s \in Seq(Int) /\ Len(s) = 3 /\ t \in Seq(Int) /\ Len(t) = 3
      BY <2>2 DEF s, t
    <3>2. s \o t \in Seq(Int) /\ Len(s \o t) = Len(s) + Len(t)
      BY <3>1, ConcatProperties, Zenon
    <3> QED
      BY <3>1, <3>2
  <2>4. EncodedChar(c) = ThreeBytes(a) \o ThreeBytes(b) /\ CharLen(c) = 6
    BY <1>5, Widths DEF a, b
  <2> QED
    BY <2>3, <2>4
<1>6. \/ 1 <= c /\ c <= 127
      \/ c = 0 \/ (128 <= c /\ c <= 2047)
      \/ 2048 <= c /\ c < Beyond
      \/ c >= Beyond
  BY <1>1, SurrogatesAre
<1> QED
  BY <1>2, <1>3, <1>4, <1>5, <1>6

\* Where the code of a character is, decode_modified_utf8 finds the character.
LEMMA CharThere ==
    ASSUME NEW bytes \in Seq(Int), NEW i \in Nat \ {0}, NEW c \in Scalars,
           At(bytes, i, EncodedChar(c))
    PROVE  CharAt(bytes, i) = [used |-> CharLen(c), char |-> c]
<1>. DEFINE m == Len(bytes)
            p1 == bytes[i] \in 0 .. 127
            p2 == bytes[i] \div 32 = 6 /\ Continues(bytes, i + 1)
            p3 == IsUnit(bytes, i) /\ IsScalar(Unit(bytes, i))
            p4 == IsPair(bytes, i)
            c2 == (bytes[i] % 32) * 64 + (bytes[i + 1] % 64)
            c4 == Beyond + (Unit(bytes, i) - High) * 1024 + Unit(bytes, i + 3) - Low
            e1 == [used |-> 1, char |-> bytes[i]]
            e2 == [used |-> 2, char |-> c2]
            e3 == [used |-> 3, char |-> Unit(bytes, i)]
            e4 == [used |-> 6, char |-> c4]
<1>1. CharAt(bytes, i) = CASE p1 -> e1 [] p2 -> e2 [] p3 -> e3 [] p4 -> e4 [] OTHER -> Bad
  BY DEF CharAt
<1>2. m \in Nat /\ i + CharLen(c) <= m + 1
  BY CodeIs, LenProperties DEF At
<1>3. c \in Nat /\ c <= MaxChar /\ IsScalar(c)
  BY Widths DEF Scalars
<1>4. IsUnit(bytes, i) => bytes[i] \div 16 = 14
  BY DEF IsUnit
<1>5. p4 => IsUnit(bytes, i) /\ Unit(bytes, i) \in High .. Low - 1
  BY DEF IsPair
<1>6. CASE 1 <= c /\ c <= 127
  <2>1. EncodedChar(c) = <<c>> /\ CharLen(c) = 1
    BY <1>6, Widths
  <2>2. bytes[i] = c
    <3>1. \A j \in 1 .. 1 : bytes[i + j - 1] = <<c>>[j]
      BY <2>1 DEF At
    <3>2. i + 1 - 1 = i
      OBVIOUS
    <3> QED
      BY <3>1, <3>2
  <2>3. c \in 0 .. 127
    BY <1>3, <1>6
  <2>4. c \div 32 # 6 /\ c \div 16 # 14
    BY <1>3, <2>3, FirstBits
  <2>5. p1 /\ ~p2 /\ ~p3 /\ ~p4
    BY <1>4, <1>5, <2>2, <2>3, <2>4
  <2>. HIDE DEF p1, p2, p3, p4
  <2> QED
    BY <1>1, <2>1, <2>2, <2>5
<1>7. CASE c = 0 \/ (128 <= c /\ c <= 2047)
  <2>. DEFINE p == 192 + c \div 64
              q == 128 + (c % 64)
  <2>1. EncodedChar(c) = <<p, q>> /\ CharLen(c) = 2
    <3>1. EncodedChar(c) = TwoBytes(c) /\ CharLen(c) = 2
      BY <1>7, Widths
    <3> QED
      BY <3>1 DEF TwoBytes
  <2>2. /\ p \in Int /\ p \notin 0 .. 127 /\ p \div 32 = 6
        /\ q \div 64 = 2
        /\ (p % 32) * 64 + (q % 64) = c
    <3>. DEFINE x == c \div 64
                y == c % 64
    <3>1. x \in Nat /\ x < 32 /\ y \in 0 .. 63 /\ c = 64 * x + y
      BY <1>3, <1>7
    <3>. HIDE DEF x, y
    <3>2. /\ 192 + x > 127 /\ (192 + x) \div 32 = 6 /\ (192 + x) % 32 = x
          /\ (128 + y) \div 64 = 2 /\ (128 + y) % 64 = y
      BY <3>1
    <3>3. x * 64 + y = c /\ 192 + x \in Int /\ 192 + x \notin 0 .. 127
      BY <3>1, <3>2
    <3> QED
      BY <3>2, <3>3 DEF x, y
  <2>. HIDE DEF p, q
  <2>3. bytes[i] = p /\ bytes[i + 1] = q
    <3>1. \A j \in 1 .. 2 : bytes[i + j - 1] = <<p, q>>[j]
      BY <2>1 DEF At
    <3>2. i + 1 - 1 = i /\ i + 2 - 1 = i + 1
      OBVIOUS
    <3>3. bytes[i + 1 - 1] = p /\ bytes[i + 2 - 1] = q
      BY <3>1
    <3> QED
      BY <3>2, <3>3
  <2>4. Continues(bytes, i + 1)
    BY <1>2, <2>1, <2>2, <2>3 DEF Continues
  <2>5. p2 /\ ~p1 /\ c2 = c
    BY <2>2, <2>3, <2>4
  <2>6. ~p3 /\ ~p4
    BY <1>4, <1>5, <2>2, <2>3, FirstBits
  <2>. HIDE DEF p1, p2, p3, p4, c2
  <2> QED
    BY <1>1, <2>1, <2>5, <2>6
<1>8. CASE 2048 <= c /\ c < Beyond
  <2>1. EncodedChar(c) = ThreeBytes(c) /\ CharLen(c) = 3
    BY <1>8, Widths
  <2>2. /\ IsUnit(bytes, i) /\ Unit(bytes, i) = c
        /\ bytes[i] \notin 0 .. 127 /\ bytes[i] \div 32 # 6
    BY <1>3, <1>8, <2>1, UnitThere
  <2>3. p3 /\ ~p1 /\ ~p2
    BY <1>3, <2>2
  <2>4. ~p4
    BY <1>3, <1>5, <2>2, ScalarIs, SurrogatesAre
  <2>. HIDE DEF p1, p2, p3, p4
  <2> QED
    BY <1>1, <2>1, <2>2, <2>3, <2>4
<1>9. CASE c >= Beyond
  <2>. DEFINE a == High + (c - Beyond) \div 1024
              b == Low + ((c - Beyond) % 1024)
  <2>1. /\ a \in High .. Low - 1 /\ b \in Low .. AfterLow - 1
        /\ a \in Nat /\ a < Beyond /\ b \in Nat /\ b < Beyond
        /\ Beyond + (a - High) * 1024 + b - Low = c
    BY <1>3, <1>9, PairOf
  <2>2. EncodedChar(c) = ThreeBytes(a) \o ThreeBytes(b) /\ CharLen(c) = 6
    BY <1>9, Widths
  <2>. HIDE DEF a, b
  <2>3. At(bytes, i, ThreeBytes(a)) /\ At(bytes, i + 3, ThreeBytes(b))
    <3>1. /\ ThreeBytes(a) \in Seq(Int) /\ Len(ThreeBytes(a)) = 3
          /\ ThreeBytes(b) \in Seq(Int) /\ Len(ThreeBytes(b)) = 3
      BY <2>1, UnitIs
    <3>. DEFINE s == ThreeBytes(a)
                t == ThreeBytes(b)
    <3>2. At(bytes, i, s \o t)
      BY <2>2
    <3>. HIDE DEF s, t
    <3>3. s \in Seq(Int) /\ Len(s) = 3 /\ t \in Seq(Int)
      BY <3>1 DEF s, t
    <3>4. At(bytes, i, s) /\ At(bytes, i + Len(s), t)
      BY <3>2, <3>3, AtConcat, Zenon
    <3> QED
      BY <3>3, <3>4 DEF s, t
  <2>4. /\ IsUnit(bytes, i) /\ Unit(bytes, i) = a
        /\ bytes[i] \notin 0 .. 127 /\ bytes[i] \div 32 # 6
    BY <2>1, <2>3, UnitThere
  <2>5. IsUnit(bytes, i + 3) /\ Unit(bytes, i + 3) = b
    <3>1. i + 3 \in Nat \ {0}
      OBVIOUS
    <3> QED
      BY <2>1, <2>3, <3>1, UnitThere
  <2>6. p4 /\ ~p1 /\ ~p2 /\ c4 = c
    BY <2>1, <2>4, <2>5 DEF IsPair
  <2>7. ~p3
    BY <2>1, <2>4, PairIsScalar
  <2>. HIDE DEF p1, p2, p3, p4, c4
  <2> QED
    BY <1>1, <2>2, <2>6, <2>7
<1>10. \/ 1 <= c /\ c <= 127
       \/ c = 0 \/ (128 <= c /\ c <= 2047)
       \/ 2048 <= c /\ c < Beyond
       \/ c >= Beyond
  BY <1>3, SurrogatesAre
<1> QED
  BY <1>6, <1>7, <1>8, <1>9, <1>10

-----------------------------------------------------------------------------
(* Whole strings: their lengths, and the beginning that is written.        *)

\* g holds the lengths of the beginnings of a string.
Measures(g, s) == g[0] = 0 /\ \A n \in 1 .. Len(s) : g[n] = g[n - 1] + CharLen(s[n])

LEMMA CharIs ==
    ASSUME NEW s \in Seq(Scalars)
    PROVE  Len(s) \in Nat /\ \A n \in 1 .. Len(s) : s[n] \in Scalars /\ CharLen(s[n]) \in Nat \ {0}
<1>1. Len(s) \in Nat /\ \A n \in 1 .. Len(s) : s[n] \in Scalars
  BY LenProperties, ElementOfSeq
<1> QED
  BY <1>1, CodeIs

LEMMA ModifiedLenIs ==
    ASSUME NEW s \in Seq(Scalars)
    PROVE  \E g \in [0 .. Len(s) -> Nat] : Measures(g, s) /\ ModifiedLen(s) = g[Len(s)]
<1>. DEFINE m == Len(s)
            w == [n \in 1 .. m |-> CharLen(s[n])]
            Body(g) == [n \in 0 .. m |-> IF n = 0 THEN 0 ELSE g[n - 1] + CharLen(s[n])]
            sum == CHOOSE g : g = Body(g)
<1>1. m \in Nat /\ \A n \in 1 .. m : CharLen(s[n]) \in Nat
  BY CharIs
<1>. HIDE DEF m
<1>2. w \in [1 .. m -> Nat] /\ \A n \in 1 .. m : w[n] = CharLen(s[n])
  BY <1>1
<1>. HIDE DEF w
<1>3. PICK f \in [0 .. m -> Nat] : f[0] = 0 /\ \A n \in 1 .. m : f[n] = f[n - 1] + w[n]
  BY <1>1, <1>2, SumsExist
<1>4. f = Body(f)
  <2>1. ASSUME NEW n \in 0 .. m PROVE f[n] = IF n = 0 THEN 0 ELSE f[n - 1] + CharLen(s[n])
    <3>1. CASE n = 0
      BY <1>3, <3>1
    <3>2. CASE n # 0
      <4>1. n \in 1 .. m
        BY <1>1, <3>2
      <4> QED
        BY <1>2, <1>3, <3>2, <4>1
    <3> QED
      BY <3>1, <3>2
  <2> QED
    BY <1>3, <2>1
<1>5. sum = Body(sum)
  <2>. HIDE DEF Body
  <2> QED
    BY <1>4
<1>. HIDE DEF sum
<1>6. sum[0] = 0
  <2>1. 0 \in 0 .. m
    BY <1>1
  <2> QED
    BY <1>5, <2>1
<1>7. \A n \in 1 .. m : sum[n] = sum[n - 1] + CharLen(s[n])
  <2> TAKE n \in 1 .. m
  <2>1. n \in 0 .. m /\ n # 0
    BY <1>1
  <2> QED
    BY <1>5, <2>1
<1>8. \A n \in 0 .. m : sum[n] \in Nat
  <2>1. \A n \in 1 .. m : sum[n] = sum[n - 1] + w[n]
    BY <1>2, <1>7
  <2> QED
    BY <1>1, <1>2, <1>6, <2>1, SumsAreNatural
<1>9. sum \in [0 .. m -> Nat]
  <2>1. sum = [n \in 0 .. m |-> sum[n]]
    BY <1>5
  <2> QED
    BY <1>8, <2>1
<1>10. ModifiedLen(s) = sum[m]
  BY DEF ModifiedLen, sum, m
<1> QED
  BY <1>6, <1>7, <1>9, <1>10 DEF Measures, m

\* The beginning of a string is measured as the string is.
LEMMA BeginningIs ==
    ASSUME NEW s \in Seq(Scalars), NEW g, Measures(g, s), NEW n \in 0 .. Len(s)
    PROVE  /\ SubSeq(s, 1, n) \in Seq(Scalars) /\ Len(SubSeq(s, 1, n)) = n
           /\ \A k \in 1 .. n : SubSeq(s, 1, n)[k] = s[k]
           /\ ModifiedLen(SubSeq(s, 1, n)) = g[n]
<1>. DEFINE m == Len(s)
            t == SubSeq(s, 1, n)
<1>1. m \in Nat /\ n \in Nat /\ n <= m /\ \A k \in 1 .. m : s[k] \in Scalars
  BY CharIs
<1>2. t \in Seq(Scalars) /\ Len(t) = n /\ \A k \in 1 .. n : t[k] = s[k]
  <2>1. \A k \in 1 .. n : s[k] \in Scalars
    BY <1>1
  <2>2. /\ t \in Seq(Scalars)
        /\ Len(t) = IF 1 <= n THEN n - 1 + 1 ELSE 0
        /\ \A k \in 1 .. n - 1 + 1 : t[k] = s[1 + k - 1]
    BY <1>1, <2>1, SubSeqProperties
  <2>3. n - 1 + 1 = n /\ (IF 1 <= n THEN n - 1 + 1 ELSE 0) = n /\ \A k \in 1 .. n : 1 + k - 1 = k
    BY <1>1
  <2>. HIDE DEF t
  <2> QED
    BY <2>2, <2>3
<1>. HIDE DEF t
<1>3. PICK h \in [0 .. n -> Nat] : Measures(h, t) /\ ModifiedLen(t) = h[n]
  BY <1>2, ModifiedLenIs
<1>. DEFINE S == {k \in 0 .. n : h[k] = g[k]}
<1>4. 0 \in S
  BY <1>1, <1>3 DEF Measures
<1>5. ASSUME NEW k \in 0 .. n - 1, k \in S
      PROVE  k + 1 \in S
  <2>. DEFINE j == k + 1
  <2>1. j \in 1 .. n /\ j \in 1 .. m /\ j \in 0 .. n /\ j - 1 = k
    BY <1>1
  <2>. HIDE DEF j, m
  <2>2. h[j] = h[j - 1] + CharLen(t[j])
    BY <1>2, <1>3, <2>1 DEF Measures
  <2>3. g[j] = g[j - 1] + CharLen(s[j])
    BY <2>1 DEF Measures, m
  <2>4. h[j] = g[j]
    BY <1>2, <1>5, <2>1, <2>2, <2>3
  <2> QED
    BY <2>1, <2>4 DEF j
<1>. HIDE DEF S
<1>6. \A k \in 0 .. n : k \in S
  BY <1>1, <1>4, <1>5, InductionUpTo
<1>7. h[n] = g[n]
  <2>1. n \in S
    BY <1>1, <1>6
  <2> QED
    BY <2>1 DEF S
<1> QED
  BY <1>2, <1>3, <1>7 DEF t

\* Longer beginnings have longer encodings.
LEMMA MeasuresGrow ==
    ASSUME NEW s \in Seq(Scalars), NEW g \in [0 .. Len(s) -> Nat], Measures(g, s),
           NEW a \in 0 .. Len(s), NEW b \in a .. Len(s)
    PROVE  g[a] <= g[b]
<1>. DEFINE m == Len(s)
            S == {k \in 0 .. m : k >= a => g[a] <= g[k]}
<1>1. m \in Nat /\ (\A n \in 1 .. m : CharLen(s[n]) \in Nat) /\ a \in 0 .. m /\ b \in 0 .. m /\ b >= a
  BY CharIs
<1>2. \A k \in 0 .. m : g[k] \in Nat
  OBVIOUS
<1>3. \A n \in 1 .. m : g[n] = g[n - 1] + CharLen(s[n])
  BY DEF Measures
<1>. HIDE DEF m
<1>4. 0 \in S
  BY <1>1, <1>2
<1>5. ASSUME NEW k \in 0 .. m - 1, k \in S
      PROVE  k + 1 \in S
  <2>. DEFINE j == k + 1
  <2>1. j \in 1 .. m /\ j \in 0 .. m /\ j - 1 = k /\ k \in 0 .. m /\ (j >= a => j = a \/ k >= a)
    BY <1>1
  <2>. HIDE DEF j
  <2>2. g[j] = g[k] + CharLen(s[j]) /\ CharLen(s[j]) \in Nat /\ g[j] \in Nat /\ g[k] \in Nat /\ g[a] \in Nat
    BY <1>1, <1>2, <1>3, <2>1
  <2>3. j >= a => g[a] <= g[j]
    BY <1>5, <2>1, <2>2
  <2> QED
    BY <2>1, <2>3 DEF j
<1>. HIDE DEF S
<1>6. b \in S
  <2>1. \A k \in 0 .. m : k \in S
    BY <1>1, <1>4, <1>5, InductionUpTo
  <2> QED
    BY <1>1, <2>1
<1> QED
  BY <1>1, <1>6 DEF S

\* The beginning that is kept fits, and no longer one does.
LEMMA TruncatedIs ==
    ASSUME NEW s \in Seq(Scalars)
    PROVE  \E cut \in 0 .. Len(s) :
              /\ Truncated(s) = SubSeq(s, 1, cut)
              /\ ModifiedLen(Truncated(s)) <= MaxStringLen
              /\ \A n \in 0 .. Len(s) : ModifiedLen(SubSeq(s, 1, n)) <= MaxStringLen => n <= cut
<1>. DEFINE m == Len(s)
            Fits(n) == ModifiedLen(SubSeq(s, 1, n)) <= MaxStringLen
            Ends(n) == Fits(n) /\ (n = m \/ ~Fits(n + 1))
            cut == CHOOSE n \in 0 .. m : Ends(n)
            K == {n \in 0 .. m : ~Fits(n)}
<1>1. m \in Nat /\ MaxStringLen \in Nat
  BY CharIs, ModifiedUtf8Assumption
<1>2. PICK g \in [0 .. m -> Nat] : Measures(g, s)
  BY ModifiedLenIs
<1>3. \A n \in 0 .. m : Fits(n) <=> g[n] <= MaxStringLen
  BY <1>2, BeginningIs
<1>4. Truncated(s) = SubSeq(s, 1, cut)
  BY DEF Truncated
<1>. HIDE DEF m, Fits
<1>5. Fits(0)
  <2>1. 0 \in 0 .. m /\ g[0] = 0
    BY <1>1, <1>2 DEF Measures
  <2> QED
    BY <1>1, <1>3, <2>1
<1>6. \E n \in 0 .. m : Ends(n)
  <2>1. CASE K = {}
    <3>1. m \in 0 .. m
      BY <1>1
    <3>2. Fits(m)
      BY <2>1, <3>1
    <3> QED
      BY <3>1, <3>2
  <2>2. CASE K # {}
    <3>1. K \in SUBSET Nat
      BY <1>1
    <3>. HIDE DEF K
    <3>2. PICK k \in K : \A j \in K : k <= j
      BY <2>2, <3>1, LeastMember
    <3>3. k \in 0 .. m /\ ~Fits(k) /\ k # 0
      BY <1>5, <3>2 DEF K
    <3>. DEFINE n == k - 1
    <3>4. n \in 0 .. m /\ n + 1 = k /\ n < k /\ n \in Int /\ k \in Int
      BY <1>1, <3>3
    <3>. HIDE DEF n
    <3>5. n \notin K
      BY <3>2, <3>4
    <3>6. Fits(n) /\ ~Fits(n + 1)
      BY <3>3, <3>4, <3>5 DEF K
    <3> QED
      BY <3>4, <3>6
  <2> QED
    BY <2>1, <2>2
<1>7. cut \in 0 .. m /\ Ends(cut)
  <2>. HIDE DEF Ends
  <2> QED
    BY <1>6
<1>. HIDE DEF cut
<1>8. Fits(cut) /\ (cut = m \/ ~Fits(cut + 1))
  BY <1>7
<1>9. ASSUME NEW n \in 0 .. m, Fits(n)
      PROVE  n <= cut
  <2> SUFFICES ASSUME ~ n <= cut PROVE FALSE
    OBVIOUS
  <2>. DEFINE k == cut + 1
  <2>1. k \in 0 .. m /\ n \in k .. m /\ cut # m
    BY <1>1, <1>7
  <2>. HIDE DEF k
  <2>2. g[k] <= g[n] /\ g[k] \in Nat /\ g[n] \in Nat
    BY <1>2, <2>1, MeasuresGrow DEF m
  <2>3. g[n] <= MaxStringLen
    BY <1>3, <1>9
  <2>4. ~ g[k] <= MaxStringLen
    BY <1>3, <1>8, <2>1 DEF k
  <2> QED
    BY <1>1, <2>2, <2>3, <2>4
<1> QED
  BY <1>4, <1>7, <1>8, <1>9 DEF m, Fits

-----------------------------------------------------------------------------
(* What is written for a string, and what it decodes to.                   *)

\* f holds the encodings of the beginnings of a string.
Spells(f, s) == f[0] = <<>> /\ \A n \in 1 .. Len(s) : f[n] = f[n - 1] \o EncodedChar(s[n])

LEMMA WrittenIs ==
    ASSUME NEW s \in Seq(Scalars), NEW kept \in Seq(Scalars), kept = Truncated(s)
    PROVE  \E f \in [0 .. Len(kept) -> Seq(Int)] :
              Spells(f, kept) /\ WrittenString(s) = <<ModifiedLen(kept)>> \o f[Len(kept)]
<1>. DEFINE m == Len(kept)
            step == [n \in 1 .. m |-> [x \in Seq(Int) |-> x \o EncodedChar(kept[n])]]
            Body(f) == [n \in 0 .. m |-> IF n = 0 THEN <<>> ELSE f[n - 1] \o EncodedChar(kept[n])]
            bytes == CHOOSE f : f = Body(f)
<1>1. m \in Nat /\ \A n \in 1 .. m : EncodedChar(kept[n]) \in Seq(Int)
  BY CharIs, CodeIs
<1>. HIDE DEF m
<1>2. step \in [1 .. m -> [Seq(Int) -> Seq(Int)]]
  <2>1. ASSUME NEW n \in 1 .. m, NEW x \in Seq(Int) PROVE x \o EncodedChar(kept[n]) \in Seq(Int)
    BY <1>1, ConcatProperties
  <2> QED
    BY <2>1
<1>3. PICK f \in [0 .. m -> Seq(Int)] : Computed(f, m, <<>>, step)
  <2>. HIDE DEF step
  <2>1. <<>> \in Seq(Int)
    BY EmptySeq
  <2> QED
    BY <1>1, <1>2, <2>1, Recursion
<1>4. f[0] = <<>> /\ \A n \in 1 .. m : f[n] = f[n - 1] \o EncodedChar(kept[n])
  <2>1. ASSUME NEW n \in 1 .. m PROVE f[n] = f[n - 1] \o EncodedChar(kept[n])
    <3>1. n - 1 \in 0 .. m
      BY <1>1
    <3>2. f[n - 1] \in Seq(Int)
      BY <1>3, <3>1
    <3>3. f[n] = step[n][f[n - 1]]
      BY <1>3 DEF Computed
    <3> QED
      BY <3>2, <3>3
  <2> QED
    BY <1>3, <2>1 DEF Computed
<1>5. f = Body(f)
  <2>1. ASSUME NEW n \in 0 .. m PROVE f[n] = IF n = 0 THEN <<>> ELSE f[n - 1] \o EncodedChar(kept[n])
    <3>1. CASE n = 0
      BY <1>4, <3>1
    <3>2. CASE n # 0
      <4>1. n \in 1 .. m
        BY <1>1, <3>2
      <4> QED
        BY <1>4, <3>2, <4>1
    <3> QED
      BY <3>1, <3>2
  <2> QED
    BY <1>3, <2>1
<1>6. bytes = Body(bytes)
  <2>. HIDE DEF Body
  <2> QED
    BY <1>5
<1>. HIDE DEF bytes
<1>7. bytes[0] = <<>>
  <2>1. 0 \in 0 .. m
    BY <1>1
  <2> QED
    BY <1>6, <2>1
<1>8. \A n \in 1 .. m : bytes[n] = bytes[n - 1] \o EncodedChar(kept[n])
  <2> TAKE n \in 1 .. m
  <2>1. n \in 0 .. m /\ n # 0
    BY <1>1
  <2> QED
    BY <1>6, <2>1
<1>. DEFINE S == {n \in 0 .. m : bytes[n] \in Seq(Int)}
<1>9. 0 \in S
  <2>1. 0 \in 0 .. m /\ <<>> \in Seq(Int)
    BY <1>1, EmptySeq
  <2> QED
    BY <1>7, <2>1
<1>10. ASSUME NEW n \in 0 .. m - 1, n \in S
       PROVE  n + 1 \in S
  <2>. DEFINE k == n + 1
  <2>1. k \in 1 .. m /\ k \in 0 .. m /\ k - 1 = n
    BY <1>1
  <2>. HIDE DEF k
  <2>2. bytes[k] = bytes[n] \o EncodedChar(kept[k])
    BY <1>8, <2>1
  <2>3. bytes[n] \in Seq(Int) /\ EncodedChar(kept[k]) \in Seq(Int)
    BY <1>1, <1>10, <2>1
  <2>4. bytes[k] \in Seq(Int)
    BY <2>2, <2>3, ConcatProperties
  <2> QED
    BY <2>1, <2>4 DEF k
<1>. HIDE DEF S
<1>11. \A n \in 0 .. m : n \in S
  BY <1>1, <1>9, <1>10, InductionUpTo
<1>12. bytes \in [0 .. m -> Seq(Int)]
  <2>1. bytes = [n \in 0 .. m |-> bytes[n]]
    BY <1>6
  <2> QED
    BY <1>11, <2>1 DEF S
<1>13. WrittenString(s) = <<ModifiedLen(kept)>> \o bytes[m]
  BY DEF WrittenString, bytes, m
<1> QED
  BY <1>7, <1>8, <1>12, <1>13 DEF Spells, m

\* Code stays where it is when more is written behind it.
LEMMA AtStays ==
    ASSUME NEW x \in Seq(Int), NEW y \in Seq(Int), NEW code \in Seq(Int), NEW i \in Nat \ {0},
           At(x, i, code)
    PROVE  At(x \o y, i, code)
<1>. DEFINE a == Len(x)
            b == Len(y)
            c == Len(code)
            z == x \o y
<1>1. a \in Nat /\ b \in Nat /\ c \in Nat
  BY LenProperties
<1>2. /\ Len(z) = a + b
      /\ \A k \in 1 .. a + b : z[k] = IF k <= a THEN x[k] ELSE y[k - a]
  BY ConcatProperties
<1>3. i + c <= a + 1 /\ \A j \in 1 .. c : x[i + j - 1] = code[j]
  BY DEF At
<1>. HIDE DEF a, b, c, z
<1>4. ASSUME NEW j \in 1 .. c PROVE z[i + j - 1] = code[j]
  <2>. DEFINE k == i + j - 1
  <2>1. k \in 1 .. a + b /\ k <= a
    BY <1>1, <1>3
  <2>2. x[k] = code[j]
    BY <1>3
  <2>. HIDE DEF k
  <2>3. z[k] = x[k]
    BY <1>2, <2>1
  <2> QED
    BY <2>2, <2>3 DEF k
<1>5. i + c <= (a + b) + 1
  BY <1>1, <1>3
<1> QED
  BY <1>2, <1>4, <1>5 DEF At, c, z

LEMMA AtEnd ==
    ASSUME NEW x \in Seq(Int), NEW y \in Seq(Int)
    PROVE  At(x \o y, Len(x) + 1, y)
<1>. DEFINE a == Len(x)
            b == Len(y)
            z == x \o y
<1>1. a \in Nat /\ b \in Nat
  BY LenProperties
<1>2. /\ Len(z) = a + b
      /\ \A k \in 1 .. a + b : z[k] = IF k <= a THEN x[k] ELSE y[k - a]
  BY ConcatProperties
<1>. HIDE DEF a, b, z
<1>3. ASSUME NEW j \in 1 .. b PROVE z[a + 1 + j - 1] = y[j]
  <2>. DEFINE k == a + j
  <2>1. k \in 1 .. a + b /\ ~ (k <= a) /\ k - a = j /\ a + 1 + j - 1 = k
    BY <1>1
  <2>. HIDE DEF k
  <2> QED
    BY <1>2, <2>1
<1>4. a + 1 + b <= (a + b) + 1
  BY <1>1
<1> QED
  BY <1>2, <1>3, <1>4 DEF At, a, b, z

\* The code of each character is behind the codes of those in front of it.
LEMMA SpelledAt ==
    ASSUME NEW s \in Seq(Scalars), NEW f \in [0 .. Len(s) -> Seq(Int)], Spells(f, s),
           NEW g \in [0 .. Len(s) -> Nat], Measures(g, s)
    PROVE  /\ Len(f[Len(s)]) = g[Len(s)]
           /\ \A n \in 1 .. Len(s) : At(f[Len(s)], g[n - 1] + 1, EncodedChar(s[n]))
<1>. DEFINE m == Len(s)
            There(k, n) == At(f[k], g[n - 1] + 1, EncodedChar(s[n]))
            S == {k \in 0 .. m : Len(f[k]) = g[k] /\ \A n \in 1 .. k : There(k, n)}
<1>1. m \in Nat /\ \A n \in 1 .. m : /\ EncodedChar(s[n]) \in Seq(Int)
                                     /\ Len(EncodedChar(s[n])) = CharLen(s[n])
                                     /\ CharLen(s[n]) \in Nat
  BY CharIs, CodeIs
<1>2. \A k \in 0 .. m : f[k] \in Seq(Int) /\ g[k] \in Nat
  OBVIOUS
<1>3. f[0] = <<>> /\ \A n \in 1 .. m : f[n] = f[n - 1] \o EncodedChar(s[n])
  BY DEF Spells
<1>4. g[0] = 0 /\ \A n \in 1 .. m : g[n] = g[n - 1] + CharLen(s[n])
  BY DEF Measures
<1>. HIDE DEF m
<1>5. 0 \in S
  <2>1. Len(f[0]) = g[0]
    BY <1>3, <1>4
  <2>2. 1 .. 0 = {} /\ 0 \in 0 .. m
    BY <1>1
  <2>. HIDE DEF There
  <2> QED
    BY <2>1, <2>2
<1>6. ASSUME NEW k \in 0 .. m - 1, k \in S
      PROVE  k + 1 \in S
  <2>. DEFINE j == k + 1
              code == EncodedChar(s[j])
              x == f[k]
  <2>1. j \in 1 .. m /\ j \in 0 .. m /\ j - 1 = k /\ k \in 0 .. m
    BY <1>1
  <2>2. \A n \in 1 .. j : n = j \/ n \in 1 .. k
    BY <1>1
  <2>. HIDE DEF j
  <2>3. x \in Seq(Int) /\ code \in Seq(Int) /\ f[j] = x \o code /\ g[j] = g[k] + CharLen(s[j])
    BY <1>1, <1>2, <1>3, <1>4, <2>1
  <2>4. Len(code) = CharLen(s[j]) /\ Len(x) = g[k] /\ \A n \in 1 .. k : There(k, n)
    BY <1>1, <1>6, <2>1
  <2>. HIDE DEF code, x
  <2>5. Len(f[j]) = g[j]
    <3>1. Len(x \o code) = Len(x) + Len(code)
      BY <2>3, ConcatProperties
    <3> QED
      BY <2>3, <2>4, <3>1
  <2>6. There(j, j)
    <3>1. At(x \o code, Len(x) + 1, code)
      BY <2>3, AtEnd
    <3>2. g[j - 1] + 1 = Len(x) + 1 /\ f[j] = x \o code
      BY <2>1, <2>3, <2>4
    <3> QED
      BY <3>1, <3>2, Zenon DEF code
  <2>7. ASSUME NEW n \in 1 .. k PROVE There(j, n)
    <3>. DEFINE i == g[n - 1] + 1
                c == EncodedChar(s[n])
    <3>1. n \in 1 .. m /\ n - 1 \in 0 .. m
      BY <1>1, <2>1
    <3>2. i \in Nat \ {0}
      <4>1. g[n - 1] \in Nat
        BY <1>2, <3>1, Zenon
      <4> QED
        BY <4>1
    <3>3. c \in Seq(Int)
      BY <1>1, <3>1, Zenon
    <3>4. At(x, i, c)
      BY <2>4 DEF x
    <3>. HIDE DEF i, c
    <3>5. At(x \o code, i, c)
      BY <2>3, <3>2, <3>3, <3>4, AtStays
    <3> QED
      BY <2>3, <3>5 DEF i, c
  <2>. HIDE DEF There
  <2>8. \A n \in 1 .. j : There(j, n)
    BY <2>2, <2>6, <2>7
  <2> QED
    BY <2>1, <2>5, <2>8 DEF j
<1>. HIDE DEF S
<1>7. m \in S
  <2>1. \A k \in 0 .. m : k \in S
    BY <1>1, <1>5, <1>6, InductionUpTo
  <2> QED
    BY <1>1, <2>1
<1> QED
  BY <1>7 DEF S, m

\* A character in front of the rest of its string.
LEMMA CharAndRest ==
    ASSUME NEW s \in Seq(Scalars), NEW n \in 1 .. Len(s)
    PROVE  <<s[n]>> \o SubSeq(s, n + 1, Len(s)) = SubSeq(s, n, Len(s))
<1>. DEFINE m == Len(s)
            r == SubSeq(s, n + 1, m)
            t == SubSeq(s, n, m)
            x == <<s[n]>>
            u == x \o r
<1>1. m \in Nat /\ n \in Int /\ n + 1 \in Int /\ m \in Int /\ \A k \in 1 .. m : s[k] \in Scalars
  BY CharIs
<1>2. /\ t \in Seq(Scalars) /\ Len(t) = m - n + 1
      /\ \A k \in 1 .. m - n + 1 : t[k] = s[n + k - 1]
  <2>1. \A k \in n .. m : s[k] \in Scalars
    BY <1>1
  <2>2. /\ t \in Seq(Scalars) /\ Len(t) = IF n <= m THEN m - n + 1 ELSE 0
        /\ \A k \in 1 .. m - n + 1 : t[k] = s[n + k - 1]
    BY <1>1, <2>1, SubSeqProperties
  <2>3. n <= m
    BY <1>1
  <2>. HIDE DEF t, m
  <2> QED
    BY <2>2, <2>3
<1>3. /\ r \in Seq(Scalars) /\ Len(r) = m - n
      /\ \A k \in 1 .. m - n : r[k] = s[n + k]
  <2>. DEFINE j == n + 1
  <2>1. j \in Int /\ (IF j <= m THEN m - j + 1 ELSE 0) = m - n /\ m - j + 1 = m - n
    BY <1>1
  <2>2. \A k \in j .. m : s[k] \in Scalars
    BY <1>1
  <2>3. \A k \in 1 .. m - n : j + k - 1 = n + k
    BY <1>1
  <2>4. r = SubSeq(s, j, m)
    OBVIOUS
  <2>. HIDE DEF j, r
  <2>5. /\ r \in Seq(Scalars) /\ Len(r) = IF j <= m THEN m - j + 1 ELSE 0
        /\ \A k \in 1 .. m - j + 1 : r[k] = s[j + k - 1]
    BY <1>1, <2>1, <2>2, <2>4, SubSeqProperties
  <2>. HIDE DEF m
  <2> QED
    BY <2>1, <2>3, <2>5
<1>. HIDE DEF r, t, m
<1>4. x \in Seq(Scalars) /\ Len(x) = 1 /\ x[1] = s[n]
  BY <1>1 DEF m
<1>. HIDE DEF x
<1>5. /\ u \in Seq(Scalars) /\ Len(u) = Len(x) + Len(r)
      /\ \A k \in 1 .. Len(x) + Len(r) : u[k] = IF k <= Len(x) THEN x[k] ELSE r[k - Len(x)]
  BY <1>3, <1>4, ConcatProperties
<1>. HIDE DEF u
<1>6. Len(u) = Len(t) /\ Len(t) \in Nat /\ Len(x) + Len(r) = Len(t)
  BY <1>1, <1>2, <1>3, <1>4, <1>5 DEF m
<1>7. ASSUME NEW k \in 1 .. Len(t) PROVE u[k] = t[k]
  <2>1. u[k] = IF k <= 1 THEN x[k] ELSE r[k - 1]
    BY <1>4, <1>5, <1>6
  <2>2. k \in 1 .. m - n + 1 /\ t[k] = s[n + k - 1] /\ k \in Int /\ k >= 1
    BY <1>1, <1>2
  <2>3. CASE k = 1
    <3>1. n + 1 - 1 = n
      BY <1>1
    <3> QED
      BY <1>4, <2>1, <2>2, <2>3, <3>1
  <2>4. CASE k # 1
    <3>. DEFINE j == k - 1
    <3>1. j \in 1 .. m - n /\ n + j = n + k - 1 /\ ~ (k <= 1)
      BY <1>1, <2>2, <2>4
    <3>2. u[k] = r[j]
      BY <2>1, <3>1
    <3>. HIDE DEF j
    <3>3. r[j] = s[n + j]
      BY <1>3, <3>1
    <3> QED
      BY <2>2, <3>1, <3>2, <3>3
  <2> QED
    BY <2>3, <2>4
<1>8. u = t
  BY <1>2, <1>5, <1>6, <1>7, SeqEqual
<1> QED
  BY <1>8 DEF u, x, r, t, m

LEMMA RestEmpty ==
    ASSUME NEW s \in Seq(Scalars)
    PROVE  SubSeq(s, Len(s) + 1, Len(s)) = <<>>
<1>. DEFINE m == Len(s)
            r == SubSeq(s, m + 1, m)
<1>1. m \in Nat /\ m + 1 \in Int /\ ~ (m + 1 <= m) /\ \A k \in m + 1 .. m : s[k] \in Scalars
  BY CharIs
<1>2. r \in Seq(Scalars) /\ Len(r) = 0
  BY <1>1, SubSeqProperties
<1>. HIDE DEF r
<1>3. r = <<>>
  BY <1>2, EmptySeq
<1> QED
  BY <1>3 DEF r

\* The encoding of a string decodes to the string.
LEMMA DecodesTo ==
    ASSUME NEW s \in Seq(Scalars), NEW f \in [0 .. Len(s) -> Seq(Int)], Spells(f, s)
    PROVE  Len(f[Len(s)]) = ModifiedLen(s) /\ Decoded(f[Len(s)]) = [ok |-> TRUE, chars |-> s]
<1>. DEFINE m == Len(s)
            bytes == f[m]
            l == Len(bytes)
<1>1. PICK g \in [0 .. m -> Nat] : Measures(g, s) /\ ModifiedLen(s) = g[m]
  BY ModifiedLenIs
<1>2. l = g[m] /\ \A n \in 1 .. m : At(bytes, g[n - 1] + 1, EncodedChar(s[n]))
  BY <1>1, SpelledAt
<1>3. m \in Nat /\ \A n \in 1 .. m : s[n] \in Scalars /\ CharLen(s[n]) \in Nat \ {0}
  BY CharIs
<1>4. bytes \in Seq(Int) /\ g[m] \in Nat
  BY <1>1, <1>3
<1>5. g[0] = 0 /\ \A n \in 1 .. m : g[n] = g[n - 1] + CharLen(s[n])
  BY <1>1 DEF Measures
<1>6. \A n \in 0 .. m : g[n] \in Nat /\ g[n] <= g[m]
  <2> TAKE n \in 0 .. m
  <2>1. m \in n .. m
    BY <1>3
  <2> QED
    BY <1>1, <2>1, MeasuresGrow
<1>. HIDE DEF bytes
<1>7. PICK from \in [1 .. l + 1 -> Strings] : Decoded(bytes) = from[1] /\ DecodesFrom(bytes, from)
  BY <1>4, DecodedFrom
<1>. DEFINE Rest(n) == [ok |-> TRUE, chars |-> SubSeq(s, n + 1, m)]
            S == {k \in 0 .. m : from[g[m - k] + 1] = Rest(m - k)}
<1>8. 0 \in S
  <2>1. m - 0 = m /\ 0 \in 0 .. m
    BY <1>3
  <2>2. SubSeq(s, m + 1, m) = <<>>
    BY <1>3, RestEmpty
  <2>3. from[l + 1] = [ok |-> TRUE, chars |-> <<>>]
    BY <1>7 DEF DecodesFrom
  <2> QED
    BY <1>2, <2>1, <2>2, <2>3
<1>9. ASSUME NEW k \in 0 .. m - 1, k \in S
      PROVE  k + 1 \in S
  <2>. DEFINE n == m - k
              i == g[n - 1] + 1
              c == s[n]
              w == CharLen(c)
  <2>1. n \in 1 .. m /\ n \in 0 .. m /\ n - 1 \in 0 .. m /\ m - (k + 1) = n - 1 /\ k + 1 \in 0 .. m /\ n - 1 + 1 = n
    BY <1>3
  <2>2. from[g[n] + 1] = Rest(n)
    BY <1>9
  <2>. HIDE DEF n
  <2>3. c \in Scalars /\ w \in Nat \ {0} /\ g[n] = g[n - 1] + w /\ g[n - 1] \in Nat /\ g[n] \in Nat /\ g[n] <= g[m]
    BY <1>3, <1>5, <1>6, <2>1
  <2>4. At(bytes, i, EncodedChar(c))
    BY <1>2, <2>1
  <2>. HIDE DEF c, w
  <2>5. i \in Nat \ {0} /\ i \in 1 .. l /\ i + w = g[n] + 1
    <3>. DEFINE x == g[n - 1]
                y == g[n]
                z == g[m]
    <3>1. x \in Nat /\ y = x + w /\ y <= z /\ z \in Nat /\ l = z
      BY <1>2, <1>4, <2>3
    <3>. HIDE DEF x, y, z, l
    <3>2. x + 1 \in Nat \ {0} /\ x + 1 \in 1 .. l /\ x + 1 + w = y + 1
      BY <2>3, <3>1
    <3> QED
      BY <3>2 DEF x, y
  <2>. HIDE DEF i, l
  <2>6. CharAt(bytes, i) = [used |-> w, char |-> c]
    BY <1>4, <2>3, <2>4, <2>5, CharThere DEF w
  <2>7. CharAt(bytes, i) # Bad /\ CharAt(bytes, i).used = w /\ CharAt(bytes, i).char = c
    BY <2>3, <2>6 DEF Bad
  <2>8. from[i] = [ok |-> from[i + w].ok, chars |-> <<c>> \o from[i + w].chars]
    BY <1>7, <2>5, <2>7 DEF DecodesFrom, l
  <2>9. <<c>> \o SubSeq(s, n + 1, m) = SubSeq(s, n, m)
    BY <2>1, CharAndRest DEF c
  <2>10. from[i] = [ok |-> TRUE, chars |-> SubSeq(s, n, m)]
    <3>. DEFINE rest == SubSeq(s, n + 1, m)
    <3>1. from[i + w] = [ok |-> TRUE, chars |-> rest]
      BY <2>2, <2>5
    <3>. HIDE DEF rest
    <3>2. from[i + w].ok = TRUE /\ from[i + w].chars = rest
      BY <3>1
    <3>3. from[i] = [ok |-> TRUE, chars |-> <<c>> \o rest]
      BY <2>8, <3>2
    <3> QED
      BY <2>9, <3>3, Zenon DEF rest
  <2>11. from[g[m - (k + 1)] + 1] = Rest(m - (k + 1))
    BY <2>1, <2>10 DEF i
  <2> QED
    BY <2>1, <2>11
<1>. HIDE DEF S
<1>10. m \in S
  <2>1. \A k \in 0 .. m : k \in S
    BY <1>3, <1>8, <1>9, InductionUpTo
  <2> QED
    BY <1>3, <2>1
<1>11. from[1] = [ok |-> TRUE, chars |-> s]
  <2>1. m - m = 0 /\ 0 + 1 = 1 /\ g[0] = 0
    BY <1>3, <1>5
  <2>2. SubSeq(s, 1, m) = s
    BY SubSeqFull
  <2> QED
    BY <1>10, <2>1, <2>2 DEF S
<1> QED
  BY <1>1, <1>2, <1>7, <1>11 DEF bytes

LEMMA SliceIs ==
    ASSUME NEW w \in Seq(Int), NEW d \in Int, NEW e \in Int, 1 <= d, d <= e + 1, e <= Len(w)
    PROVE  /\ SubSeq(w, d, e) \in Seq(Int) /\ Len(SubSeq(w, d, e)) = e - d + 1
           /\ \A k \in 1 .. e - d + 1 : SubSeq(w, d, e)[k] = w[d + k - 1]
<1>1. Len(w) \in Nat /\ \A k \in 1 .. Len(w) : w[k] \in Int
  BY LenProperties, ElementOfSeq
<1>2. \A k \in d .. e : k \in 1 .. Len(w)
  BY <1>1
<1>3. \A k \in d .. e : w[k] \in Int
  BY <1>1, <1>2
<1>. DEFINE p == SubSeq(w, d, e)
<1>4. p \in Seq(Int)
  BY <1>3, SubSeqProperties
<1>5. Len(p) = IF d <= e THEN e - d + 1 ELSE 0
  BY <1>3, SubSeqProperties
<1>6. \A k \in 1 .. e - d + 1 : p[k] = w[d + k - 1]
  BY <1>3, SubSeqProperties
<1>. HIDE DEF p
<1>7. Len(p) = e - d + 1
  BY <1>5
<1> QED
  BY <1>4, <1>6, <1>7 DEF p

\* A count, what it counts, and more fields.
Counted(b, rest) == (<<Len(b)>> \o b) \o rest

LEMMA CountedIs ==
    ASSUME NEW b \in Seq(Int), NEW rest \in Seq(Int)
    PROVE  LET w == Counted(b, rest)
           IN  /\ w \in Seq(Int) /\ w # <<>> /\ Head(w) = Len(b) /\ Len(w) = 1 + Len(b) + Len(rest)
               /\ SubSeq(w, 2, 1 + Len(b)) = b
               /\ SubSeq(w, 2 + Len(b), Len(w)) = rest
<1>. DEFINE w == Counted(b, rest)
            l == Len(b)
            r == Len(rest)
            x == <<l>>
            v == x \o b
            p == SubSeq(w, 2, 1 + l)
            q == SubSeq(w, 2 + l, Len(w))
<1>1. l \in Nat /\ r \in Nat
  BY LenProperties
<1>. HIDE DEF l, r
<1>2. x \in Seq(Int) /\ Len(x) = 1 /\ x[1] = l
  BY <1>1
<1>. HIDE DEF x
<1>3. /\ v \in Seq(Int) /\ Len(v) = 1 + l
      /\ \A k \in 1 .. 1 + l : v[k] = IF k <= 1 THEN x[k] ELSE b[k - 1]
  <2>1. /\ v \in Seq(Int) /\ Len(v) = Len(x) + Len(b)
        /\ \A k \in 1 .. Len(x) + Len(b) : v[k] = IF k <= Len(x) THEN x[k] ELSE b[k - Len(x)]
    BY <1>2, ConcatProperties, Zenon
  <2> QED
    BY <1>2, <2>1, Zenon DEF l
<1>4. w = v \o rest
  BY DEF Counted, v, x, l
<1>. HIDE DEF v, w
<1>5. /\ w \in Seq(Int) /\ Len(w) = 1 + l + r
      /\ \A k \in 1 .. 1 + l + r : w[k] = IF k <= 1 + l THEN v[k] ELSE rest[k - (1 + l)]
  <2>1. /\ w \in Seq(Int) /\ Len(w) = Len(v) + Len(rest)
        /\ \A k \in 1 .. Len(v) + Len(rest) : w[k] = IF k <= Len(v) THEN v[k] ELSE rest[k - Len(v)]
    BY <1>3, <1>4, ConcatProperties, Zenon
  <2> QED
    BY <1>3, <2>1, Zenon DEF r
<1>6. w # <<>> /\ Head(w) = l
  <2>1. Len(w) # 0
    BY <1>1, <1>5
  <2>2. w # <<>>
    BY <2>1
  <2>3. Head(w) = w[1]
    BY <1>5, <2>2
  <2>4. 1 \in 1 .. 1 + l + r /\ 1 <= 1 + l /\ 1 \in 1 .. 1 + l
    BY <1>1
  <2>5. w[1] = v[1] /\ v[1] = x[1]
    BY <1>3, <1>5, <2>4
  <2> QED
    BY <1>2, <2>2, <2>3, <2>5
<1>7. p = b
  <2>. DEFINE e == 1 + l
  <2>2. e \in Int /\ e - 2 + 1 = l /\ 2 <= e + 1 /\ e <= Len(w) /\ 2 \in Int /\ 1 <= 2
    BY <1>1, <1>5
  <2>4. p = SubSeq(w, 2, e)
    OBVIOUS
  <2>. HIDE DEF p, e
  <2>5. /\ p \in Seq(Int) /\ Len(p) = e - 2 + 1
        /\ \A k \in 1 .. e - 2 + 1 : p[k] = w[2 + k - 1]
    BY <1>5, <2>2, <2>4, SliceIs, Zenon
  <2>6. Len(p) = l /\ \A k \in 1 .. l : p[k] = w[2 + k - 1]
    BY <2>2, <2>5
  <2>7. ASSUME NEW k \in 1 .. l PROVE p[k] = b[k]
    <3>. DEFINE j == k + 1
    <3>1. j \in 1 .. 1 + l + r /\ j <= 1 + l /\ j \in 1 .. 1 + l /\ ~ (j <= 1) /\ j - 1 = k /\ 2 + k - 1 = j
      BY <1>1
    <3>. HIDE DEF j
    <3>2. w[j] = v[j]
      BY <1>5, <3>1
    <3>3. v[j] = b[j - 1]
      BY <1>3, <3>1
    <3> QED
      BY <2>6, <3>1, <3>2, <3>3
  <2> QED
    BY <2>5, <2>6, <2>7, SeqEqual DEF l
<1>8. q = rest
  <2>. DEFINE d == 2 + l
              e == Len(w)
  <2>1. d \in Int /\ e \in Int /\ e - d + 1 = r /\ 1 <= d /\ d <= e + 1 /\ e <= Len(w)
    BY <1>1, <1>5
  <2>3. q = SubSeq(w, d, e)
    OBVIOUS
  <2>4. \A k \in 1 .. r : d + k - 1 = k + (1 + l)
    BY <1>1
  <2>. HIDE DEF q, d, e
  <2>5. /\ q \in Seq(Int) /\ Len(q) = e - d + 1
        /\ \A k \in 1 .. e - d + 1 : q[k] = w[d + k - 1]
    BY <1>5, <2>1, <2>3, SliceIs, Zenon
  <2>6. Len(q) = r /\ \A k \in 1 .. r : q[k] = w[d + k - 1]
    BY <2>1, <2>5
  <2>7. ASSUME NEW k \in 1 .. r PROVE q[k] = rest[k]
    <3>. DEFINE j == k + (1 + l)
    <3>1. j \in 1 .. 1 + l + r /\ ~ (j <= 1 + l) /\ j - (1 + l) = k /\ d + k - 1 = j
      BY <1>1, <2>4
    <3>. HIDE DEF j
    <3>2. w[j] = rest[j - (1 + l)]
      BY <1>5, <3>1
    <3> QED
      BY <2>6, <3>1, <3>2
  <2> QED
    BY <2>5, <2>6, <2>7, SeqEqual DEF r
<1> QED
  BY <1>5, <1>6, <1>7, <1>8 DEF p, q, l, r, w

\* write_modified_utf8 and read_modified_utf8 agree about every string, whatever
\* follows it: what is read is what was kept, to the last byte announced, and
\* what was kept is the longest beginning of the string that can be announced.
THEOREM StringsRoundTrip ==
    ASSUME NEW s \in Seq(Scalars), NEW rest \in Seq(Int)
    PROVE  /\ WrittenString(s) \in Seq(Int) /\ WrittenString(s) \o rest \in Seq(Int)
           /\ StringThere(WrittenString(s) \o rest)
           /\ StringAt(WrittenString(s) \o rest) = Truncated(s)
           /\ AfterCounted(WrittenString(s) \o rest) = rest
           /\ IsPrefix(Truncated(s), s)
           /\ ModifiedLen(Truncated(s)) <= MaxStringLen
           /\ \A n \in 0 .. Len(s) :
                 ModifiedLen(SubSeq(s, 1, n)) <= MaxStringLen => n <= Len(Truncated(s))
<1>. DEFINE kept == Truncated(s)
            m == Len(kept)
            w == WrittenString(s) \o rest
<1>1. PICK cut \in 0 .. Len(s) :
          /\ kept = SubSeq(s, 1, cut)
          /\ ModifiedLen(kept) <= MaxStringLen
          /\ \A n \in 0 .. Len(s) : ModifiedLen(SubSeq(s, 1, n)) <= MaxStringLen => n <= cut
  BY TruncatedIs
<1>2. PICK g \in [0 .. Len(s) -> Nat] : Measures(g, s)
  BY ModifiedLenIs
<1>3. kept \in Seq(Scalars) /\ m = cut
  BY <1>1, <1>2, BeginningIs
<1>4. Len(s) \in Nat
  BY CharIs
<1>5. IsPrefix(kept, s)
  <2>1. SubSeq(kept, 1, m) = kept
    BY <1>3, SubSeqFull
  <2>2. m <= Len(s)
    BY <1>3, <1>4
  <2>. HIDE DEF kept, m
  <2>3. SubSeq(kept, 1, m) = SubSeq(s, 1, m)
    BY <1>1, <1>3, <2>1
  <2> QED
    BY <2>2, <2>3 DEF IsPrefix, m
<1>. HIDE DEF kept
<1>6. PICK f \in [0 .. m -> Seq(Int)] :
          Spells(f, kept) /\ WrittenString(s) = <<ModifiedLen(kept)>> \o f[m]
  BY <1>3, WrittenIs DEF kept
<1>. DEFINE b == f[m]
<1>7. Len(b) = ModifiedLen(kept) /\ Decoded(b) = [ok |-> TRUE, chars |-> kept]
  BY <1>3, <1>6, DecodesTo
<1>8. b \in Seq(Int)
  <2>1. m \in 0 .. m
    BY <1>3, <1>4
  <2> QED
    BY <1>6, <2>1
<1>. HIDE DEF b
<1>9. w = Counted(b, rest)
  BY <1>6, <1>7 DEF b, Counted
<1>. HIDE DEF w
<1>10. /\ w \in Seq(Int) /\ w # <<>> /\ Head(w) = Len(b) /\ Len(w) = 1 + Len(b) + Len(rest)
       /\ SubSeq(w, 2, 1 + Len(b)) = b
       /\ SubSeq(w, 2 + Len(b), Len(w)) = rest
  BY <1>8, <1>9, CountedIs
<1>11. Len(b) \in Nat /\ Len(rest) \in Nat
  BY <1>8, LenProperties
<1>12. Head(w) \in 0 .. Len(w) - 1
  <2>. DEFINE x == Len(b)
              y == Len(rest)
  <2>1. x \in Nat /\ y \in Nat
    BY <1>11
  <2>. HIDE DEF x, y
  <2>2. x \in 0 .. (1 + x + y) - 1
    BY <2>1
  <2> QED
    BY <1>10, <2>2, Zenon DEF x, y
<1>13. StringThere(w) /\ StringAt(w) = kept /\ AfterCounted(w) = rest
  <2>1. SubSeq(w, 2, 1 + Head(w)) = b /\ SubSeq(w, 2 + Head(w), Len(w)) = rest
    BY <1>10, Zenon
  <2>2. Decoded(b).ok /\ Decoded(b).chars = kept
    BY <1>7
  <2>3. StringThere(w)
    BY <1>10, <1>12, <2>1, <2>2, Zenon DEF StringThere
  <2>4. StringAt(w) = kept
    BY <2>1, <2>2, Zenon DEF StringAt
  <2>5. AfterCounted(w) = rest
    BY <2>1, Zenon DEF AfterCounted
  <2> QED
    BY <2>3, <2>4, <2>5
<1>14. WrittenString(s) \in Seq(Int)
  <2>. DEFINE x == <<Len(b)>>
  <2>1. x \in Seq(Int)
    BY <1>11
  <2>2. WrittenString(s) = x \o b
    BY <1>6, <1>7 DEF b
  <2>. HIDE DEF x
  <2> QED
    BY <1>8, <2>1, <2>2, ConcatProperties
<1> QED
  <2>1. \A n \in 0 .. Len(s) : ModifiedLen(SubSeq(s, 1, n)) <= MaxStringLen => n <= m
    BY <1>1, <1>3, Zenon
  <2> QED
    BY <1>1, <1>5, <1>10, <1>13, <1>14, <2>1, Zenon DEF w, kept

-----------------------------------------------------------------------------
(* A string that is the root tag.                                          *)

\* Where the reader can be in the tag of a string.
Reading(s) ==
    /\ at \in {"root", "payload", "return", "done"} /\ stack = <<>>
    /\ at = "root" => wire = input
    /\ at = "payload" => type = TagString /\ wire = WrittenString(s)
    /\ at \in {"return", "done"} => wire = <<>> /\ tag = Tag(TagString, TagEnd, Truncated(s))

CutInv == \A s \in LongStrings : input = <<TagString>> \o WrittenString(s) => Reading(s)

LEMMA LongStringsAre ==
    ASSUME NEW s \in LongStrings
    PROVE  s \in Seq(Scalars)
<1>. DEFINE m == Len(s)
<1>1. s \in Seq(Int) /\ \A n \in 1 .. m : IsScalar(s[n])
  BY NbtReaderAssumption
<1>2. m \in Nat /\ \A n \in 1 .. m : s[n] \in Int
  BY <1>1, LenProperties, ElementOfSeq
<1>3. \A n \in 1 .. m : s[n] \in Scalars
  BY <1>1, <1>2 DEF Scalars
<1>4. SubSeq(s, 1, m) \in Seq(Scalars)
  <2>1. 1 \in Int /\ m \in Int
    BY <1>2
  <2>. HIDE DEF m
  <2> QED
    BY <1>3, <2>1, SubSeqProperties
<1>5. SubSeq(s, 1, m) = s
  BY <1>1, SubSeqFull
<1> QED
  BY <1>4, <1>5

LEMMA InFrontOf ==
    ASSUME NEW x \in Seq(Int), Len(x) = 1, NEW w \in Seq(Int)
    PROVE  x \o w # <<>> /\ Head(x \o w) = x[1] /\ Tail(x \o w) = w
<1>. DEFINE u == x \o w
            v == Tail(u)
            l == Len(w)
<1>1. /\ u \in Seq(Int) /\ Len(u) = 1 + l
      /\ \A k \in 1 .. 1 + l : u[k] = IF k <= 1 THEN x[k] ELSE w[k - 1]
  <2>1. /\ u \in Seq(Int) /\ Len(u) = Len(x) + l
        /\ \A k \in 1 .. Len(x) + l : u[k] = IF k <= Len(x) THEN x[k] ELSE w[k - Len(x)]
    BY ConcatProperties, Zenon
  <2>. HIDE DEF u, l
  <2> QED
    BY <2>1, Zenon
<1>2. l \in Nat
  BY LenProperties
<1>. HIDE DEF u, l
<1>3. u # <<>> /\ Head(u) = u[1] /\ u[1] = x[1]
  BY <1>1, <1>2
<1>4. v \in Seq(Int) /\ Len(v) = l /\ \A k \in 1 .. l : v[k] = u[k + 1]
  BY <1>1, <1>2, <1>3, HeadTailProperties
<1>. HIDE DEF v
<1>5. ASSUME NEW k \in 1 .. l PROVE v[k] = w[k]
  <2>. DEFINE j == k + 1
  <2>1. j \in 1 .. 1 + l /\ ~ (j <= 1) /\ j - 1 = k
    BY <1>2
  <2>2. v[k] = u[j]
    BY <1>4
  <2>. HIDE DEF j
  <2> QED
    BY <1>1, <2>1, <2>2
<1>6. v = w
  BY <1>4, <1>5, SeqEqual DEF l
<1> QED
  BY <1>3, <1>6 DEF u, v

\* What the reader meets there.
LEMMA StringTag ==
    ASSUME NEW s \in LongStrings
    PROVE  /\ <<TagString>> \o WrittenString(s) # <<>>
           /\ Head(<<TagString>> \o WrittenString(s)) = TagString
           /\ Tail(<<TagString>> \o WrittenString(s)) = WrittenString(s)
           /\ StringThere(WrittenString(s)) /\ StringAt(WrittenString(s)) = Truncated(s)
           /\ AfterCounted(WrittenString(s)) = <<>>
<1>. DEFINE w == WrittenString(s)
            x == <<TagString>>
            u == x \o w
<1>1. s \in Seq(Scalars) /\ <<>> \in Seq(Int)
  BY LongStringsAre, EmptySeq
<1>2. /\ w \in Seq(Int)
      /\ StringThere(w \o <<>>) /\ StringAt(w \o <<>>) = Truncated(s) /\ AfterCounted(w \o <<>>) = <<>>
  BY <1>1, StringsRoundTrip
<1>. HIDE DEF w
<1>3. w \o <<>> = w
  BY <1>2, ConcatEmptySeq
<1>4. x \in Seq(Int) /\ Len(x) = 1 /\ x[1] = TagString
  BY DEF TagString
<1>. HIDE DEF x
<1>5. u # <<>> /\ Head(u) = TagString /\ Tail(u) = w
  BY <1>2, <1>4, InFrontOf
<1> QED
  BY <1>2, <1>3, <1>5, Zenon DEF w, x

\* Its steps, to the end.
LEMMA CutStep ==
    ASSUME NEW s \in LongStrings, input = <<TagString>> \o WrittenString(s), Reading(s), [Next]_vars
    PROVE  Reading(s)'
<1>. DEFINE w == WrittenString(s)
<1>1. input # <<>> /\ Head(input) = TagString /\ Tail(input) = w
  BY StringTag
<1>2. StringThere(w) /\ StringAt(w) = Truncated(s) /\ AfterCounted(w) = <<>>
  BY StringTag
<1>. HIDE DEF w
<1>3. stack = <<>> /\ ~TooDeep
  BY NbtReaderAssumption DEF Reading, TooDeep
<1>4. CASE UNCHANGED vars
  BY <1>4 DEF Reading, vars
<1>5. CASE at = "root" /\ Next
  <2>1. wire = input
    BY <1>5 DEF Reading
  <2>2. ReadRoot
    <3>1. ~FailsRoot
      BY <1>1, <2>1 DEF FailsRoot, TagString, TagEnd
    <3> QED
      BY <1>5, <3>1 DEF Next, Payload, ReadFixed, ReadArray, ReadString, ReadEmptyList, OpenList,
           OpenCompound, ReadEntry, CloseCompound, DeliverRoot, DeliverElement, CloseList, DeliverEntry,
           FailsDeep, FailsPayload, FailsEntry
  <2> QED
    BY <1>1, <1>3, <2>1, <2>2 DEF ReadRoot, Reading, w
<1>6. CASE at = "payload" /\ Next
  <2>1. wire = w /\ type = TagString
    BY <1>6 DEF Reading, w
  <2>2. ReadString
    <3>1. ~FailsPayload
      BY <1>2, <2>1 DEF FailsPayload, Payload, TagString, TagList, Fixed, Arrays
    <3> QED
      BY <1>3, <1>6, <2>1, <3>1 DEF Next, Payload, ReadRoot, ReadFixed, ReadArray, ReadEmptyList, OpenList,
           OpenCompound, ReadEntry, CloseCompound, DeliverRoot, DeliverElement, CloseList, DeliverEntry,
           FailsRoot, FailsDeep, FailsEntry, TagString, TagList, TagCompound, Fixed, Arrays
  <2> QED
    BY <1>2, <1>3, <2>1, <2>2 DEF ReadString, Returns, Reading
<1>7. CASE at = "return" /\ Next
  <2>1. DeliverRoot
    BY <1>3, <1>7 DEF Next, Payload, ReadRoot, ReadFixed, ReadArray, ReadString, ReadEmptyList, OpenList,
       OpenCompound, ReadEntry, CloseCompound, DeliverElement, CloseList, DeliverEntry,
       FailsRoot, FailsDeep, FailsPayload, FailsEntry
  <2> QED
    BY <1>7, <2>1 DEF DeliverRoot, Reading
<1>8. CASE at = "done" /\ Next
  BY <1>8 DEF Next, Payload, ReadRoot, ReadFixed, ReadArray, ReadString, ReadEmptyList, OpenList,
     OpenCompound, ReadEntry, CloseCompound, DeliverRoot, DeliverElement, CloseList, DeliverEntry,
     FailsRoot, FailsDeep, FailsPayload, FailsEntry
<1>9. at \in {"root", "payload", "return", "done"}
  BY DEF Reading
<1> QED
  BY <1>4, <1>5, <1>6, <1>7, <1>8, <1>9

\* nbt.rs:300, "truncated at a character boundary rather than producing a corrupt
\* frame", for every string and every limit: a string that write_network wrote is
\* read to its last field, as the longest beginning that could be announced.
THEOREM LongStringsAreCut == Spec => []LongStringsCut
<1>1. Init => CutInv
  <2> SUFFICES ASSUME Init, NEW s \in LongStrings PROVE Reading(s)
    BY DEF CutInv
  <2> QED
    BY DEF Init, Reading
<1>2. CutInv /\ [Next]_vars => CutInv'
  <2> SUFFICES ASSUME CutInv, [Next]_vars, NEW s \in LongStrings,
                      input' = <<TagString>> \o WrittenString(s)
               PROVE  Reading(s)'
    BY DEF CutInv
  <2>1. input' = input
    BY DEF Next, vars, ReadRoot, ReadFixed, ReadArray, ReadString, ReadEmptyList, OpenList,
       OpenCompound, ReadEntry, CloseCompound, DeliverRoot, DeliverElement, CloseList, DeliverEntry,
       FailsRoot, FailsDeep, FailsPayload, FailsEntry, Fails, Returns
  <2>2. input = <<TagString>> \o WrittenString(s)
    BY <2>1
  <2>3. Reading(s)
    BY <2>2 DEF CutInv
  <2> QED
    BY <2>2, <2>3, CutStep
<1>3. CutInv => LongStringsCut
  <2> SUFFICES ASSUME CutInv, at \in {"done", "failed"}, NEW s \in LongStrings,
                      input = <<TagString>> \o WrittenString(s)
               PROVE  /\ at = "done" /\ wire = <<>>
                      /\ IsPrefix(tag.value, s)
                      /\ ModifiedLen(tag.value) <= MaxStringLen
                      /\ \A n \in 0 .. Len(s) :
                            ModifiedLen(SubSeq(s, 1, n)) <= MaxStringLen => n <= Len(tag.value)
    BY DEF LongStringsCut
  <2>1. Reading(s)
    BY DEF CutInv
  <2>2. at = "done" /\ wire = <<>> /\ tag = Tag(TagString, TagEnd, Truncated(s))
    BY <2>1 DEF Reading
  <2>3. tag.value = Truncated(s)
    BY <2>2 DEF Tag
  <2>4. s \in Seq(Scalars) /\ <<>> \in Seq(Int)
    BY LongStringsAre, EmptySeq
  <2>5. /\ IsPrefix(Truncated(s), s)
        /\ ModifiedLen(Truncated(s)) <= MaxStringLen
        /\ \A n \in 0 .. Len(s) :
              ModifiedLen(SubSeq(s, 1, n)) <= MaxStringLen => n <= Len(Truncated(s))
    BY <2>4, StringsRoundTrip
  <2> QED
    BY <2>2, <2>3, <2>5, Zenon
<1> QED
  BY <1>1, <1>2, <1>3, PTL DEF Spec
=============================================================================
