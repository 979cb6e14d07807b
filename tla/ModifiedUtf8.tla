----------------------------- MODULE ModifiedUtf8 -----------------------------
(***************************************************************************)
(* Java's modified UTF-8 (rukkit-protocol, nbt.rs).  A string is a sequence*)
(* of code points.  It differs from UTF-8 in two ways: U+0000 takes two    *)
(* bytes, and a code point beyond 16 bits is written as two surrogates of  *)
(* three bytes each.                                                       *)
(***************************************************************************)
EXTENDS Integers, Sequences

CONSTANT MaxStringLen   \* u16::MAX, the longest encoding a length can announce

ASSUME ModifiedUtf8Assumption == MaxStringLen \in Nat

High == 55296    \* D800, the first high surrogate
Low == 56320     \* DC00, the first low surrogate
AfterLow == 57344
Beyond == 65536  \* the first code point beyond 16 bits
MaxChar == 1114111

\* What a Rust char can be.
IsScalar(cp) == cp \in 0 .. High - 1 \/ cp \in AfterLow .. MaxChar

\* Mutated: the widths of plain UTF-8.
CharLenPlain(cp) ==
    CASE cp \in 0 .. 127          -> 1
      [] cp \in 128 .. 2047       -> 2
      [] cp \in 2048 .. Beyond - 1 -> 3
      [] cp >= Beyond             -> 4

\* One term of modified_utf8_len.
CharLen(cp) ==
    CASE cp = 0                   -> 2
      [] cp \in 1 .. 127          -> 1
      [] cp \in 128 .. 2047       -> 2
      [] cp \in 2048 .. Beyond - 1 -> 3
      [] cp >= Beyond             -> 6

ModifiedLen(s) ==
    LET sum[n \in 0 .. Len(s)] == IF n = 0 THEN 0 ELSE sum[n - 1] + CharLen(s[n])
    IN  sum[Len(s)]

\* Mutated: a string that fills the length exactly loses its last character.
TruncatedShort(s) ==
    LET Fits(n) == ModifiedLen(SubSeq(s, 1, n)) < MaxStringLen
        cut == CHOOSE n \in 0 .. Len(s) : Fits(n) /\ (n = Len(s) \/ ~Fits(n + 1))
    IN  SubSeq(s, 1, cut)

\* The part of a string that is written: all of it, or what is in front of the
\* first character that does not fit any more.
Truncated(s) ==
    LET Fits(n) == ModifiedLen(SubSeq(s, 1, n)) <= MaxStringLen
        cut == CHOOSE n \in 0 .. Len(s) : Fits(n) /\ (n = Len(s) \/ ~Fits(n + 1))
    IN  SubSeq(s, 1, cut)

TwoBytes(cp) == <<192 + cp \div 64, 128 + (cp % 64)>>

ThreeBytes(unit) == <<224 + unit \div 4096, 128 + ((unit \div 64) % 64), 128 + (unit % 64)>>

EncodedChar(cp) ==
    CASE cp \in 1 .. 127              -> <<cp>>
      [] cp = 0 \/ cp \in 128 .. 2047 -> TwoBytes(cp)
      [] cp \in 2048 .. Beyond - 1    -> ThreeBytes(cp)
      [] cp >= Beyond -> ThreeBytes(High + (cp - Beyond) \div 1024)
                            \o ThreeBytes(Low + ((cp - Beyond) % 1024))

\* write_modified_utf8: a length, then that many bytes.
WrittenString(s) ==
    LET kept == Truncated(s)
        bytes[n \in 0 .. Len(kept)] == IF n = 0 THEN <<>> ELSE bytes[n - 1] \o EncodedChar(kept[n])
    IN  <<ModifiedLen(kept)>> \o bytes[Len(kept)]

-----------------------------------------------------------------------------
(* decode_modified_utf8.                                                   *)

Continues(bytes, i) == i <= Len(bytes) /\ bytes[i] \div 64 = 2

\* Three bytes that make one 16-bit unit, from their first.
IsUnit(bytes, i) ==
    i <= Len(bytes) /\ bytes[i] \div 16 = 14 /\ Continues(bytes, i + 1) /\ Continues(bytes, i + 2)

Unit(bytes, i) ==
    (bytes[i] % 16) * 4096 + (bytes[i + 1] % 64) * 64 + (bytes[i + 2] % 64)

IsPair(bytes, i) ==
    /\ IsUnit(bytes, i) /\ Unit(bytes, i) \in High .. Low - 1
    /\ IsUnit(bytes, i + 3) /\ Unit(bytes, i + 3) \in Low .. AfterLow - 1

Bad == [used |-> 0, char |-> 0]

\* The character at a position and the bytes it takes, or Bad.
CharAt(bytes, i) ==
    CASE bytes[i] \in 0 .. 127 -> [used |-> 1, char |-> bytes[i]]
      [] bytes[i] \div 32 = 6 /\ Continues(bytes, i + 1) ->
             [used |-> 2, char |-> (bytes[i] % 32) * 64 + (bytes[i + 1] % 64)]
      [] IsUnit(bytes, i) /\ IsScalar(Unit(bytes, i)) ->
             [used |-> 3, char |-> Unit(bytes, i)]
      [] IsPair(bytes, i) ->
             [used |-> 6, char |-> Beyond + (Unit(bytes, i) - High) * 1024 + Unit(bytes, i + 3) - Low]
      [] OTHER -> Bad

\* The string from a position on: whether all of it decodes, and its characters.
Decoded(bytes) ==
    LET from[i \in 1 .. Len(bytes) + 1] ==
            IF i > Len(bytes) THEN [ok |-> TRUE, chars |-> <<>>]
            ELSE LET c == CharAt(bytes, i)
                     rest == from[i + c.used]
                 IN  IF c = Bad THEN [ok |-> FALSE, chars |-> <<>>]
                     ELSE [ok |-> rest.ok, chars |-> <<c.char>> \o rest.chars]
    IN  from[1]
=============================================================================
