-------------------------- MODULE FrameCodec_proofs --------------------------
(***************************************************************************)
(* The frame codec, for every limit, every set of bodies, every length of  *)
(* a varint's group and any splitting of the stream into reads.            *)
(*                                                                         *)
(* A varint is a number's digits (Groups), so what is read back is what    *)
(* was written and its length is the least that holds it. A cipher with a  *)
(* register in the middle undoes the one at the other end as long as the   *)
(* registers are where the same bytes have gone through (Decrypts), and it *)
(* does not matter where the bytes are cut (InPieces).                     *)
(*                                                                         *)
(* Fifo is not inductive by itself. Pending says of every point of the     *)
(* stream that what is left from there on, in plain bytes, is the frames   *)
(* of the packets not yet delivered, each in the mode compression was in   *)
(* when it was sent (Mode); Switched and Ciphered say which mode and which *)
(* register each end is in, given what is under way. A decoder that finds  *)
(* enough bytes then takes exactly the frame in front (DecodesFrame, by    *)
(* TwoCuts), one that does not leaves all of it.                           *)
(***************************************************************************)
EXTENDS FrameCodec, Arithmetic, SequenceTheorems

-----------------------------------------------------------------------------
(* Frames, from the front of the buffer.                                   *)

LEMMA ClearIs == Clear \notin Byte
BY ByteIs DEF Clear

\* What a whole frame holds is a packet, or is refused.
LEMMA OpenedType ==
    ASSUME NEW frame \in Seq(Byte)
    PROVE  Opened(frame).kind \in {"packet", "error"}
<1>. DEFINE size == ReadVarint(frame)
            body == SubSeq(frame, size.used + 1, Len(frame))
<1>1. size.kind # "ok" \/ (size.kind = "ok" /\ size.value \in Int)
  BY ReadVarintType DEF Incomplete, TooLong
<1>2. Threshold \in Int /\ MaxFrame \in Int
  BY FrameCodecAssumption
<1>3. Inflated(body, size.value).kind \in {"packet", "error"}
  BY DEF Inflated, Fails, Answer
<1>4. Opened(frame) =
         CASE size.kind # "ok" -> Fails
           [] size.kind = "ok" /\ size.value = 0 -> Answer("packet", body, 0)
           [] size.kind = "ok" /\ size.value < Threshold /\ size.value # 0 -> Fails
           [] size.kind = "ok" /\ size.value > MaxFrame -> Fails
           [] size.kind = "ok" /\ size.value \in Threshold .. MaxFrame /\ size.value # 0 ->
                  Inflated(body, size.value)
  BY DEF Opened
<1>. HIDE DEF size, body
<1>5. Fails.kind = "error" /\ Answer("packet", body, 0).kind = "packet"
  BY DEF Fails, Answer
<1>6. CASE size.kind # "ok"
  BY <1>4, <1>5, <1>6
<1>7. CASE size.kind = "ok" /\ size.value = 0
  BY <1>4, <1>5, <1>7
<1>8. CASE size.kind = "ok" /\ size.value # 0 /\ (size.value < Threshold \/ size.value > MaxFrame)
  <2>1. ~ size.value \in Threshold .. MaxFrame
    BY <1>1, <1>2, <1>8
  <2> QED
    BY <1>4, <1>5, <1>8, <2>1
<1>9. CASE size.kind = "ok" /\ size.value # 0 /\ size.value \in Threshold .. MaxFrame
  <2>1. ~ size.value < Threshold /\ ~ size.value > MaxFrame
    BY <1>1, <1>2, <1>9
  <2> QED
    BY <1>3, <1>4, <1>9, <2>1
<1> QED
  BY <1>1, <1>2, <1>6, <1>7, <1>8, <1>9

\* A buffer in which more is asked for is shorter than the longest frame.
LEMMA BoundOf ==
    ASSUME NEW bytes \in Seq(Byte), NEW compressing \in BOOLEAN,
           Decoded(bytes, compressing).kind = "more"
    PROVE  Len(bytes) < MaxVarintBytes + MaxFrame
<1>. DEFINE header == ReadVarint(bytes)
<1>1. MaxFrame \in Nat \ {0} /\ MaxVarintBytes \in Nat /\ Len(bytes) \in Nat
  BY FrameCodecAssumption, VarintAssumption, LenProperties
<1>2. \/ /\ header.kind = "ok" /\ header.value \in Int
         /\ header.used \in 1 .. MaxVarintBytes /\ header.used <= Len(bytes)
      \/ header = Incomplete /\ Len(bytes) < MaxVarintBytes
      \/ header = TooLong
  BY ReadVarintType
<1>. HIDE DEF header
<1>3. CASE header = Incomplete /\ Len(bytes) < MaxVarintBytes
  BY <1>1, <1>3
<1>4. CASE header = TooLong
  BY <1>4 DEF TooLong, Decoded, header, Fails, Answer
<1>5. CASE /\ header.kind = "ok" /\ header.value \in Int
           /\ header.used \in 1 .. MaxVarintBytes /\ header.used <= Len(bytes)
  <2>1. CASE ~ header.value \in 0 .. MaxFrame
    BY <1>5, <2>1 DEF Decoded, header, Fails, Answer
  <2>2. CASE header.value \in 0 .. MaxFrame
    <3>. DEFINE total == header.used + header.value
                frame == SubSeq(bytes, header.used + 1, total)
    <3>1. SUFFICES ASSUME Len(bytes) >= total PROVE FALSE
      BY <1>1, <1>5, <2>2
    <3>2. ~ Len(bytes) < total
      BY <1>1, <1>5, <2>2, <3>1
    <3>3. Decoded(bytes, compressing) =
             IF compressing THEN [Opened(frame) EXCEPT !.used = total]
             ELSE Answer("packet", frame, total)
      BY <1>5, <2>2, <3>1, <3>2 DEF Decoded, header
    <3>4. Opened(frame).kind # "more"
      <4>1. \A i \in header.used + 1 .. total : bytes[i] \in Byte
        BY <1>1, <1>5, <2>2, <3>1, ElementOfSeq
      <4>2. header.used + 1 \in Int /\ total \in Int
        BY <1>5
      <4>3. frame \in Seq(Byte)
        BY <4>1, <4>2, SubSeqProperties
      <4>. HIDE DEF frame
      <4> QED
        BY <4>3, OpenedType
    <3> QED
      BY <3>3, <3>4 DEF Answer
  <2> QED
    BY <2>1, <2>2
<1> QED
  BY <1>2, <1>3, <1>4, <1>5

-----------------------------------------------------------------------------
(* The cipher.                                                             *)

\* Encryption is byte for byte, each mixed with the cipher byte before it.
LEMMA EncipheredIs ==
    ASSUME NEW bytes \in Seq(Byte), NEW register \in Byte
    PROVE  LET wire == Enciphered(bytes, register)
           IN  /\ wire \in Seq(Byte) /\ Len(wire) = Len(bytes)
               /\ \A n \in 1 .. Len(bytes) :
                     wire[n] = (bytes[n] + (IF n = 1 THEN register ELSE wire[n - 1])) % (2 * Base)
<1>. DEFINE m == Len(bytes)
            Body(g) == [n \in 0 .. m |->
                           IF n = 0 THEN register ELSE (bytes[n] + g[n - 1]) % (2 * Base)]
            code == CHOOSE g : g = Body(g)
            step == [n \in 1 .. m |-> [x \in Byte |-> (bytes[n] + x) % (2 * Base)]]
            wire == [n \in 1 .. m |-> code[n]]
<1>1. m \in Nat /\ (\A n \in 1 .. m : bytes[n] \in Byte) /\ 2 * Base \in Nat \ {0} /\ Byte \subseteq Nat
  BY LenProperties, ElementOfSeq, ByteIs
<1>2. \A n \in 1 .. m : \A x \in Byte : (bytes[n] + x) % (2 * Base) \in Byte
  <2> SUFFICES ASSUME NEW n \in 1 .. m, NEW x \in Byte
               PROVE  (bytes[n] + x) % (2 * Base) \in Byte
    OBVIOUS
  <2>. DEFINE y == bytes[n] + x
              d == 2 * Base
  <2>1. y \in Nat /\ d \in Nat \ {0}
    <3>1. bytes[n] \in Nat /\ x \in Nat
      BY <1>1
    <3> QED
      BY <1>1, <3>1
  <2>2. Byte = 0 .. d - 1
    BY DEF Byte
  <2>. HIDE DEF y, d
  <2>3. y % d \in 0 .. d - 1
    BY <2>1, DivModOf
  <2> QED
    BY <2>2, <2>3 DEF y, d
<1>3. step \in [1 .. m -> [Byte -> Byte]]
  BY <1>2
<1>. HIDE DEF m
<1>4. PICK f \in [0 .. m -> Byte] : Computed(f, m, register, step)
  <2>. HIDE DEF step
  <2> QED
    BY <1>1, <1>3, Recursion
<1>5. f = Body(f)
  <2>1. \A n \in 0 .. m : f[n] = IF n = 0 THEN register ELSE (bytes[n] + f[n - 1]) % (2 * Base)
    <3> TAKE n \in 0 .. m
    <3>1. CASE n = 0
      BY <1>4, <3>1 DEF Computed
    <3>2. CASE n # 0
      <4>1. n \in 1 .. m /\ n - 1 \in 0 .. m
        BY <1>1, <3>2
      <4>2. f[n - 1] \in Byte
        BY <4>1
      <4> QED
        BY <1>4, <4>1, <4>2, <3>2 DEF Computed
    <3> QED
      BY <3>1, <3>2
  <2> QED
    BY <2>1
<1>6. code = Body(code)
  <2>. HIDE DEF Body
  <2> QED
    BY <1>5
<1>. HIDE DEF code
<1>7. \A n \in 0 .. m : code[n] = IF n = 0 THEN register ELSE (bytes[n] + code[n - 1]) % (2 * Base)
  BY <1>6
<1>8. \A n \in 0 .. m : code[n] \in Byte
  <2>. DEFINE S == {n \in 0 .. m : code[n] \in Byte}
  <2>1. 0 \in S
    BY <1>1, <1>7
  <2>2. \A n \in 0 .. m - 1 : n \in S => n + 1 \in S
    <3> SUFFICES ASSUME NEW n \in 0 .. m - 1, n \in S
                 PROVE  n + 1 \in S
      OBVIOUS
    <3>1. n + 1 \in 1 .. m /\ (n + 1) - 1 = n /\ n + 1 \in 0 .. m /\ n + 1 # 0
      BY <1>1
    <3>2. code[n + 1] = (bytes[n + 1] + code[n]) % (2 * Base)
      BY <1>7, <3>1
    <3> QED
      BY <1>2, <3>1, <3>2
  <2>. HIDE DEF S
  <2>3. \A n \in 0 .. m : n \in S
    BY <1>1, <2>1, <2>2, InductionUpTo
  <2> QED
    BY <2>3 DEF S
<1>9. wire \in [1 .. m -> Byte]
  <2>1. \A n \in 1 .. m : n \in 0 .. m
    BY <1>1
  <2> QED
    BY <1>8, <2>1
<1>10. wire \in Seq(Byte) /\ Len(wire) = m
  <2>. HIDE DEF wire
  <2> QED
    BY <1>1, <1>9, SeqOfFunction
<1>11. Enciphered(bytes, register) = wire
  <2>1. register # Clear
    BY ClearIs
  <2>2. Enciphered(bytes, register) = IF register = Clear THEN bytes ELSE wire
    BY DEF Enciphered, wire, code, m
  <2> QED
    BY <2>1, <2>2
<1>12. \A n \in 1 .. m : wire[n] = (bytes[n] + (IF n = 1 THEN register ELSE wire[n - 1])) % (2 * Base)
  <2> TAKE n \in 1 .. m
  <2>1. n \in 0 .. m /\ n # 0 /\ n - 1 \in 0 .. m /\ (n # 1 => n - 1 \in 1 .. m)
    BY <1>1
  <2>2. wire[n] = (bytes[n] + code[n - 1]) % (2 * Base)
    BY <1>7, <2>1
  <2>3. code[n - 1] = IF n = 1 THEN register ELSE wire[n - 1]
    BY <1>7, <1>1, <2>1
  <2> QED
    BY <2>2, <2>3
<1> QED
  BY <1>10, <1>11, <1>12 DEF m

Registers == Byte \cup {Clear}

LEMMA DecipheredIs ==
    ASSUME NEW wire \in Seq(Byte), NEW register \in Registers
    PROVE  /\ Deciphered(wire, register) \in Seq(Byte)
           /\ Len(Deciphered(wire, register)) = Len(wire)
           /\ Enciphered(wire, register) \in Seq(Byte)
           /\ Len(Enciphered(wire, register)) = Len(wire)
           /\ After(wire, register) \in Registers
           /\ After(wire, register) = Clear <=> register = Clear
<1>. DEFINE m == Len(wire)
            plain == [n \in 1 .. m |->
                         (wire[n] - (IF n = 1 THEN register ELSE wire[n - 1])) % (2 * Base)]
<1>1. m \in Nat /\ (\A n \in 1 .. m : wire[n] \in Byte) /\ 2 * Base \in Nat \ {0} /\ Byte \subseteq Nat
  BY LenProperties, ElementOfSeq, ByteIs
<1>2. CASE register = Clear
  BY <1>2 DEF Deciphered, Enciphered, After, Registers
<1>3. CASE register # Clear
  <2>1. register \in Byte
    BY <1>3 DEF Registers
  <2>2. \A n \in 1 .. m : wire[n] - (IF n = 1 THEN register ELSE wire[n - 1]) \in Int
    <3> TAKE n \in 1 .. m
    <3>1. n = 1 \/ n - 1 \in 1 .. m
      BY <1>1
    <3> QED
      <4>1. (IF n = 1 THEN register ELSE wire[n - 1]) \in Nat
        BY <1>1, <2>1, <3>1
      <4>2. wire[n] \in Nat
        BY <1>1
      <4> QED
        BY <4>1, <4>2
  <2>3. plain \in [1 .. m -> Byte]
    <3>. DEFINE d == 2 * Base
    <3>1. Byte = 0 .. d - 1 /\ d \in Nat \ {0}
      BY <1>1 DEF Byte
    <3>. HIDE DEF d
    <3>2. \A x \in Int : x % d \in 0 .. d - 1
      BY <3>1, SMT
    <3>3. \A n \in 1 .. m : (wire[n] - (IF n = 1 THEN register ELSE wire[n - 1])) % d \in Byte
      BY <2>2, <3>1, <3>2
    <3> QED
      BY <3>3 DEF d
  <2>4. plain \in Seq(Byte) /\ Len(plain) = m
    <3>. HIDE DEF plain, m
    <3> QED
      BY <1>1, <2>3, SeqOfFunction
  <2>5. Deciphered(wire, register) = plain
    BY <1>3 DEF Deciphered
  <2>6. wire # <<>> => wire[m] \in Byte
    BY <1>1, EmptySeq
  <2>7. After(wire, register) \in Byte
    BY <1>3, <2>1, <2>6 DEF After
  <2>8. Clear \notin Byte
    BY ClearIs
  <2> QED
    BY <1>3, <2>1, <2>4, <2>5, <2>7, <2>8, EncipheredIs DEF Registers
<1> QED
  BY <1>2, <1>3

\* Decryption undoes encryption from the same register.
LEMMA Decrypts ==
    ASSUME NEW bytes \in Seq(Byte), NEW register \in Registers
    PROVE  Deciphered(Enciphered(bytes, register), register) = bytes
<1>. DEFINE wire == Enciphered(bytes, register)
            m == Len(bytes)
<1>1. CASE register = Clear
  BY <1>1 DEF Enciphered, Deciphered
<1>2. CASE register # Clear
  <2>0. register \in Byte
    BY <1>2 DEF Registers
  <2>1. /\ wire \in Seq(Byte) /\ Len(wire) = m
        /\ \A n \in 1 .. m :
              wire[n] = (bytes[n] + (IF n = 1 THEN register ELSE wire[n - 1])) % (2 * Base)
    BY <2>0, EncipheredIs
  <2>2. /\ m \in Nat /\ (\A n \in 1 .. m : bytes[n] \in Byte /\ wire[n] \in Byte)
        /\ 2 * Base \in Nat \ {0} /\ Byte = 0 .. 2 * Base - 1
    BY <2>1, LenProperties, ElementOfSeq, ByteIs
  <2>. HIDE DEF wire, m
  <2>3. Deciphered(wire, register) =
           [n \in 1 .. m |-> (wire[n] - (IF n = 1 THEN register ELSE wire[n - 1])) % (2 * Base)]
    BY <1>2, <2>1 DEF Deciphered
  <2>4. ASSUME NEW n \in 1 .. m
        PROVE  Deciphered(wire, register)[n] = bytes[n]
    <3>. DEFINE d == 2 * Base
                x == bytes[n]
                y == IF n = 1 THEN register ELSE wire[n - 1]
    <3>1. n = 1 \/ n - 1 \in 1 .. m
      BY <2>2
    <3>2. d \in Nat \ {0} /\ x \in 0 .. d - 1 /\ y \in 0 .. d - 1
      BY <2>0, <2>2, <3>1
    <3>3. Deciphered(wire, register)[n] = (((x + y) % d) - y) % d
      BY <2>1, <2>3
    <3>. HIDE DEF d, x, y
    <3>4. (((x + y) % d) - y) % d = x
      BY <3>2, ModCancel
    <3> QED
      BY <3>3, <3>4 DEF x
  <2>5. Deciphered(wire, register) \in Seq(Byte) /\ Len(Deciphered(wire, register)) = m
    BY <2>1, DecipheredIs
  <2> QED
    BY <2>4, <2>5, SeqEqual DEF wire, m
<1> QED
  BY <1>1, <1>2

\* Reading in two pieces decrypts what reading in one does.
LEMMA InPieces ==
    ASSUME NEW s \in Seq(Byte), NEW t \in Seq(Byte), NEW register \in Registers
    PROVE  /\ Deciphered(s \o t, register)
                = Deciphered(s, register) \o Deciphered(t, After(s, register))
           /\ After(s \o t, register) = After(t, After(s, register))
<1>. DEFINE m == Len(s)
            n == Len(t)
            wire == s \o t
<1>1. /\ wire \in Seq(Byte) /\ Len(wire) = m + n
      /\ \A i \in 1 .. m + n : wire[i] = IF i <= m THEN s[i] ELSE t[i - m]
  BY ConcatProperties
<1>2. m \in Nat /\ n \in Nat
  BY LenProperties
<1>3. (s = <<>> <=> m = 0) /\ (t = <<>> <=> n = 0) /\ (wire = <<>> <=> m + n = 0)
  BY <1>1, <1>2, EmptySeq
<1>4. s \o t = wire
  OBVIOUS
<1>. HIDE DEF wire
<1>5. CASE register = Clear
  BY <1>5 DEF Deciphered, After
<1>6. CASE register # Clear
  <2>. DEFINE next == After(s, register)
              left == Deciphered(s, register)
              right == Deciphered(t, next)
              whole == Deciphered(wire, register)
  <2>1. register \in Byte /\ next \in Registers /\ next # Clear
    BY <1>6, DecipheredIs DEF Registers
  <2>2. next = IF m = 0 THEN register ELSE s[m]
    BY <1>3, <1>6 DEF After
  <2>3. /\ left \in Seq(Byte) /\ Len(left) = m
        /\ right \in Seq(Byte) /\ Len(right) = n
        /\ whole \in Seq(Byte) /\ Len(whole) = m + n
    BY <1>1, <2>1, DecipheredIs
  <2>4. left = [i \in 1 .. m |-> (s[i] - (IF i = 1 THEN register ELSE s[i - 1])) % (2 * Base)]
    BY <1>6 DEF Deciphered
  <2>5. right = [i \in 1 .. n |-> (t[i] - (IF i = 1 THEN next ELSE t[i - 1])) % (2 * Base)]
    BY <2>1 DEF Deciphered
  <2>6. whole = [i \in 1 .. m + n |-> (wire[i] - (IF i = 1 THEN register ELSE wire[i - 1])) % (2 * Base)]
    BY <1>1, <1>6 DEF Deciphered
  <2>. HIDE DEF next, left, right, whole, m, n
  <2>7. /\ left \o right \in Seq(Byte) /\ Len(left \o right) = Len(left) + Len(right)
        /\ \A i \in 1 .. Len(left) + Len(right) :
              (left \o right)[i] = IF i <= Len(left) THEN left[i] ELSE right[i - Len(left)]
    BY <2>3, ConcatProperties
  <2>8. ASSUME NEW i \in 1 .. m + n
        PROVE  whole[i] = (left \o right)[i]
    <3>1. CASE i <= m
      <4>1. i \in 1 .. m /\ (i # 1 => i - 1 \in 1 .. m + n /\ i - 1 <= m)
        BY <1>2, <3>1
      <4>2. wire[i] = s[i] /\ (i # 1 => wire[i - 1] = s[i - 1])
        BY <1>1, <4>1
      <4>3. whole[i] = left[i]
        BY <2>4, <2>6, <4>1, <4>2
      <4> QED
        BY <2>3, <2>7, <3>1, <4>3
    <3>2. CASE ~ i <= m
      <4>1. i - m \in 1 .. n /\ i - 1 - m = i - m - 1 /\ (i - m # 1 => i - 1 \in 1 .. m + n /\ ~ i - 1 <= m)
        BY <1>2, <3>2
      <4>2. wire[i] = t[i - m] /\ (i - m # 1 => wire[i - 1] = t[i - m - 1])
        BY <1>1, <3>2, <4>1
      <4>3. i - m = 1 => (IF i = 1 THEN register ELSE wire[i - 1]) = next
        <5> HAVE i - m = 1
        <5>1. CASE m = 0
          BY <2>2, <5>1
        <5>2. CASE m # 0
          <6>1. i # 1 /\ i - 1 = m /\ m \in 1 .. m + n
            BY <1>2, <5>2
          <6>2. wire[m] = s[m]
            BY <1>1, <1>2, <6>1
          <6> QED
            BY <2>2, <5>2, <6>1, <6>2
        <5> QED
          BY <5>1, <5>2
      <4>4. i - m # 1 => i # 1
        BY <1>2, <4>1
      <4>5. whole[i] = right[i - m]
        BY <2>5, <2>6, <4>1, <4>2, <4>3, <4>4
      <4> QED
        BY <2>3, <2>7, <3>2, <4>5
    <3> QED
      BY <3>1, <3>2
  <2>9. whole = left \o right
    <3>1. Len(left \o right) = m + n
      BY <2>3, <2>7
    <3> QED
      BY <2>3, <2>7, <2>8, <3>1, SeqEqual
  <2>10. After(wire, register) = After(t, next)
    <3>1. CASE n = 0
      <4>1. After(t, next) = next
        BY <1>3, <3>1 DEF After, n
      <4>2. After(wire, register) = IF m = 0 THEN register ELSE wire[m]
        <5>1. m + n = m
          BY <1>2, <3>1 DEF m, n
        <5> QED
          BY <1>1, <1>3, <1>6, <5>1 DEF After, m, n
      <4>3. m # 0 => wire[m] = s[m]
        BY <1>1, <1>2, <3>1 DEF m, n
      <4> QED
        BY <2>2, <4>1, <4>2, <4>3
    <3>2. CASE n # 0
      <4>1. After(t, next) = t[n]
        BY <1>3, <2>1, <3>2 DEF After, n
      <4>2. m + n # 0 /\ m + n \in 1 .. m + n /\ ~ m + n <= m /\ m + n - m = n
        BY <1>2, <3>2 DEF m, n
      <4>3. After(wire, register) = wire[m + n]
        BY <1>1, <1>3, <1>6, <4>2 DEF After, m, n
      <4> QED
        BY <1>1, <4>1, <4>2, <4>3 DEF m, n
    <3> QED
      BY <3>1, <3>2
  <2> QED
    BY <2>9, <2>10 DEF whole, left, right, next, wire
<1> QED
  BY <1>4, <1>5, <1>6

-----------------------------------------------------------------------------
(* Frames.                                                                 *)

\* What encode writes of a body, with compression on or off: its size, then that
\* many bytes.
SizeAt(p, compressing) ==
    IF ~compressing THEN Len(p)
    ELSE IF Len(p) < Threshold THEN 1 + Len(p)
    ELSE VarintLen(Len(p)) + Len(Zip[p])

ContentAt(p, compressing) ==
    IF ~compressing THEN p
    ELSE IF Len(p) < Threshold THEN WriteVarint(0) \o p
    ELSE Zipped(p)

FrameAt(p, compressing) == WriteVarint(SizeAt(p, compressing)) \o ContentAt(p, compressing)

RefusedAt(p, compressing) ==
    \/ ~compressing /\ Len(p) > MaxFrame
    \/ compressing /\ Len(p) >= Threshold /\ SizeAt(p, compressing) > MaxFrame

\* The packets a decoder refuses though the encoder wrote them.
Oversized(p) == Len(p) > MaxFrame \/ (Len(p) = MaxFrame /\ MaxFrame < Threshold)

LEMMA BodyIs ==
    ASSUME NEW p \in Bodies
    PROVE  /\ p \in Seq(Byte) /\ Len(p) \in Nat /\ Len(p) < 2^(Width - 1) /\ Len(p) + 1 < 2^(Width - 1)
           /\ Len(p) \in Unsigned /\ Signed(Len(p)) = Len(p)
           /\ Zip[p] \in Seq(Byte) /\ Len(Zip[p]) \in Nat
           /\ WriteVarint(Len(p)) \in Seq(Byte)
           /\ Len(WriteVarint(Len(p))) = VarintLen(Len(p)) /\ VarintLen(Len(p)) \in Nat
           /\ MaxFrame \in Nat \ {0} /\ MaxFrame < 2^(Width - 1) /\ Threshold \in Nat
<1>1. p \in Seq(Byte) /\ Zip[p] \in Seq(Byte) /\ Len(p) + 1 < 2^(Width - 1)
  BY FrameCodecAssumption
<1>2. Len(p) \in Nat /\ Len(Zip[p]) \in Nat
  BY <1>1, LenProperties
<1>3. 2^(Width - 1) \in Nat
  BY VarintAssumption, TwoPositive
<1>4. Len(p) < 2^(Width - 1)
  BY <1>1, <1>2, <1>3
<1>5. Len(p) \in Unsigned /\ Signed(Len(p)) = Len(p)
  <2>. DEFINE k == Len(p)
  <2>1. k \in Nat /\ k < 2^(Width - 1)
    BY <1>2, <1>4
  <2>. HIDE DEF k
  <2>2. k \in Unsigned /\ Signed(k) = k
    BY <2>1, SignedIs
  <2> QED
    BY <2>2 DEF k
<1>6. /\ WriteVarint(Len(p)) \in Seq(Byte)
      /\ Len(WriteVarint(Len(p))) = VarintLen(Len(p)) /\ VarintLen(Len(p)) \in Nat
  BY <1>5, GroupsType, WriteVarintIs, VarintLenIs, VarintAssumption
<1>7. MaxFrame \in Nat \ {0} /\ MaxFrame < 2^(Width - 1) /\ Threshold \in Nat
  BY <1>3, FrameCodecAssumption
<1> QED
  BY <1>1, <1>2, <1>4, <1>5, <1>6, <1>7

\* The sequence the encoder writes is this frame, and it refuses these.
LEMMA FrameIs ==
    ASSUME NEW p \in Bodies, encoder.compressing \in BOOLEAN
    PROVE  /\ Frame(p) = FrameAt(p, encoder.compressing)
           /\ Refused(p) <=> RefusedAt(p, encoder.compressing)
<1>1. /\ Len(p) \in Nat /\ p \in Seq(Byte) /\ Threshold \in Nat
      /\ 1 + Len(p) \in Nat /\ 1 + Len(p) < 2^(Width - 1)
  BY BodyIs
<1>2. CASE ~encoder.compressing
  BY <1>2 DEF Frame, FrameAt, SizeAt, ContentAt, Refused, RefusedAt
<1>3. CASE encoder.compressing /\ Len(p) < Threshold
  <2>1. ~ Len(p) >= Threshold
    BY <1>1, <1>3
  <2>2. WriteVarint(1 + Len(p)) \in Seq(Byte)
    <3>. DEFINE k == 1 + Len(p)
    <3>1. k \in Nat /\ k < 2^(Width - 1)
      BY <1>1
    <3>. HIDE DEF k
    <3>2. WriteVarint(k) \in Seq(Byte)
      BY <3>1, SignedIs, GroupsType, WriteVarintIs
    <3> QED
      BY <3>2 DEF k
  <2>3. (WriteVarint(1 + Len(p)) \o WriteVarint(0)) \o p = WriteVarint(1 + Len(p)) \o (WriteVarint(0) \o p)
    BY <1>1, <2>2, ZeroIs, BytesAssociate, Zenon
  <2>4. Frame(p) = (WriteVarint(1 + Len(p)) \o WriteVarint(0)) \o p
    BY <1>3, <2>1 DEF Frame
  <2>5. FrameAt(p, encoder.compressing) = WriteVarint(1 + Len(p)) \o (WriteVarint(0) \o p)
    BY <1>3 DEF FrameAt, SizeAt, ContentAt
  <2>6. ~ Refused(p) /\ ~ RefusedAt(p, encoder.compressing)
    BY <1>3, <2>1 DEF Refused, RefusedAt
  <2> QED
    BY <2>3, <2>4, <2>5, <2>6
<1>4. CASE encoder.compressing /\ ~ Len(p) < Threshold
  <2>1. Len(p) >= Threshold
    BY <1>1, <1>4
  <2> QED
    BY <1>4, <2>1 DEF Frame, FrameAt, SizeAt, ContentAt, Refused, RefusedAt
<1> QED
  BY <1>2, <1>3, <1>4

\* A frame says its own length.
LEMMA FrameType ==
    ASSUME NEW p \in Bodies, NEW compressing \in BOOLEAN, ~ RefusedAt(p, compressing)
    PROVE  /\ SizeAt(p, compressing) \in Nat
           /\ SizeAt(p, compressing) \in Unsigned
           /\ Signed(SizeAt(p, compressing)) = SizeAt(p, compressing)
           /\ ContentAt(p, compressing) \in Seq(Byte)
           /\ Len(ContentAt(p, compressing)) = SizeAt(p, compressing)
           /\ WriteVarint(SizeAt(p, compressing)) \in Seq(Byte)
           /\ FrameAt(p, compressing) \in Seq(Byte)
           /\ SizeAt(p, compressing) > MaxFrame => Oversized(p)
<1>. DEFINE size == SizeAt(p, compressing)
            content == ContentAt(p, compressing)
<1>1. size \in Nat /\ size < 2^(Width - 1) /\ (size > MaxFrame => Oversized(p))
  <2>1. 2^(Width - 1) \in Nat
    BY VarintAssumption, TwoPositive
  <2>2. CASE ~compressing
    BY <2>1, <2>2, BodyIs DEF SizeAt, RefusedAt, Oversized
  <2>3. CASE compressing /\ Len(p) < Threshold
    BY <2>1, <2>3, BodyIs DEF SizeAt, RefusedAt, Oversized
  <2>4. CASE compressing /\ ~ Len(p) < Threshold
    <3>1. size \in Nat /\ ~ size > MaxFrame
      BY <2>4, BodyIs DEF SizeAt, RefusedAt
    <3>. HIDE DEF size
    <3> QED
      BY <2>1, <3>1, BodyIs
  <2> QED
    BY <2>2, <2>3, <2>4
<1>2. content \in Seq(Byte) /\ Len(content) = size
  <2>1. CASE ~compressing
    BY <2>1, BodyIs DEF SizeAt, ContentAt
  <2>2. CASE compressing /\ Len(p) < Threshold
    <3>1. content = WriteVarint(0) \o p /\ size = 1 + Len(p)
      BY <2>2 DEF SizeAt, ContentAt
    <3>2. /\ WriteVarint(0) \o p \in Seq(Byte)
          /\ Len(WriteVarint(0) \o p) = Len(WriteVarint(0)) + Len(p)
      BY BodyIs, ZeroIs, ConcatProperties
    <3> QED
      BY <3>1, <3>2, ZeroIs
  <2>3. CASE compressing /\ ~ Len(p) < Threshold
    <3>1. content = WriteVarint(Len(p)) \o Zip[p] /\ size = VarintLen(Len(p)) + Len(Zip[p])
      BY <2>3 DEF SizeAt, ContentAt, Zipped
    <3>2. /\ WriteVarint(Len(p)) \o Zip[p] \in Seq(Byte)
          /\ Len(WriteVarint(Len(p)) \o Zip[p]) = Len(WriteVarint(Len(p))) + Len(Zip[p])
      BY BodyIs, ConcatProperties
    <3> QED
      BY <3>1, <3>2, BodyIs
  <2> QED
    BY <2>1, <2>2, <2>3
<1>. HIDE DEF size, content
<1>3. size \in Unsigned /\ Signed(size) = size
  BY <1>1, SignedIs
<1>4. WriteVarint(size) \in Seq(Byte)
  BY <1>3, GroupsType, WriteVarintIs
<1>5. WriteVarint(size) \o content \in Seq(Byte)
  BY <1>2, <1>4, ConcatProperties
<1> QED
  BY <1>1, <1>2, <1>3, <1>4, <1>5 DEF size, content, FrameAt

\* What follows the first of two sequences is the second.
LEMMA Behind ==
    ASSUME NEW s \in Seq(Byte), NEW t \in Seq(Byte)
    PROVE  SubSeq(s \o t, Len(s) + 1, Len(s \o t)) = t
<1>. DEFINE all == s \o t
            m == Len(s)
            back == SubSeq(all, m + 1, Len(all))
<1>1. /\ all \in Seq(Byte) /\ Len(all) = m + Len(t)
      /\ \A i \in 1 .. m + Len(t) : all[i] = IF i <= m THEN s[i] ELSE t[i - m]
  BY ConcatProperties
<1>2. m \in Nat /\ Len(t) \in Nat
  BY LenProperties
<1>. HIDE DEF all, m
<1>3. m \in 0 .. Len(all)
  BY <1>1, <1>2
<1>4. /\ back \in Seq(Byte) /\ Len(back) = Len(all) - m
      /\ \A i \in 1 .. Len(all) - m : back[i] = all[m + i]
  BY <1>1, <1>3, Cut
<1>5. Len(back) = Len(t)
  BY <1>1, <1>2, <1>4
<1>6. \A i \in 1 .. Len(back) : back[i] = t[i]
  <2> TAKE i \in 1 .. Len(back)
  <2>1. i \in 1 .. Len(all) - m /\ m + i \in 1 .. m + Len(t) /\ ~ m + i <= m /\ (m + i) - m = i
    BY <1>1, <1>2, <1>4
  <2>2. back[i] = all[m + i]
    BY <1>4, <2>1
  <2>3. all[m + i] = t[(m + i) - m]
    <3>. DEFINE j == m + i
    <3>1. j \in 1 .. m + Len(t) /\ ~ j <= m
      BY <2>1
    <3>. HIDE DEF j
    <3>2. all[j] = t[j - m]
      BY <1>1, <3>1
    <3> QED
      BY <3>2 DEF j
  <2> QED
    BY <2>1, <2>2, <2>3
<1>. HIDE DEF back
<1>7. back = t
  BY <1>4, <1>5, <1>6, SeqEqual
<1> QED
  BY <1>7 DEF back, all, m

\* Opening what compression wrote gives the body, unless it is beyond the limit.
LEMMA Opens ==
    ASSUME NEW p \in Bodies, ~ RefusedAt(p, TRUE)
    PROVE  LET answer == Opened(ContentAt(p, TRUE))
           IN  \/ answer = Answer("packet", p, 0)
               \/ answer = Fails /\ Oversized(p)
<1>. DEFINE content == ContentAt(p, TRUE)
            size == ReadVarint(content)
            body == SubSeq(content, size.used + 1, Len(content))
<1>1. Opened(content) =
         CASE size.kind # "ok" -> Fails
           [] size.kind = "ok" /\ size.value = 0 -> Answer("packet", body, 0)
           [] size.kind = "ok" /\ size.value < Threshold /\ size.value # 0 -> Fails
           [] size.kind = "ok" /\ size.value > MaxFrame -> Fails
           [] size.kind = "ok" /\ size.value \in Threshold .. MaxFrame /\ size.value # 0 ->
                  Inflated(body, size.value)
  BY DEF Opened
<1>2. CASE Len(p) < Threshold
  <2>1. content = WriteVarint(0) \o p
    BY <1>2 DEF ContentAt
  <2>2. size = [kind |-> "ok", value |-> 0, used |-> Len(WriteVarint(0))]
    <3>1. ReadVarint(WriteVarint(0) \o p)
            = [kind |-> "ok", value |-> Signed(0), used |-> Len(WriteVarint(0))]
      BY BodyIs, ZeroIs, VarintsOf
    <3> QED
      BY <2>1, <3>1, ZeroIs
  <2>3. body = p
    <3>1. SubSeq(WriteVarint(0) \o p, Len(WriteVarint(0)) + 1, Len(WriteVarint(0) \o p)) = p
      BY BodyIs, ZeroIs, Behind
    <3>2. size.used = Len(WriteVarint(0))
      <4>. HIDE DEF size
      <4> QED
        BY <2>2
    <3>. HIDE DEF size
    <3> QED
      BY <2>1, <3>1, <3>2
  <2>. HIDE DEF size, body, content
  <2>4. size.kind = "ok" /\ size.value = 0
    BY <2>2
  <2>5. Opened(content) = Answer("packet", body, 0)
    BY <1>1, <2>4, BodyIs
  <2> QED
    BY <2>3, <2>5 DEF content
<1>3. CASE ~ Len(p) < Threshold
  <2>1. content = WriteVarint(Len(p)) \o Zip[p]
    BY <1>3 DEF ContentAt, Zipped
  <2>2. size = [kind |-> "ok", value |-> Len(p), used |-> Len(WriteVarint(Len(p)))]
    <3>1. ReadVarint(WriteVarint(Len(p)) \o Zip[p])
            = [kind |-> "ok", value |-> Signed(Len(p)), used |-> Len(WriteVarint(Len(p)))]
      BY BodyIs, VarintsOf
    <3> QED
      BY <2>1, <3>1, BodyIs
  <2>3. body = Zip[p]
    <3>1. SubSeq(WriteVarint(Len(p)) \o Zip[p], Len(WriteVarint(Len(p))) + 1,
                 Len(WriteVarint(Len(p)) \o Zip[p])) = Zip[p]
      BY BodyIs, Behind
    <3>2. size.used = Len(WriteVarint(Len(p)))
      <4>. HIDE DEF size
      <4> QED
        BY <2>2
    <3>. HIDE DEF size
    <3> QED
      BY <2>1, <3>1, <3>2
  <2>. HIDE DEF size, body, content
  <2>4. size.kind = "ok" /\ size.value = Len(p)
    BY <2>2
  <2>5. Len(p) # 0
    <3>1. SUFFICES ASSUME Len(p) = 0 PROVE FALSE
      OBVIOUS
    <3>2. Threshold = 0
      BY <1>3, <3>1, BodyIs
    <3>3. p = <<>>
      BY <3>1, BodyIs, EmptySeq
    <3> QED
      BY <3>2, <3>3, FrameCodecAssumption
  <2>6. CASE Len(p) > MaxFrame
    <3>1. ~ Len(p) \in Threshold .. MaxFrame /\ ~ Len(p) < Threshold
      BY <1>3, <2>6, BodyIs
    <3>2. Opened(content) = Fails
      BY <1>1, <2>4, <2>5, <2>6, <3>1
    <3> QED
      BY <2>6, <3>2 DEF Oversized, content
  <2>7. CASE ~ Len(p) > MaxFrame
    <3>1. Len(p) \in Threshold .. MaxFrame /\ ~ Len(p) < Threshold
      BY <1>3, <2>7, BodyIs
    <3>2. Opened(content) = Inflated(Zip[p], Len(p))
      BY <1>1, <2>3, <2>4, <2>5, <2>7, <3>1
    <3>3. \A q \in Bodies : Begins(Zip[p], Zip[q]) => q = p
      BY FrameCodecAssumption
    <3>4. Begins(Zip[p], Zip[p])
      BY BodyIs, SubSeqFull DEF Begins
    <3>5. (CHOOSE q \in Bodies : Begins(Zip[p], Zip[q])) = p
      BY <3>3, <3>4
    <3>6. Inflated(Zip[p], Len(p)) = Answer("packet", p, 0)
      BY <3>4, <3>5 DEF Inflated
    <3> QED
      BY <3>2, <3>6 DEF content
  <2> QED
    BY <2>6, <2>7
<1> QED
  BY <1>2, <1>3

\* What is in front of the second of two sequences is the first.
LEMMA InFront ==
    ASSUME NEW s \in Seq(Byte), NEW t \in Seq(Byte)
    PROVE  Len(s) \in 0 .. Len(s \o t) /\ SubSeq(s \o t, 1, Len(s)) = s
<1>. DEFINE all == s \o t
            m == Len(s)
            front == SubSeq(all, 1, m)
<1>1. /\ all \in Seq(Byte) /\ Len(all) = m + Len(t)
      /\ \A i \in 1 .. m + Len(t) : all[i] = IF i <= m THEN s[i] ELSE t[i - m]
  BY ConcatProperties
<1>2. m \in Nat /\ Len(t) \in Nat
  BY LenProperties
<1>. HIDE DEF all
<1>3. m \in 0 .. Len(all)
  BY <1>1, <1>2
<1>4. front \in Seq(Byte) /\ Len(front) = m /\ \A i \in 1 .. m : front[i] = all[i]
  BY <1>1, <1>3, Cut
<1>5. \A i \in 1 .. Len(front) : front[i] = s[i]
  BY <1>1, <1>2, <1>4
<1>. HIDE DEF front
<1>6. front = s
  BY <1>4, <1>5, SeqEqual
<1> QED
  BY <1>3, <1>6 DEF front, all, m

LEMMA Cancel ==
    ASSUME NEW s \in Seq(Byte), NEW t \in Seq(Byte), NEW u \in Seq(Byte)
    PROVE  (s \o t = s \o u => t = u) /\ (t \o s = u \o s => t = u)
<1>1. \A S : \A x, y, z \in Seq(S) : (x \o y = x \o z => y = z) /\ (y \o x = z \o x => y = z)
  BY ConcatSimplifications
<1>2. \A x, y, z \in Seq(Byte) : (x \o y = x \o z => y = z) /\ (y \o x = z \o x => y = z)
  BY <1>1, Zenon
<1> QED
  BY <1>2, Zenon

\* One byte string, cut in two ways.
CutTwice(s, t, u, w) == s \o t = u \o w

\* Of two cuts of one byte string: what is in front of the earlier cut is at the
\* front of what is in front of the later one, and the same behind.
LEMMA TwoCuts ==
    ASSUME NEW s \in Seq(Byte), NEW t \in Seq(Byte), NEW u \in Seq(Byte), NEW w \in Seq(Byte),
           CutTwice(s, t, u, w), Len(s) <= Len(u)
    PROVE  /\ Len(s) \in 0 .. Len(u) /\ SubSeq(u, 1, Len(s)) = s
           /\ SubSeq(u, Len(s) + 1, Len(u)) \in Seq(Byte)
           /\ SubSeq(u, Len(s) + 1, Len(u)) \o w = t
<1>. DEFINE m == Len(s)
            n == Len(u)
            all == s \o t
            front == SubSeq(u, 1, m)
            back == SubSeq(u, m + 1, n)
<1>1. /\ all \in Seq(Byte) /\ Len(all) = m + Len(t)
      /\ \A i \in 1 .. m + Len(t) : all[i] = IF i <= m THEN s[i] ELSE t[i - m]
  BY ConcatProperties
<1>2. /\ Len(all) = n + Len(w)
      /\ \A i \in 1 .. n + Len(w) : all[i] = IF i <= n THEN u[i] ELSE w[i - n]
  <2>1. /\ Len(u \o w) = n + Len(w)
        /\ \A i \in 1 .. n + Len(w) : (u \o w)[i] = IF i <= n THEN u[i] ELSE w[i - n]
    BY ConcatProperties
  <2>2. all = u \o w
    BY DEF CutTwice
  <2>. HIDE DEF all
  <2> QED
    BY <2>1, <2>2
<1>3. m \in Nat /\ n \in Nat /\ Len(t) \in Nat /\ Len(w) \in Nat /\ m \in 0 .. n
  BY LenProperties
<1>4. /\ front \in Seq(Byte) /\ Len(front) = m
      /\ \A i \in 1 .. m : front[i] = u[i]
      /\ back \in Seq(Byte) /\ front \o back = u
  BY <1>3, Cut
<1>5. front = s
  <2>. HIDE DEF front, all
  <2>1. \A i \in 1 .. Len(front) : front[i] = s[i]
    <3> TAKE i \in 1 .. Len(front)
    <3>1. i \in 1 .. m /\ i \in 1 .. m + Len(t) /\ i \in 1 .. n + Len(w) /\ i <= m /\ i <= n
      BY <1>3, <1>4
    <3> QED
      BY <1>1, <1>2, <1>4, <3>1
  <2> QED
    BY <1>4, <2>1, SeqEqual
<1>6. s \o (back \o w) = s \o t
  <2>1. (front \o back) \o w = front \o (back \o w)
    <3>. HIDE DEF front, back
    <3>1. front \in Seq(Byte) /\ back \in Seq(Byte)
      BY <1>4
    <3> QED
      <4>1. \A r \in Seq(Byte) : (front \o back) \o r = front \o (back \o r)
        BY <3>1, BytesAssociate, Zenon
      <4> QED
        BY <4>1, Zenon
  <2>2. s \o t = (front \o back) \o w
    BY <1>4 DEF CutTwice
  <2>. HIDE DEF front, back
  <2> QED
    BY <1>5, <2>1, <2>2
<1>7. back \o w = t
  <2>1. back \o w \in Seq(Byte)
    BY <1>4, ConcatProperties
  <2> QED
    <3>. HIDE DEF back
    <3> QED
      BY <1>6, <2>1, Cancel
<1> QED
  BY <1>3, <1>4, <1>5, <1>7

\* What a decoder answers to any part of a frame and what comes after it: it asks
\* for more, or takes the frame and gives its packet, or refuses one too large.
LEMMA DecodesFrame ==
    ASSUME NEW p \in Bodies, NEW compressing \in BOOLEAN, ~ RefusedAt(p, compressing),
           NEW bytes \in Seq(Byte), NEW coming \in Seq(Byte), NEW behind \in Seq(Byte),
           CutTwice(bytes, coming, FrameAt(p, compressing), behind)
    PROVE  LET answer == Decoded(bytes, compressing)
           IN  \/ answer = More
               \/ /\ answer.kind = "packet" /\ answer.body = p
                  /\ SubSeq(bytes, answer.used + 1, Len(bytes)) \in Seq(Byte)
                  /\ SubSeq(bytes, answer.used + 1, Len(bytes)) \o coming = behind
               \/ answer.kind = "error" /\ Oversized(p)
<1>. DEFINE size == SizeAt(p, compressing)
            content == ContentAt(p, compressing)
            front == WriteVarint(size)
            whole == front \o content
            header == ReadVarint(bytes)
            total == header.used + header.value
<1>1. /\ size \in Nat /\ size \in Unsigned /\ Signed(size) = size
      /\ content \in Seq(Byte) /\ Len(content) = size
      /\ front \in Seq(Byte) /\ (size > MaxFrame => Oversized(p))
  BY FrameType
<1>2. whole = FrameAt(p, compressing)
  BY DEF FrameAt
<1>3. content = ContentAt(p, compressing)
  OBVIOUS
<1>. HIDE DEF size, content
<1>4. Len(front) = VarintLen(size) /\ front = Groups(size) /\ Len(front) \in Nat
  BY <1>1, GroupsType, WriteVarintIs, LenProperties
<1>5. whole \in Seq(Byte) /\ Len(whole) = Len(front) + size
  <2>. HIDE DEF front
  <2>1. Len(front \o content) = Len(front) + Len(content) /\ front \o content \in Seq(Byte)
    BY <1>1, ConcatProperties
  <2> QED
    BY <1>1, <2>1
<1>6. Len(bytes) \in Nat /\ MaxFrame \in Nat \ {0}
  BY LenProperties, BodyIs
<1>7. CutTwice(bytes, coming, front, content \o behind) /\ content \o behind \in Seq(Byte)
  <2>. HIDE DEF front
  <2>1. (front \o content) \o behind = front \o (content \o behind)
    BY <1>1, BytesAssociate, SMTT(30)
  <2>2. content \o behind \in Seq(Byte)
    BY <1>1, ConcatProperties
  <2>3. bytes \o coming = whole \o behind
    BY <1>2 DEF CutTwice
  <2> QED
    BY <2>1, <2>2, <2>3 DEF CutTwice
<1>8. CASE Len(bytes) < Len(front)
  <2>1. SubSeq(front, 1, Len(bytes)) = bytes /\ Len(bytes) \in 0 .. Len(front) - 1
    <3>. HIDE DEF front
    <3>1. Len(bytes) <= Len(front)
      BY <1>4, <1>6, <1>8
    <3>2. SubSeq(front, 1, Len(bytes)) = bytes
      <4>. DEFINE all == content \o behind
      <4>1. all \in Seq(Byte) /\ CutTwice(bytes, coming, front, all)
        BY <1>7
      <4>. HIDE DEF all
      <4> QED
        BY <1>1, <3>1, <4>1, TwoCuts, SMTT(30)
    <3> QED
      BY <1>4, <1>6, <1>8, <3>2
  <2>2. header = Incomplete
    <3>1. ReadVarint(SubSeq(front, 1, Len(bytes))) = Incomplete
      <4>. DEFINE n == Len(bytes)
      <4>1. size \in Unsigned /\ n \in 0 .. Len(WriteVarint(size)) - 1
        BY <1>1, <2>1, Zenon
      <4>. HIDE DEF n
      <4>2. ReadVarint(SubSeq(WriteVarint(size), 1, n)) = Incomplete
        BY <4>1, VarintsOf
      <4> QED
        BY <4>2, Zenon DEF n
    <3> QED
      BY <2>1, <3>1, Zenon
  <2>. HIDE DEF header, total
  <2>3. header.kind = "eof"
    BY <2>2 DEF Incomplete
  <2>4. Decoded(bytes, compressing) = More
    BY <2>3 DEF Decoded, header
  <2> QED
    BY <2>4
<1>9. CASE ~ Len(bytes) < Len(front)
  <2>. DEFINE after == SubSeq(bytes, Len(front) + 1, Len(bytes))
  <2>1. /\ SubSeq(bytes, 1, Len(front)) = front /\ after \in Seq(Byte)
        /\ after \o coming = content \o behind /\ Len(front) \in 0 .. Len(bytes)
    <3>. HIDE DEF front
    <3>1. Len(front) <= Len(bytes)
      BY <1>4, <1>6, <1>9
    <3> QED
      <4>. DEFINE all == content \o behind
      <4>1. all \in Seq(Byte) /\ CutTwice(bytes, coming, front, all)
        BY <1>7
      <4>2. CutTwice(front, all, bytes, coming) /\ front \in Seq(Byte)
        BY <1>1, <4>1 DEF CutTwice
      <4>. HIDE DEF all
      <4>3. /\ Len(front) \in 0 .. Len(bytes) /\ SubSeq(bytes, 1, Len(front)) = front
            /\ after \in Seq(Byte) /\ after \o coming = all
        BY <3>1, <4>1, <4>2, TwoCuts
      <4> QED
        BY <4>3 DEF all
  <2>2. bytes = front \o after
    <3>. HIDE DEF front
    <3>1. SubSeq(bytes, 1, Len(front)) \o after = bytes
      BY <2>1, Cut
    <3> QED
      BY <2>1, <3>1
  <2>3. header = [kind |-> "ok", value |-> size, used |-> Len(front)]
    <3>1. ReadVarint(front \o after) = [kind |-> "ok", value |-> Signed(size), used |-> Len(front)]
      <4>. HIDE DEF after
      <4> QED
        BY <1>1, <2>1, VarintsOf
    <3>. HIDE DEF front, after
    <3> QED
      BY <1>1, <2>2, <3>1
  <2>. HIDE DEF header
  <2>4. header.kind = "ok" /\ header.value = size /\ header.used = Len(front) /\ total = Len(whole)
    BY <1>5, <2>3
  <2>. HIDE DEF total, front, whole, after
  <2>5. Decoded(bytes, compressing) =
          CASE header.kind = "eof" -> More
            [] header.kind = "too_long" -> Fails
            [] header.kind = "ok" /\ ~ header.value \in 0 .. MaxFrame -> Fails
            [] header.kind = "ok" /\ header.value \in 0 .. MaxFrame /\ Len(bytes) < total -> More
            [] header.kind = "ok" /\ header.value \in 0 .. MaxFrame /\ Len(bytes) >= total ->
                   LET frame == SubSeq(bytes, header.used + 1, total)
                       inner == Opened(frame)
                   IN  IF compressing THEN [inner EXCEPT !.used = total]
                       ELSE Answer("packet", frame, total)
    BY DEF Decoded, header, total
  <2>6. CASE size > MaxFrame
    <3>1. ~ header.value \in 0 .. MaxFrame
      BY <1>1, <1>6, <2>4, <2>6
    <3>2. Decoded(bytes, compressing) = Fails
      BY <2>4, <2>5, <3>1
    <3> QED
      BY <1>1, <2>6, <3>2 DEF Fails, Answer
  <2>7. CASE ~ size > MaxFrame /\ Len(bytes) < Len(whole)
    <3>1. header.value \in 0 .. MaxFrame /\ Len(bytes) < total /\ ~ Len(bytes) >= total
      BY <1>1, <1>4, <1>5, <1>6, <2>4, <2>7
    <3>2. Decoded(bytes, compressing) = More
      BY <2>4, <2>5, <3>1
    <3> QED
      BY <3>2
  <2>8. CASE ~ size > MaxFrame /\ ~ Len(bytes) < Len(whole)
    <3>1. header.value \in 0 .. MaxFrame /\ Len(bytes) >= total /\ ~ Len(bytes) < total
      BY <1>1, <1>4, <1>5, <1>6, <2>4, <2>8
    <3>. DEFINE frame == SubSeq(bytes, Len(front) + 1, Len(whole))
                left == SubSeq(bytes, Len(whole) + 1, Len(bytes))
    <3>2. Decoded(bytes, compressing) =
             IF compressing THEN [Opened(frame) EXCEPT !.used = Len(whole)]
             ELSE Answer("packet", frame, Len(whole))
      BY <2>4, <2>5, <3>1
    <3>3. /\ SubSeq(bytes, 1, Len(whole)) = whole /\ left \in Seq(Byte)
          /\ left \o coming = behind /\ Len(whole) \in 0 .. Len(bytes)
      <4>1. Len(whole) <= Len(bytes)
        BY <2>4, <3>1
      <4> QED
        <5>1. CutTwice(whole, behind, bytes, coming)
          BY <1>2 DEF CutTwice
        <5>2. whole \in Seq(Byte)
          BY <1>5
        <5> QED
          BY <4>1, <5>1, <5>2, TwoCuts
    <3>4. frame = content
      <4>1. bytes = whole \o left
        <5>1. SubSeq(bytes, 1, Len(whole)) \o left = bytes
          BY <3>3, Cut
        <5> QED
          BY <3>3, <5>1
      <4>2. after = content \o left
        <5>1. whole \o left = front \o (content \o left)
          <6>. HIDE DEF left
          <6>1. front \in Seq(Byte) /\ content \in Seq(Byte) /\ left \in Seq(Byte)
            BY <1>1, <3>3
          <6>2. (front \o content) \o left = front \o (content \o left)
            <7>1. \A r \in Seq(Byte) : (front \o content) \o r = front \o (content \o r)
              BY <6>1, BytesAssociate, Zenon
            <7> QED
              BY <6>1, <7>1, Zenon
          <6> QED
            BY <6>2 DEF whole
        <5>2. front \o after = front \o (content \o left)
          BY <2>2, <4>1, <5>1
        <5>3. content \o left \in Seq(Byte)
          BY <1>1, <3>3, ConcatProperties
        <5>. HIDE DEF left
        <5> QED
          BY <1>1, <2>1, <5>2, <5>3, Cancel
      <4>. DEFINE m == Len(front)
                  n == Len(whole)
      <4>3. /\ \A i \in m + 1 .. n : bytes[i] \in Byte
            /\ m + 1 \in Int /\ n \in Int /\ m \in Nat /\ n = m + size
        BY <1>1, <1>4, <1>5, <3>3, ElementOfSeq
      <4>4. m + 1 \in 1 .. Len(bytes) + 1 /\ n \in (m + 1) - 1 .. Len(bytes) /\ Len(bytes) \in n .. Len(bytes)
        BY <1>1, <1>6, <3>3, <4>3
      <4>5. frame \o left = after
        <5>. HIDE DEF m, n
        <5>1. SubSeq(bytes, m + 1, n) \o SubSeq(bytes, n + 1, Len(bytes)) = SubSeq(bytes, m + 1, Len(bytes))
          BY <4>4, ConcatAdjacentSubSeq
        <5> QED
          BY <5>1 DEF m, n, after
      <4>6. frame \in Seq(Byte)
        <5>. HIDE DEF m, n
        <5>1. SubSeq(bytes, m + 1, n) \in Seq(Byte)
          BY <4>3, SubSeqProperties
        <5> QED
          BY <5>1 DEF m, n
      <4>. HIDE DEF frame, left
      <4> QED
        <5>1. frame \in Seq(Byte) /\ content \in Seq(Byte) /\ left \in Seq(Byte)
          BY <1>1, <3>3, <4>6
        <5>2. frame \o left = content \o left
          BY <4>2, <4>5
        <5> QED
          BY <5>1, <5>2, Cancel
    <3>5. CASE ~compressing
      <4>1. content = p
        BY <3>5 DEF content, ContentAt
      <4>2. Decoded(bytes, compressing) = Answer("packet", p, Len(whole))
        BY <3>2, <3>4, <3>5, <4>1
      <4> QED
        BY <3>3, <4>2 DEF Answer
    <3>6. CASE compressing
      <4>1. content = ContentAt(p, TRUE) /\ ~ RefusedAt(p, TRUE)
        BY <1>3, <3>6
      <4>2. Opened(content) = Answer("packet", p, 0) \/ (Opened(content) = Fails /\ Oversized(p))
        BY <4>1, Opens
      <4>3. Decoded(bytes, compressing) = [Opened(content) EXCEPT !.used = Len(whole)]
        BY <3>2, <3>4, <3>6
      <4>4. CASE Opened(content) = Answer("packet", p, 0)
        <5>1. Decoded(bytes, compressing) = Answer("packet", p, Len(whole))
          BY <4>3, <4>4 DEF Answer
        <5> QED
          BY <3>3, <5>1 DEF Answer
      <4>5. CASE Opened(content) = Fails /\ Oversized(p)
        <5>1. Decoded(bytes, compressing).kind = "error"
          BY <4>3, <4>5 DEF Fails, Answer
        <5> QED
          BY <4>5, <5>1
      <4> QED
        BY <4>2, <4>4, <4>5
    <3> QED
      BY <3>5, <3>6
  <2> QED
    BY <2>6, <2>7, <2>8
<1> QED
  BY <1>8, <1>9

\* Nothing is no packet, and no fault.
LEMMA DecodesNothing ==
    ASSUME NEW compressing \in BOOLEAN
    PROVE  Decoded(<<>>, compressing) = More
<1>. DEFINE z == 0
            none == <<>>
<1>1. none \in Seq(Byte) /\ Len(none) = 0 /\ z \in Unsigned /\ VarintLen(z) = 1
  BY EmptySeq, ZeroIs
<1>. HIDE DEF z, none
<1>2. Len(none) < VarintLen(z) /\ \A i \in 1 .. Len(none) : none[i] = Groups(z)[i]
  BY <1>1
<1>3. ReadVarint(none) = Incomplete
  BY <1>1, <1>2, ReadPart
<1>4. ReadVarint(none).kind = "eof"
  BY <1>3 DEF Incomplete
<1> QED
  BY <1>4 DEF Decoded, none

-----------------------------------------------------------------------------
(* The inductive invariant.                                                *)

\* Whether the n-th packet is written, and read, with compression on: it is once
\* the packet that announces it has gone by.
Mode(packets, n) == \E i \in 1 .. n - 1 : packets[i] = SetCompression

\* What has been delivered is what was sent first.
Ordered ==
    /\ Len(delivered) <= Len(sent)
    /\ \A n \in 1 .. Len(delivered) : delivered[n] = sent[n]

\* Each end's switch is thrown by the packets that have gone by it.
Switched ==
    /\ encoder.compressing = Mode(sent, Len(sent) + 1)
    /\ decoder.compressing = Mode(sent, Len(delivered) + 1)
    /\ \A n \in 1 .. Len(sent) : ~ RefusedAt(sent[n], Mode(sent, n))

\* While the encoder writes, its register is the decoder's once what is on its way
\* has gone by, except while the packet that announces encryption is the last one
\* on its way.
Ciphered ==
    /\ \A n \in 1 .. Len(sent) :
          sent[n] = EncryptionReply =>
              /\ encoder.register # Clear
              /\ n > Len(delivered) => n = Len(sent) /\ Waiting
    /\ Waiting =>
          /\ Len(delivered) < Len(sent) /\ sent[Len(sent)] = EncryptionReply
          /\ done = "no" /\ encoder.register = Secret
    /\ ~Waiting /\ done = "no" => encoder.register = After(stream, decoder.register)

\* What comes after the last packet: nothing, or what is no packet.
Tails ==
    IF done # "malformed" THEN {<<>>}
    ELSE IF encoder.compressing THEN MalformedZip ELSE Malformed

\* rest[n] is what the decoder has yet to take once it has taken n packets: the
\* frame of the next and the rest after that.  What is buffered and what is on its
\* way, decrypted, are together the rest after those delivered.
Pending(rest) ==
    /\ rest \in [Len(delivered) .. Len(sent) -> Seq(Byte)]
    /\ rest[Len(sent)] \in Tails
    /\ \A n \in Len(delivered) + 1 .. Len(sent) : rest[n - 1] = FrameAt(sent[n], Mode(sent, n)) \o rest[n]
    /\ rest[Len(delivered)] = buffer \o Deciphered(stream, decoder.register)

CodecInv ==
    TypeOK /\ Ordered /\ Switched /\ Ciphered /\ FaultsExplained /\ \E rest : Pending(rest)

LEMMA EndsAre == Registers = Byte \cup {Clear} /\ Ends = [compressing : BOOLEAN, register : Registers]
  BY DEF Ends, Registers

LEMMA InitInv == Init => CodecInv
<1> SUFFICES ASSUME Init PROVE CodecInv
  OBVIOUS
<1>1. /\ sent = <<>> /\ delivered = <<>> /\ stream = <<>> /\ buffer = <<>>
      /\ encoder = [compressing |-> FALSE, register |-> Clear] /\ decoder = encoder
      /\ done = "no" /\ fault = FALSE
  BY DEF Init
<1>2. Len(sent) = 0 /\ Len(delivered) = 0 /\ <<>> \in Seq(Byte) /\ <<>> \in Seq(Bodies)
  BY <1>1, EmptySeq
<1>3. TypeOK
  BY <1>1, <1>2 DEF TypeOK, Ends
<1>4. Ordered
  BY <1>2 DEF Ordered
<1>5. Switched
  BY <1>1, <1>2 DEF Switched, Mode
<1>6. Ciphered
  BY <1>1, <1>2 DEF Ciphered, Waiting, After
<1>7. FaultsExplained
  BY <1>1 DEF FaultsExplained
<1>8. Pending([n \in 0 .. 0 |-> <<>>])
  <2>1. Deciphered(stream, decoder.register) = <<>>
    BY <1>1 DEF Deciphered
  <2>2. buffer \o <<>> = <<>>
    BY <1>1, <1>2, ConcatEmptySeq
  <2> QED
    BY <1>1, <1>2, <2>1, <2>2 DEF Pending, Tails
<1> QED
  BY <1>3, <1>4, <1>5, <1>6, <1>7, <1>8 DEF CodecInv

\* What the parts of the invariant say of the types of things.
LEMMA TypesAre ==
    ASSUME TypeOK
    PROVE  /\ sent \in Seq(Bodies) /\ Len(sent) \in Nat
           /\ (\A n \in 1 .. Len(sent) : sent[n] \in Bodies)
           /\ delivered \in Seq(Bodies) /\ Len(delivered) \in Nat
           /\ stream \in Seq(Byte) /\ buffer \in Seq(Byte)
           /\ encoder.compressing \in BOOLEAN /\ decoder.compressing \in BOOLEAN
           /\ encoder.register \in Registers /\ decoder.register \in Registers
           /\ encoder = [compressing |-> encoder.compressing, register |-> encoder.register]
           /\ decoder = [compressing |-> decoder.compressing, register |-> decoder.register]
           /\ Deciphered(stream, decoder.register) \in Seq(Byte)
<1>1. /\ sent \in Seq(Bodies) /\ delivered \in Seq(Bodies)
      /\ stream \in Seq(Byte) /\ buffer \in Seq(Byte)
      /\ encoder \in [compressing : BOOLEAN, register : Registers]
      /\ decoder \in [compressing : BOOLEAN, register : Registers]
  BY EndsAre DEF TypeOK
<1>2. Deciphered(stream, decoder.register) \in Seq(Byte)
  BY <1>1, DecipheredIs
<1> QED
  BY <1>1, <1>2, LenProperties, ElementOfSeq

\* Bytes put on the stream, enciphered where no encryption reply is awaited, come
\* out of the other end's cipher after those before them.
LEMMA Transmits ==
    ASSUME NEW bytes \in Seq(Byte), TypeOK, Ciphered, ~Waiting, done = "no",
           Transmit(bytes), decoder' = decoder
    PROVE  /\ stream' \in Seq(Byte)
           /\ Deciphered(stream', decoder'.register) = Deciphered(stream, decoder.register) \o bytes
           /\ After(stream', decoder'.register)
                = After(Enciphered(bytes, encoder.register), encoder.register)
<1>. DEFINE wire == Enciphered(bytes, encoder.register)
<1>1. /\ stream \in Seq(Byte) /\ encoder.register \in Registers /\ decoder.register \in Registers
      /\ encoder.register = After(stream, decoder.register)
  BY TypesAre DEF Ciphered
<1>2. wire \in Seq(Byte) /\ Deciphered(wire, encoder.register) = bytes
  BY <1>1, DecipheredIs, Decrypts
<1>3. stream' = stream \o wire
  BY DEF Transmit
<1>. HIDE DEF wire
<1>4. stream \o wire \in Seq(Byte)
  BY <1>1, <1>2, ConcatProperties
<1>5. /\ Deciphered(stream \o wire, decoder.register)
           = Deciphered(stream, decoder.register) \o Deciphered(wire, After(stream, decoder.register))
      /\ After(stream \o wire, decoder.register) = After(wire, After(stream, decoder.register))
  BY <1>1, <1>2, InPieces
<1> QED
  BY <1>1, <1>2, <1>3, <1>4, <1>5 DEF wire

LEMMA EncodeInv ==
    ASSUME CodecInv, NEW p \in Bodies, Encode(p)
    PROVE  CodecInv'
<1>. DEFINE frame == FrameAt(p, encoder.compressing)
            N == Len(sent)
            D == Len(delivered)
<1>1. /\ done = "no" /\ ~Waiting /\ ~ Refused(p)
      /\ (p = EncryptionReply => encoder.register = Clear)
      /\ Transmit(Frame(p)) /\ sent' = Append(sent, p)
      /\ encoder' = [compressing |-> encoder.compressing \/ p = SetCompression,
                     register    |-> IF p = EncryptionReply THEN Secret
                                     ELSE After(Enciphered(Frame(p), encoder.register), encoder.register)]
      /\ UNCHANGED <<delivered, buffer, decoder, done, fault>>
  BY DEF Encode
<1>2. TypeOK /\ Ordered /\ Switched /\ Ciphered /\ FaultsExplained /\ \E rest : Pending(rest)
  BY DEF CodecInv
<1>3. /\ N \in Nat /\ D \in Nat /\ D <= N /\ buffer \in Seq(Byte)
      /\ \A n \in 1 .. N : sent[n] \in Bodies
  BY <1>2, TypesAre DEF Ordered
<1>4. ~ RefusedAt(p, encoder.compressing) /\ Frame(p) = frame /\ frame \in Seq(Byte)
  <2>1. encoder.compressing \in BOOLEAN
    BY <1>2, TypesAre
  <2>2. ~ RefusedAt(p, encoder.compressing) /\ Frame(p) = frame
    BY <1>1, <2>1, FrameIs
  <2> QED
    BY <2>1, <2>2, FrameType
<1>. HIDE DEF frame
<1>5. /\ stream' \in Seq(Byte)
      /\ Deciphered(stream', decoder'.register) = Deciphered(stream, decoder.register) \o frame
      /\ After(stream', decoder'.register)
           = After(Enciphered(frame, encoder.register), encoder.register)
  BY <1>1, <1>2, <1>4, Transmits
<1>6. /\ sent' \in Seq(Bodies) /\ Len(sent') = N + 1 /\ sent'[N + 1] = p
      /\ \A n \in 1 .. N : sent'[n] = sent[n]
  BY <1>1, <1>2, AppendProperties, TypesAre
<1>7. encoder'.register \in Registers
  <2>1. After(Enciphered(frame, encoder.register), encoder.register) \in Registers
    BY <1>2, <1>4, TypesAre, DecipheredIs
  <2>2. Secret \in Registers
    BY FrameCodecAssumption DEF Registers
  <2> QED
    BY <1>1, <1>4, <2>1, <2>2
<1>8. TypeOK'
  BY <1>1, <1>2, <1>5, <1>6, <1>7, EndsAre, TypesAre DEF TypeOK
<1>9. Ordered'
  BY <1>1, <1>2, <1>3, <1>6 DEF Ordered
<1>10. \A n \in 1 .. N + 1 : Mode(sent', n) = Mode(sent, n)
  <2> TAKE n \in 1 .. N + 1
  <2>1. \A i \in 1 .. n - 1 : sent'[i] = sent[i]
    BY <1>3, <1>6
  <2> QED
    BY <2>1 DEF Mode
<1>11. Switched'
  <2>1. (encoder.compressing \/ p = SetCompression) = Mode(sent', N + 2)
    <3>1. Mode(sent', N + 2) = \E i \in 1 .. N + 1 : sent'[i] = SetCompression
      <4>1. (N + 2) - 1 = N + 1
        BY <1>3
      <4> QED
        BY <4>1 DEF Mode
    <3>2. encoder.compressing = \E i \in 1 .. N : sent[i] = SetCompression
      <4>1. (N + 1) - 1 = N
        BY <1>3
      <4> QED
        BY <1>2, <4>1 DEF Switched, Mode
    <3>3. (\E i \in 1 .. N + 1 : sent'[i] = SetCompression)
             <=> (\E i \in 1 .. N : sent[i] = SetCompression) \/ p = SetCompression
      BY <1>3, <1>6
    <3>4. encoder.compressing \in BOOLEAN
      BY <1>2, TypesAre
    <3> QED
      BY <3>1, <3>2, <3>3, <3>4
  <2>2. encoder'.compressing = Mode(sent', Len(sent') + 1)
    <3>1. N + 1 + 1 = N + 2
      BY <1>3
    <3>2. encoder'.compressing = (encoder.compressing \/ p = SetCompression)
      BY <1>1
    <3> QED
      BY <1>6, <2>1, <3>1, <3>2
  <2>3. decoder'.compressing = Mode(sent', Len(delivered') + 1)
    <3>1. D + 1 \in 1 .. N + 1
      BY <1>3
    <3>2. Mode(sent', D + 1) = Mode(sent, D + 1)
      BY <1>10, <3>1
    <3> QED
      BY <1>1, <1>2, <3>2 DEF Switched
  <2>4. \A n \in 1 .. Len(sent') : ~ RefusedAt(sent'[n], Mode(sent', n))
    <3> TAKE n \in 1 .. Len(sent')
    <3>1. n \in 1 .. N + 1 /\ Mode(sent', n) = Mode(sent, n)
      BY <1>6, <1>10
    <3>2. CASE n = N + 1
      BY <1>2, <1>4, <1>6, <3>1, <3>2 DEF Switched
    <3>3. CASE n # N + 1
      BY <1>2, <1>3, <1>6, <3>1, <3>3 DEF Switched
    <3> QED
      BY <3>2, <3>3
  <2> QED
    BY <2>2, <2>3, <2>4 DEF Switched
<1>12. Ciphered'
  <2>0. /\ decoder' = decoder /\ delivered' = delivered /\ done' = "no"
        /\ encoder.register \in Registers /\ decoder.register \in Registers /\ Secret # Clear
        /\ (encoder.register = Clear <=> decoder.register = Clear)
    <3>1. encoder.register = After(stream, decoder.register)
      BY <1>1, <1>2 DEF Ciphered
    <3>2. encoder.register = Clear <=> decoder.register = Clear
      BY <1>2, <3>1, TypesAre, DecipheredIs
    <3> QED
      BY <1>1, <1>2, <3>2, TypesAre, ClearIs, FrameCodecAssumption
  <2>1. CASE p = EncryptionReply
    <3>1. encoder'.register = Secret /\ encoder.register = Clear
      BY <1>1, <2>1
    <3>2. Waiting'
      BY <2>0, <3>1 DEF Waiting
    <3>3. \A n \in 1 .. N : sent[n] # EncryptionReply
      BY <1>2, <3>1 DEF Ciphered
    <3>4. \A n \in 1 .. Len(sent') : sent'[n] = EncryptionReply => n = Len(sent')
      BY <1>3, <1>6, <3>3
    <3>5. Len(delivered') < Len(sent') /\ sent'[Len(sent')] = EncryptionReply
      BY <1>3, <1>6, <2>0, <2>1
    <3> QED
      BY <2>0, <3>1, <3>2, <3>4, <3>5 DEF Ciphered
  <2>2. CASE p # EncryptionReply
    <3>1. encoder'.register = After(Enciphered(frame, encoder.register), encoder.register)
      BY <1>1, <1>4, <2>2
    <3>2. encoder'.register = Clear <=> encoder.register = Clear
      BY <1>4, <2>0, <3>1, DecipheredIs
    <3>3. ~ Waiting'
      BY <2>0, <3>2 DEF Waiting
    <3>4. encoder'.register = After(stream', decoder'.register)
      BY <1>5, <3>1
    <3>5. \A n \in 1 .. Len(sent') :
             sent'[n] = EncryptionReply => encoder'.register # Clear /\ ~ n > Len(delivered')
      <4> SUFFICES ASSUME NEW n \in 1 .. Len(sent'), sent'[n] = EncryptionReply
                   PROVE  encoder'.register # Clear /\ ~ n > Len(delivered')
        OBVIOUS
      <4>1. n \in 1 .. N /\ sent[n] = EncryptionReply
        BY <1>3, <1>6, <2>2
      <4>2. encoder.register # Clear /\ ~ n > D
        BY <1>1, <1>2, <4>1 DEF Ciphered
      <4> QED
        BY <2>0, <3>2, <4>2
    <3> QED
      BY <3>3, <3>4, <3>5 DEF Ciphered
  <2> QED
    BY <2>1, <2>2
<1>13. FaultsExplained'
  <2>1. ASSUME NEW n \in DOMAIN sent
        PROVE  n \in DOMAIN sent' /\ sent'[n] = sent[n]
    <3>1. n \in 1 .. N /\ DOMAIN sent' = 1 .. N + 1
      BY <1>2, <1>6, LenProperties DEF TypeOK
    <3> QED
      BY <1>3, <1>6, <3>1
  <2> QED
    BY <1>1, <1>2, <2>1 DEF FaultsExplained
<1>14. (\E rest : Pending(rest))'
  <2>1. PICK rest : Pending(rest)
    BY <1>2
  <2>. DEFINE next == [n \in D .. N + 1 |-> IF n = N + 1 THEN <<>> ELSE rest[n] \o frame]
  <2>2. \A n \in D .. N : rest[n] \in Seq(Byte) /\ rest[n] \o frame \in Seq(Byte)
    BY <1>4, <2>1, ConcatProperties DEF Pending
  <2>3. <<>> \in Seq(Byte)
    BY EmptySeq
  <2>4. next \in [D .. N + 1 -> Seq(Byte)]
    BY <1>3, <2>2, <2>3
  <2>5. N + 1 \in D .. N + 1 /\ D \in D .. N + 1 /\ D # N + 1 /\ D \in D .. N /\ N \in D .. N
    BY <1>3
  <2>6. next[N + 1] \in Tails'
    BY <1>1, <2>5 DEF Tails
  <2>7. next[D] = buffer' \o Deciphered(stream', decoder'.register)
    <3>1. rest[D] = buffer \o Deciphered(stream, decoder.register)
      BY <2>1 DEF Pending
    <3>. DEFINE plain == Deciphered(stream, decoder.register)
    <3>2. plain \in Seq(Byte)
      BY <1>2, TypesAre
    <3>3. next[D] = (buffer \o plain) \o frame
      BY <2>5, <3>1
    <3>4. Deciphered(stream', decoder'.register) = plain \o frame
      BY <1>5
    <3>. HIDE DEF plain, next
    <3>5. (buffer \o plain) \o frame = buffer \o (plain \o frame)
      BY <1>3, <1>4, <3>2, BytesAssociate, Zenon
    <3> QED
      BY <1>1, <3>3, <3>4, <3>5
  <2>8. ASSUME NEW n \in D + 1 .. N + 1
        PROVE  next[n - 1] = FrameAt(sent'[n], Mode(sent', n)) \o next[n]
    <3>1. n \in 1 .. N + 1 /\ n \in D .. N + 1 /\ n - 1 \in D .. N /\ n - 1 \in D .. N + 1 /\ n - 1 # N + 1
      BY <1>3
    <3>2. next[n - 1] = rest[n - 1] \o frame /\ Mode(sent', n) = Mode(sent, n)
      BY <1>10, <3>1
    <3>3. CASE n = N + 1
      <4>1. rest[n - 1] = <<>>
        <5>1. n - 1 = N
          BY <1>3, <3>3
        <5> QED
          BY <1>1, <2>1, <5>1 DEF Pending, Tails
      <4>2. next[n] = <<>>
        BY <3>1, <3>3
      <4>3. FrameAt(sent'[n], Mode(sent', n)) = frame
        BY <1>2, <1>6, <3>2, <3>3 DEF Switched, frame
      <4>4. <<>> \o frame = frame /\ frame \o <<>> = frame
        BY <1>4, ConcatEmptySeq
      <4> QED
        BY <3>2, <4>1, <4>2, <4>3, <4>4
    <3>4. CASE n # N + 1
      <4>1. n \in D + 1 .. N /\ n \in 1 .. N /\ n \in D .. N
        BY <1>3, <3>1, <3>4
      <4>. DEFINE f == FrameAt(sent[n], Mode(sent, n))
      <4>2. rest[n - 1] = f \o rest[n]
        BY <2>1, <4>1 DEF Pending
      <4>3. next[n] = rest[n] \o frame
        BY <3>1, <3>4
      <4>4. FrameAt(sent'[n], Mode(sent', n)) = f
        BY <1>6, <3>2, <4>1
      <4>5. f \in Seq(Byte)
        <5>1. sent[n] \in Bodies /\ Mode(sent, n) \in BOOLEAN /\ ~ RefusedAt(sent[n], Mode(sent, n))
          BY <1>2, <1>3, <4>1 DEF Switched, Mode
        <5> QED
          BY <5>1, FrameType
      <4>. HIDE DEF f, next
      <4>6. rest[n] \in Seq(Byte)
        BY <2>2, <4>1
      <4>. DEFINE r == rest[n]
      <4>7. r \in Seq(Byte)
        BY <4>6
      <4>8. rest[n - 1] = f \o r /\ next[n] = r \o frame
        BY <4>2, <4>3
      <4>. HIDE DEF r
      <4>9. (f \o r) \o frame = f \o (r \o frame)
        <5>1. frame \in Seq(Byte)
          BY <1>4
        <5> QED
          BY <4>5, <4>7, <5>1, BytesAssociate, Zenon
      <4> QED
        BY <3>2, <4>4, <4>8, <4>9
    <3> QED
      BY <3>3, <3>4
  <2>. HIDE DEF next
  <2>9. PICK after : after = next
    OBVIOUS
  <2>10. Pending(after)'
    BY <1>1, <1>6, <2>4, <2>6, <2>7, <2>8, <2>9 DEF Pending
  <2> QED
    BY <2>10
<1> QED
  BY <1>8, <1>9, <1>11, <1>12, <1>13, <1>14 DEF CodecInv

\* Whatever is decoded, the answer is one of three.
LEMMA DecodedType ==
    ASSUME NEW bytes \in Seq(Byte), NEW compressing \in BOOLEAN
    PROVE  Decoded(bytes, compressing) = More \/ Decoded(bytes, compressing).kind \in {"packet", "error"}
<1>. DEFINE header == ReadVarint(bytes)
            total == header.used + header.value
            frame == SubSeq(bytes, header.used + 1, total)
            inner == Opened(frame)
<1>1. Len(bytes) \in Nat /\ MaxFrame \in Nat
  BY LenProperties, FrameCodecAssumption
<1>2. \/ /\ header.kind = "ok" /\ header.value \in Int /\ header.used \in Nat
      \/ header.kind = "eof" \/ header.kind = "too_long"
  BY ReadVarintType, VarintAssumption DEF Incomplete, TooLong
<1>3. Decoded(bytes, compressing) =
        CASE header.kind = "eof" -> More
          [] header.kind = "too_long" -> Fails
          [] header.kind = "ok" /\ ~ header.value \in 0 .. MaxFrame -> Fails
          [] header.kind = "ok" /\ header.value \in 0 .. MaxFrame /\ Len(bytes) < total -> More
          [] header.kind = "ok" /\ header.value \in 0 .. MaxFrame /\ Len(bytes) >= total ->
                 IF compressing THEN [inner EXCEPT !.used = total]
                 ELSE Answer("packet", frame, total)
  BY DEF Decoded
<1>. HIDE DEF header
<1>4. Fails.kind = "error" /\ Answer("packet", frame, total).kind = "packet"
  BY DEF Fails, Answer
<1>5. CASE header.kind = "eof" \/ header.kind = "too_long"
  BY <1>3, <1>4, <1>5
<1>6. CASE header.kind = "ok" /\ header.value \in Int /\ header.used \in Nat
  <2>1. CASE ~ header.value \in 0 .. MaxFrame
    BY <1>3, <1>4, <1>6, <2>1
  <2>2. CASE header.value \in 0 .. MaxFrame /\ Len(bytes) < total
    <3>1. ~ Len(bytes) >= total
      BY <1>1, <1>6, <2>2
    <3>. HIDE DEF total, frame, inner
    <3> QED
      BY <1>3, <1>6, <2>2, <3>1
  <2>3. CASE header.value \in 0 .. MaxFrame /\ ~ Len(bytes) < total
    <3>1. Len(bytes) >= total /\ total \in Nat
      BY <1>1, <1>6, <2>3
    <3>2. frame \in Seq(Byte)
      <4>1. \A i \in header.used + 1 .. total : bytes[i] \in Byte
        BY <1>1, <1>6, <3>1, ElementOfSeq
      <4>2. header.used + 1 \in Int /\ total \in Int
        BY <1>6, <3>1
      <4>. HIDE DEF total
      <4>3. SubSeq(bytes, header.used + 1, total) \in Seq(Byte)
        BY <4>1, <4>2, SubSeqProperties
      <4> QED
        BY <4>3
    <3>. HIDE DEF total, frame
    <3>3. inner.kind \in {"packet", "error"}
      BY <3>2, OpenedType
    <3>. HIDE DEF inner
    <3>4. Decoded(bytes, compressing) =
            IF compressing THEN [inner EXCEPT !.used = total] ELSE Answer("packet", frame, total)
      BY <1>3, <1>6, <2>3, <3>1
    <3> QED
      BY <1>4, <3>3, <3>4
  <2> QED
    BY <2>1, <2>2, <2>3
<1> QED
  BY <1>2, <1>5, <1>6

\* What decode answers: the packet that comes next, if it is all there.
LEMMA Answers ==
    ASSUME CodecInv, NEW rest, Pending(rest)
    PROVE  LET next == Len(delivered) + 1
           IN  \/ Answered = More
               \/ /\ Answered.kind = "packet"
                  /\ next \in 1 .. Len(sent) /\ Answered.body = sent[next]
                  /\ SubSeq(buffer, Answered.used + 1, Len(buffer)) \in Seq(Byte)
                  /\ SubSeq(buffer, Answered.used + 1, Len(buffer))
                        \o Deciphered(stream, decoder.register) = rest[next]
               \/ /\ Answered.kind = "error"
                  /\ done = "malformed" \/ (next \in 1 .. Len(sent) /\ Oversized(sent[next]))
<1>. DEFINE D == Len(delivered)
            N == Len(sent)
            plain == Deciphered(stream, decoder.register)
<1>1. TypeOK /\ Ordered /\ Switched
  BY DEF CodecInv
<1>2. /\ D \in Nat /\ N \in Nat /\ D <= N /\ buffer \in Seq(Byte) /\ plain \in Seq(Byte)
      /\ encoder.compressing \in BOOLEAN /\ decoder.compressing \in BOOLEAN
      /\ \A n \in 1 .. N : sent[n] \in Bodies
  BY <1>1, TypesAre DEF Ordered
<1>3. rest[D] = buffer \o plain
  BY DEF Pending
<1>4. Answered = Decoded(buffer, decoder.compressing)
  BY DEF Answered
<1>. HIDE DEF plain
<1>5. CASE D < N
  <2>. DEFINE n == D + 1
              p == sent[n]
  <2>1. n \in 1 .. N /\ n \in D + 1 .. N /\ n - 1 = D /\ n \in D .. N
    BY <1>2, <1>5
  <2>2. p \in Bodies /\ ~ RefusedAt(p, decoder.compressing)
    BY <1>1, <1>2, <2>1 DEF Switched
  <2>3. rest[n - 1] = FrameAt(p, Mode(sent, n)) \o rest[n]
    BY <2>1 DEF Pending
  <2>4. decoder.compressing = Mode(sent, n)
    BY <1>1 DEF Switched
  <2>5. rest[n] \in Seq(Byte)
    BY <2>1 DEF Pending
  <2>. DEFINE behind == rest[n]
  <2>6. CutTwice(buffer, plain, FrameAt(p, decoder.compressing), behind) /\ behind \in Seq(Byte)
    BY <1>3, <2>1, <2>3, <2>4, <2>5 DEF CutTwice
  <2>. HIDE DEF p, behind
  <2>. DEFINE answer == Decoded(buffer, decoder.compressing)
  <2>7. \/ answer = More
        \/ /\ answer.kind = "packet" /\ answer.body = p
           /\ SubSeq(buffer, answer.used + 1, Len(buffer)) \in Seq(Byte)
           /\ SubSeq(buffer, answer.used + 1, Len(buffer)) \o plain = behind
        \/ answer.kind = "error" /\ Oversized(p)
    BY <1>2, <2>2, <2>6, DecodesFrame
  <2>. HIDE DEF answer
  <2>8. Answered = answer
    BY <1>4 DEF answer
  <2> QED
    BY <2>1, <2>7, <2>8 DEF p, behind, plain
<1>6. CASE ~ D < N
  <2>1. D = N
    BY <1>2, <1>6
  <2>2. rest[D] \in Tails
    BY <2>1 DEF Pending
  <2>3. CASE done # "malformed"
    <3>1. buffer \o plain = <<>>
      BY <1>3, <2>2, <2>3 DEF Tails
    <3>2. buffer = <<>>
      BY <1>2, <3>1, ConcatEqualIffEmpty
    <3> QED
      BY <1>2, <1>4, <3>2, DecodesNothing
  <2>4. CASE done = "malformed"
    <3>1. encoder.compressing = decoder.compressing
      BY <1>1, <2>1 DEF Switched
    <3>2. Len(buffer) \in 0 .. Len(buffer \o plain) /\ SubSeq(buffer \o plain, 1, Len(buffer)) = buffer
      BY <1>2, InFront
    <3>3. Answered.kind # "packet"
      <4>1. CASE decoder.compressing
        <5>1. buffer \o plain \in MalformedZip
          BY <1>3, <2>2, <2>4, <3>1, <4>1 DEF Tails
        <5>2. Decoded(SubSeq(buffer \o plain, 1, Len(buffer)), TRUE).kind # "packet"
          BY <3>2, <5>1, MalformedAssumption
        <5> QED
          BY <1>2, <1>4, <3>2, <4>1, <5>2
      <4>2. CASE ~ decoder.compressing
        <5>1. buffer \o plain \in Malformed
          BY <1>3, <2>2, <2>4, <3>1, <4>2 DEF Tails
        <5>2. Decoded(SubSeq(buffer \o plain, 1, Len(buffer)), FALSE).kind # "packet"
          BY <3>2, <5>1, MalformedAssumption
        <5>3. decoder.compressing = FALSE
          BY <1>2, <4>2
        <5> QED
          BY <1>4, <3>2, <5>2, <5>3
      <4> QED
        BY <4>1, <4>2
    <3>4. Answered = More \/ Answered.kind \in {"packet", "error"}
      BY <1>2, <1>4, DecodedType
    <3> QED
      <4>1. Answered = More \/ Answered.kind = "error"
        BY <3>3, <3>4
      <4> QED
        BY <2>4, <4>1
  <2> QED
    BY <2>3, <2>4
<1> QED
  BY <1>5, <1>6

LEMMA EncodeFailsInv ==
    ASSUME CodecInv, NEW p \in Bodies, EncodeFails(p)
    PROVE  CodecInv'
<1>1. /\ done = "no" /\ ~Waiting /\ done' = "refused"
      /\ sent' = sent /\ delivered' = delivered /\ stream' = stream /\ buffer' = buffer
      /\ encoder' = encoder /\ decoder' = decoder /\ fault' = fault
  BY DEF EncodeFails
<1>2. TypeOK /\ Ordered /\ Switched /\ Ciphered /\ FaultsExplained /\ \E rest : Pending(rest)
  BY DEF CodecInv
<1>3. TypeOK' /\ Ordered' /\ Switched' /\ FaultsExplained'
  BY <1>1, <1>2 DEF TypeOK, Ordered, Switched, FaultsExplained
<1>4. Ciphered'
  BY <1>1, <1>2 DEF Ciphered, Waiting
<1>5. (\E rest : Pending(rest))'
  BY <1>1, <1>2 DEF Pending, Tails
<1> QED
  BY <1>3, <1>4, <1>5 DEF CodecInv

LEMMA EncodeMalformedInv ==
    ASSUME CodecInv, NEW bytes \in IF encoder.compressing THEN MalformedZip ELSE Malformed,
           EncodeMalformed(bytes)
    PROVE  CodecInv'
<1>. DEFINE N == Len(sent)
            D == Len(delivered)
<1>1. /\ done = "no" /\ ~Waiting /\ done' = "malformed" /\ Transmit(bytes)
      /\ sent' = sent /\ delivered' = delivered /\ buffer' = buffer
      /\ encoder' = encoder /\ decoder' = decoder /\ fault' = fault
  BY DEF EncodeMalformed
<1>2. TypeOK /\ Ordered /\ Switched /\ Ciphered /\ FaultsExplained /\ \E rest : Pending(rest)
  BY DEF CodecInv
<1>3. /\ N \in Nat /\ D \in Nat /\ D <= N /\ buffer \in Seq(Byte)
      /\ encoder.compressing \in BOOLEAN
      /\ \A n \in 1 .. N : sent[n] \in Bodies
  BY <1>2, TypesAre DEF Ordered
<1>4. bytes \in Seq(Byte)
  BY MalformedAssumption
<1>5. /\ stream' \in Seq(Byte)
      /\ Deciphered(stream', decoder'.register) = Deciphered(stream, decoder.register) \o bytes
      /\ After(stream', decoder'.register) = After(Enciphered(bytes, encoder.register), encoder.register)
  BY <1>1, <1>2, <1>4, Transmits
<1>6. TypeOK' /\ Ordered' /\ Switched' /\ FaultsExplained'
  BY <1>1, <1>2, <1>5 DEF TypeOK, Ordered, Switched, FaultsExplained
<1>7. Ciphered'
  BY <1>1, <1>2 DEF Ciphered, Waiting
<1>8. (\E rest : Pending(rest))'
  <2>1. PICK rest : Pending(rest)
    BY <1>2
  <2>. DEFINE next == [n \in D .. N |-> rest[n] \o bytes]
  <2>2. \A n \in D .. N : rest[n] \in Seq(Byte) /\ rest[n] \o bytes \in Seq(Byte)
    BY <1>4, <2>1, ConcatProperties DEF Pending
  <2>3. next \in [D .. N -> Seq(Byte)]
    BY <2>2
  <2>4. D \in D .. N /\ N \in D .. N
    BY <1>3
  <2>5. next[N] \in Tails'
    <3>1. rest[N] = <<>>
      BY <1>1, <2>1 DEF Pending, Tails
    <3>2. <<>> \o bytes = bytes
      BY <1>4, ConcatEmptySeq
    <3> QED
      BY <1>1, <2>4, <3>1, <3>2 DEF Tails
  <2>6. next[D] = buffer' \o Deciphered(stream', decoder'.register)
    <3>. DEFINE plain == Deciphered(stream, decoder.register)
    <3>1. plain \in Seq(Byte)
      BY <1>2, TypesAre
    <3>2. next[D] = (buffer \o plain) \o bytes
      BY <2>1, <2>4 DEF Pending
    <3>3. Deciphered(stream', decoder'.register) = plain \o bytes
      BY <1>5
    <3>. HIDE DEF plain, next
    <3>4. (buffer \o plain) \o bytes = buffer \o (plain \o bytes)
      BY <1>3, <1>4, <3>1, BytesAssociate, Zenon
    <3> QED
      BY <1>1, <3>2, <3>3, <3>4
  <2>7. ASSUME NEW n \in D + 1 .. N
        PROVE  next[n - 1] = FrameAt(sent[n], Mode(sent, n)) \o next[n]
    <3>1. n \in 1 .. N /\ n \in D .. N /\ n - 1 \in D .. N
      BY <1>3
    <3>. DEFINE f == FrameAt(sent[n], Mode(sent, n))
                r == rest[n]
    <3>2. rest[n - 1] = f \o r /\ r \in Seq(Byte)
      BY <2>1, <2>2, <3>1 DEF Pending
    <3>3. f \in Seq(Byte)
      <4>1. sent[n] \in Bodies /\ Mode(sent, n) \in BOOLEAN /\ ~ RefusedAt(sent[n], Mode(sent, n))
        BY <1>2, <1>3, <3>1 DEF Switched, Mode
      <4> QED
        BY <4>1, FrameType
    <3>4. next[n - 1] = (f \o r) \o bytes /\ next[n] = r \o bytes
      BY <3>1, <3>2
    <3>. HIDE DEF f, r, next
    <3>5. (f \o r) \o bytes = f \o (r \o bytes)
      BY <1>4, <3>2, <3>3, BytesAssociate, Zenon
    <3> QED
      BY <3>4, <3>5 DEF f
  <2>. HIDE DEF next
  <2>8. PICK after : after = next
    OBVIOUS
  <2>9. Pending(after)'
    BY <1>1, <2>3, <2>5, <2>6, <2>7, <2>8 DEF Pending
  <2> QED
    BY <2>9
<1> QED
  BY <1>6, <1>7, <1>8 DEF CodecInv

LEMMA DecodeInv ==
    ASSUME CodecInv, Decode
    PROVE  CodecInv' /\ Queue!Deliver
<1>. DEFINE N == Len(sent)
            D == Len(delivered)
            plain == Deciphered(stream, decoder.register)
            body == Answered.body
            left == SubSeq(buffer, Answered.used + 1, Len(buffer))
<1>1. /\ Answered.kind = "packet" /\ ~fault
      /\ delivered' = Append(delivered, body) /\ buffer' = left
      /\ decoder' = [compressing |-> decoder.compressing \/ body = SetCompression,
                     register    |-> IF body = EncryptionReply THEN Secret ELSE decoder.register]
      /\ sent' = sent /\ stream' = stream /\ encoder' = encoder /\ done' = done /\ fault' = fault
  BY DEF Decode
<1>2. TypeOK /\ Ordered /\ Switched /\ Ciphered /\ FaultsExplained /\ \E rest : Pending(rest)
  BY DEF CodecInv
<1>3. PICK rest : Pending(rest)
  BY <1>2
<1>4. /\ D + 1 \in 1 .. N /\ body = sent[D + 1]
      /\ left \in Seq(Byte) /\ left \o plain = rest[D + 1]
  <2>1. Answered # More
    BY <1>1 DEF More, Answer
  <2> QED
    BY <1>1, <1>3, <2>1, Answers
<1>5. /\ N \in Nat /\ D \in Nat /\ D < N /\ plain \in Seq(Byte) /\ body \in Bodies
      /\ stream \in Seq(Byte) /\ Len(stream) \in Nat
      /\ encoder.compressing \in BOOLEAN /\ decoder.compressing \in BOOLEAN
      /\ decoder.register \in Registers
  BY <1>2, <1>4, TypesAre, LenProperties
<1>. HIDE DEF body, left, plain
<1>6. /\ delivered' \in Seq(Bodies) /\ Len(delivered') = D + 1 /\ delivered'[D + 1] = body
      /\ \A n \in 1 .. D : delivered'[n] = delivered[n]
  BY <1>1, <1>2, <1>5, AppendProperties DEF TypeOK
<1>7. TypeOK'
  <2>1. Secret \in Registers
    BY FrameCodecAssumption DEF Registers
  <2> QED
    BY <1>1, <1>2, <1>4, <1>5, <1>6, <2>1, EndsAre DEF TypeOK
<1>8. Ordered'
  BY <1>1, <1>2, <1>4, <1>5, <1>6 DEF Ordered
<1>9. Switched'
  <2>1. (decoder.compressing \/ body = SetCompression) = Mode(sent, D + 2)
    <3>1. (D + 2) - 1 = D + 1 /\ (D + 1) - 1 = D
      BY <1>5
    <3>2. Mode(sent, D + 2) = \E i \in 1 .. D + 1 : sent[i] = SetCompression
      BY <3>1 DEF Mode
    <3>3. decoder.compressing = \E i \in 1 .. D : sent[i] = SetCompression
      BY <1>2, <3>1 DEF Switched, Mode
    <3>4. (\E i \in 1 .. D + 1 : sent[i] = SetCompression)
             <=> (\E i \in 1 .. D : sent[i] = SetCompression) \/ sent[D + 1] = SetCompression
      BY <1>5
    <3> QED
      BY <1>4, <1>5, <3>2, <3>3, <3>4
  <2>2. D + 1 + 1 = D + 2
    BY <1>5
  <2> QED
    BY <1>1, <1>2, <1>6, <2>1, <2>2 DEF Switched
<1>10. Ciphered'
  <2>0. encoder'.register = encoder.register /\ Secret # Clear
    BY <1>1, ClearIs, FrameCodecAssumption
  <2>1. CASE body = EncryptionReply
    <3>1. D + 1 = N /\ Waiting /\ encoder.register = Secret /\ done = "no"
      <4>1. D + 1 > D
        BY <1>5
      <4> QED
        BY <1>2, <1>4, <2>1, <4>1 DEF Ciphered
    <3>2. decoder'.register = Secret /\ ~ Waiting'
      BY <1>1, <2>0, <2>1 DEF Waiting
    <3>3. stream = <<>>
      <4>1. left \o plain = <<>>
        BY <1>3, <1>4, <3>1 DEF Pending, Tails
      <4>2. plain = <<>>
        BY <1>4, <1>5, <4>1, ConcatEqualIffEmpty
      <4>3. Len(stream) = 0
        BY <1>5, <4>2, DecipheredIs, EmptySeq DEF plain
      <4> QED
        BY <1>5, <4>3, EmptySeq
    <3>4. encoder'.register = After(stream', decoder'.register)
      BY <1>1, <2>0, <3>1, <3>2, <3>3 DEF After
    <3>5. \A n \in 1 .. N : ~ n > Len(delivered')
      BY <1>5, <1>6, <3>1
    <3> QED
      BY <1>1, <1>2, <2>0, <3>2, <3>4, <3>5 DEF Ciphered
  <2>2. CASE body # EncryptionReply
    <3>1. decoder'.register = decoder.register /\ Waiting' = Waiting
      BY <1>1, <2>2 DEF Waiting
    <3>2. Waiting => Len(delivered') < N
      <4> HAVE Waiting
      <4>1. sent[N] = EncryptionReply
        BY <1>2 DEF Ciphered
      <4>2. D + 1 # N
        BY <1>4, <2>2, <4>1
      <4> QED
        BY <1>5, <1>6, <4>2
    <3>3. \A n \in 1 .. N : n > Len(delivered') => n > D
      BY <1>5, <1>6
    <3> QED
      BY <1>1, <1>2, <2>0, <3>1, <3>2, <3>3 DEF Ciphered
  <2> QED
    BY <2>1, <2>2
<1>11. FaultsExplained'
  BY <1>1 DEF FaultsExplained
<1>12. (\E next : Pending(next))'
  <2>. DEFINE next == [n \in D + 1 .. N |-> rest[n]]
  <2>1. next \in [D + 1 .. N -> Seq(Byte)]
    BY <1>3, <1>5 DEF Pending
  <2>2. D + 1 \in D + 1 .. N /\ N \in D + 1 .. N
    BY <1>5
  <2>3. next[N] \in Tails'
    <3>1. rest[N] \in Tails
      BY <1>3 DEF Pending
    <3>2. Tails' = Tails
      BY <1>1 DEF Tails
    <3> QED
      BY <2>2, <3>1, <3>2
  <2>4. next[D + 1] = buffer' \o Deciphered(stream', decoder'.register)
    <3>1. Deciphered(stream', decoder'.register) = plain
      <4>1. CASE body # EncryptionReply
        BY <1>1, <4>1 DEF plain
      <4>2. CASE body = EncryptionReply
        <5>1. D + 1 = N /\ Waiting
          <6>1. D + 1 > D
            BY <1>5
          <6> QED
            BY <1>2, <1>4, <4>2, <6>1 DEF Ciphered
        <5>2. done = "no" /\ decoder.register = Clear
          BY <1>2, <5>1 DEF Ciphered, Waiting
        <5>3. left \o plain = <<>>
          BY <1>3, <1>4, <5>1, <5>2 DEF Pending, Tails
        <5>4. plain = <<>>
          BY <1>4, <1>5, <5>3, ConcatEqualIffEmpty
        <5>5. stream = <<>>
          BY <5>2, <5>4 DEF plain, Deciphered
        <5>6. Deciphered(<<>>, decoder'.register) = <<>>
          <6>1. <<>> \in Seq(Byte) /\ decoder'.register \in Registers
            BY <1>7, EmptySeq, EndsAre DEF TypeOK
          <6>2. Deciphered(<<>>, decoder'.register) \in Seq(Byte)
                /\ Len(Deciphered(<<>>, decoder'.register)) = Len(<<>>)
            BY <6>1, DecipheredIs
          <6> QED
            BY <6>2, EmptySeq
        <5> QED
          BY <1>1, <5>4, <5>5, <5>6
      <4> QED
        BY <4>1, <4>2
    <3> QED
      BY <1>1, <1>4, <2>2, <3>1
  <2>5. ASSUME NEW n \in D + 2 .. N
        PROVE  next[n - 1] = FrameAt(sent[n], Mode(sent, n)) \o next[n]
    <3>1. n \in D + 1 .. N /\ n - 1 \in D + 1 .. N
      BY <1>5
    <3> QED
      BY <1>3, <3>1 DEF Pending
  <2>. HIDE DEF next
  <2>6. PICK after : after = next
    OBVIOUS
  <2>7. D + 1 + 1 = D + 2
    BY <1>5
  <2>8. Pending(after)'
    BY <1>1, <1>6, <2>1, <2>3, <2>4, <2>5, <2>6, <2>7 DEF Pending
  <2> QED
    BY <2>8
<1>13. Queue!Deliver
  <2>1. Len(delivered) < Len(sent) /\ delivered' = Append(delivered, sent[Len(delivered) + 1])
    BY <1>1, <1>4, <1>5
  <2> QED
    BY <1>1, <2>1 DEF Queue!Deliver
<1> QED
  BY <1>7, <1>8, <1>9, <1>10, <1>11, <1>12, <1>13 DEF CodecInv

LEMMA DecodeFailsInv ==
    ASSUME CodecInv, DecodeFails
    PROVE  CodecInv'
<1>1. /\ Answered.kind = "error" /\ fault' = TRUE
      /\ sent' = sent /\ delivered' = delivered /\ stream' = stream /\ buffer' = buffer
      /\ encoder' = encoder /\ decoder' = decoder /\ done' = done
  BY DEF DecodeFails
<1>2. TypeOK /\ Ordered /\ Switched /\ Ciphered /\ \E rest : Pending(rest)
  BY DEF CodecInv
<1>3. TypeOK' /\ Ordered' /\ Switched'
  BY <1>1, <1>2 DEF TypeOK, Ordered, Switched
<1>4. Ciphered'
  BY <1>1, <1>2 DEF Ciphered, Waiting
<1>5. (\E rest : Pending(rest))'
  BY <1>1, <1>2 DEF Pending, Tails
<1>6. FaultsExplained'
  <2>1. done = "malformed" \/ \E n \in 1 .. Len(sent) : Oversized(sent[n])
    <3>1. PICK rest : Pending(rest)
      BY <1>2
    <3>2. Answered # More /\ Answered.kind # "packet"
      BY <1>1 DEF More, Answer
    <3> QED
      BY <3>1, <3>2, Answers
  <2>2. DOMAIN sent = 1 .. Len(sent)
    BY <1>2, LenProperties DEF TypeOK
  <2> QED
    BY <1>1, <2>1, <2>2 DEF FaultsExplained, Oversized
<1> QED
  BY <1>3, <1>4, <1>5, <1>6 DEF CodecInv

LEMMA FeedInv ==
    ASSUME CodecInv, NEW n \in 1 .. Len(stream), Feed(n)
    PROVE  CodecInv'
<1>. DEFINE piece == SubSeq(stream, 1, n)
            back == SubSeq(stream, n + 1, Len(stream))
            register == After(piece, decoder.register)
            plain == Deciphered(stream, decoder.register)
<1>1. /\ buffer' = buffer \o Deciphered(piece, decoder.register)
      /\ decoder' = [decoder EXCEPT !.register = register]
      /\ stream' = back
      /\ sent' = sent /\ delivered' = delivered /\ encoder' = encoder
      /\ done' = done /\ fault' = fault
  BY DEF Feed
<1>2. TypeOK /\ Ordered /\ Switched /\ Ciphered /\ FaultsExplained /\ \E rest : Pending(rest)
  BY DEF CodecInv
<1>3. /\ stream \in Seq(Byte) /\ buffer \in Seq(Byte) /\ decoder.register \in Registers
      /\ decoder.compressing \in BOOLEAN
      /\ decoder = [compressing |-> decoder.compressing, register |-> decoder.register]
  BY <1>2, TypesAre
<1>4. piece \in Seq(Byte) /\ back \in Seq(Byte) /\ piece \o back = stream
  <2>1. n \in 0 .. Len(stream)
    OBVIOUS
  <2> QED
    BY <1>3, <2>1, Cut
<1>. HIDE DEF piece, back
<1>5. /\ register \in Registers /\ (register = Clear <=> decoder.register = Clear)
      /\ Deciphered(piece, decoder.register) \in Seq(Byte)
  BY <1>3, <1>4, DecipheredIs
<1>6. /\ Deciphered(piece \o back, decoder.register)
           = Deciphered(piece, decoder.register) \o Deciphered(back, register)
      /\ After(piece \o back, decoder.register) = After(back, register)
  BY <1>3, <1>4, InPieces
<1>. HIDE DEF register
<1>7. /\ decoder'.register = register /\ decoder'.compressing = decoder.compressing
      /\ decoder' \in Ends /\ Deciphered(back, register) \in Seq(Byte)
  BY <1>1, <1>3, <1>4, <1>5, EndsAre, DecipheredIs
<1>8. TypeOK'
  <2>1. buffer \o Deciphered(piece, decoder.register) \in Seq(Byte)
    BY <1>3, <1>5, ConcatProperties
  <2> QED
    BY <1>1, <1>2, <1>4, <1>7, <2>1 DEF TypeOK
<1>9. Ordered' /\ Switched' /\ FaultsExplained'
  BY <1>1, <1>2, <1>7 DEF Ordered, Switched, FaultsExplained
<1>10. Ciphered'
  <2>1. Waiting' = Waiting
    BY <1>1, <1>5, <1>7 DEF Waiting
  <2>2. After(stream', decoder'.register) = After(stream, decoder.register)
    BY <1>1, <1>4, <1>6, <1>7
  <2> QED
    BY <1>1, <1>2, <2>1, <2>2 DEF Ciphered
<1>11. (\E rest : Pending(rest))'
  <2>1. PICK rest : Pending(rest)
    BY <1>2
  <2>2. buffer' \o Deciphered(stream', decoder'.register) = buffer \o Deciphered(stream, decoder.register)
    <3>. DEFINE first == Deciphered(piece, decoder.register)
                second == Deciphered(back, register)
    <3>1. first \in Seq(Byte) /\ second \in Seq(Byte)
      BY <1>5, <1>7
    <3>2. buffer' = buffer \o first /\ Deciphered(stream', decoder'.register) = second
      BY <1>1, <1>7
    <3>3. Deciphered(stream, decoder.register) = first \o second
      BY <1>4, <1>6
    <3>. HIDE DEF first, second
    <3>4. (buffer \o first) \o second = buffer \o (first \o second)
      <4>1. buffer \in Seq(Byte)
        BY <1>3
      <4> QED
        BY <3>1, <4>1, BytesAssociate, Zenon
    <3> QED
      BY <3>2, <3>3, <3>4
  <2>3. Tails' = Tails
    BY <1>1 DEF Tails
  <2>4. Pending(rest)'
    BY <1>1, <2>1, <2>2, <2>3 DEF Pending
  <2> QED
    BY <2>4
<1> QED
  BY <1>8, <1>9, <1>10, <1>11 DEF CodecInv

LEMMA NextInv ==
    ASSUME CodecInv, [Next]_vars
    PROVE  CodecInv' /\ [Queue!Next]_<<sent, delivered>>
<1>1. CASE UNCHANGED vars
  <2>1. /\ sent' = sent /\ delivered' = delivered /\ stream' = stream /\ buffer' = buffer
        /\ encoder' = encoder /\ decoder' = decoder /\ done' = done /\ fault' = fault
    BY <1>1 DEF vars
  <2>2. TypeOK /\ Ordered /\ Switched /\ Ciphered /\ FaultsExplained /\ \E rest : Pending(rest)
    BY DEF CodecInv
  <2>3. TypeOK' /\ Ordered' /\ Switched' /\ FaultsExplained'
    BY <2>1, <2>2 DEF TypeOK, Ordered, Switched, FaultsExplained
  <2>4. Ciphered'
    BY <2>1, <2>2 DEF Ciphered, Waiting
  <2>5. (\E rest : Pending(rest))'
    BY <2>1, <2>2 DEF Pending, Tails
  <2> QED
    BY <2>1, <2>3, <2>4, <2>5 DEF CodecInv
<1>2. ASSUME NEW p \in Bodies, Encode(p)
      PROVE  CodecInv' /\ Queue!Next
  <2>1. sent' = Append(sent, p) /\ delivered' = delivered
    BY <1>2 DEF Encode
  <2> QED
    BY <1>2, <2>1, EncodeInv DEF Queue!Next, Queue!Send
<1>3. ASSUME NEW p \in Bodies, EncodeFails(p)
      PROVE  CodecInv' /\ UNCHANGED <<sent, delivered>>
  BY <1>3, EncodeFailsInv DEF EncodeFails
<1>4. ASSUME NEW bytes \in IF encoder.compressing THEN MalformedZip ELSE Malformed,
             EncodeMalformed(bytes)
      PROVE  CodecInv' /\ UNCHANGED <<sent, delivered>>
  BY <1>4, EncodeMalformedInv DEF EncodeMalformed
<1>5. ASSUME Decode
      PROVE  CodecInv' /\ Queue!Next
  BY <1>5, DecodeInv DEF Queue!Next
<1>6. ASSUME DecodeFails
      PROVE  CodecInv' /\ UNCHANGED <<sent, delivered>>
  BY <1>6, DecodeFailsInv DEF DecodeFails
<1>7. ASSUME NEW n \in 1 .. Len(stream), Feed(n)
      PROVE  CodecInv' /\ UNCHANGED <<sent, delivered>>
  BY <1>7, FeedInv DEF Feed
<1> QED
  BY <1>1, <1>2, <1>3, <1>4, <1>5, <1>6, <1>7 DEF Next, Sender, Receiver

-----------------------------------------------------------------------------
(* The results.                                                            *)

LEMMA CodecInvariant == Spec => []CodecInv
<1>1. CodecInv /\ [Next]_vars => CodecInv'
  BY NextInv
<1> QED
  BY InitInv, <1>1, PTL DEF Spec

\* Both ends stay well-formed: what is delivered are bodies, and every byte on the
\* stream and in the buffer is a byte, through both switches.
THEOREM CodecTypes == Spec => []TypeOK
<1>1. CodecInv => TypeOK
  BY DEF CodecInv
<1> QED
  BY CodecInvariant, <1>1, PTL

\* varint.rs: write_varint writes as many bytes as varint_len says, never more than
\* read_varint accepts, and read_varint gives the same integer back whatever
\* follows it, and takes no part of it for an integer: for every integer of the
\* width, and every number of bits to a group.
THEOREM VarintsAreExact == Spec => []VarintExact
<1>1. CodecInv => VarintExact
  <2> SUFFICES ASSUME CodecInv PROVE VarintExact
    OBVIOUS
  <2>1. buffer \in Seq(Byte)
    BY DEF CodecInv, TypeOK
  <2>2. ASSUME NEW v \in Unsigned
        PROVE  LET bytes == WriteVarint(v)
               IN  /\ Len(bytes) = VarintLen(v) /\ Len(bytes) <= MaxVarintBytes
                   /\ ReadVarint(bytes \o buffer)
                        = [kind |-> "ok", value |-> Signed(v), used |-> Len(bytes)]
                   /\ \A n \in 0 .. Len(bytes) - 1 : ReadVarint(SubSeq(bytes, 1, n)) = Incomplete
    <3>. DEFINE bytes == WriteVarint(v)
    <3>1. /\ Len(bytes) = VarintLen(v) /\ Len(bytes) \in 1 .. MaxVarintBytes
          /\ ReadVarint(bytes \o buffer) = [kind |-> "ok", value |-> Signed(v), used |-> Len(bytes)]
          /\ \A n \in 0 .. Len(bytes) - 1 : ReadVarint(SubSeq(bytes, 1, n)) = Incomplete
      BY <2>1, VarintsOf
    <3>2. Len(bytes) <= MaxVarintBytes
      BY <3>1, VarintAssumption
    <3> QED
      BY <3>1, <3>2
  <2> QED
    BY <2>2 DEF VarintExact
<1> QED
  BY CodecInvariant, <1>1, PTL

\* Decoder::decode asks for more only when it holds less than a varint and a frame
\* of the largest size, whatever a peer sends.
THEOREM BufferIsBounded == Spec => []BufferBounded
<1>1. CodecInv => BufferBounded
  <2> SUFFICES ASSUME CodecInv, Answered.kind = "more"
               PROVE  Len(buffer) < MaxVarintBytes + MaxFrame
    BY DEF BufferBounded
  <2>1. buffer \in Seq(Byte) /\ decoder.compressing \in BOOLEAN
    BY TypesAre DEF CodecInv
  <2> QED
    BY <2>1, BoundOf DEF Answered
<1> QED
  BY CodecInvariant, <1>1, PTL

\* Decoder::decode returns an error only after bytes that break the protocol or a
\* packet beyond the limit that Encoder::encode does not refuse.
THEOREM FaultsHaveCause == Spec => []FaultsExplained
<1>1. CodecInv => FaultsExplained
  BY DEF CodecInv
<1> QED
  BY CodecInvariant, <1>1, PTL

\* However Decoder::feed is given the stream, and across the switches to
\* compression and encryption, decode gives out the packets encode took, whole,
\* once and in order: framing implements a queue of packets.
THEOREM PacketsArrive == Spec => Fifo
<1>1. Init => Queue!Init
  BY DEF Init, Queue!Init
<1>2. CodecInv /\ [Next]_vars => [Queue!Next]_<<sent, delivered>>
  BY NextInv
<1> QED
  BY CodecInvariant, <1>1, <1>2, PTL DEF Spec, Fifo, Queue!Spec
=============================================================================
