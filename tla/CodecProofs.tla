---------------------------- MODULE CodecProofs ----------------------------
(***************************************************************************)
(* Theorems about Codec for parts and texts of every length: the buffers   *)
(* decode allocates suffice, and a round trip gives back what was packed.  *)
(***************************************************************************)
EXTENDS Codec, SequenceTheorems, WellFoundedInduction, TLAPS

Byte == 0..255

-----------------------------------------------------------------------------
(***************************************************************************)
(* Counting digits and bytes.                                              *)
(***************************************************************************)

\* n bytes are DigitCount(n) digits, which are n bytes, and as many bits are
\* left over as the padding says.
LEMMA Counts ==
  ASSUME NEW n \in Nat
  PROVE  /\ DigitCount(n) \in Nat
         /\ ByteCount(DigitCount(n)) = n
         /\ n % 3 = 0 => DigitCount(n) = 4 * (n \div 3) /\ (6 * DigitCount(n)) % 8 = 0
         /\ n % 3 = 1 => DigitCount(n) = 4 * (n \div 3) + 2 /\ (6 * DigitCount(n)) % 8 = 4
         /\ n % 3 = 2 => DigitCount(n) = 4 * (n \div 3) + 3 /\ (6 * DigitCount(n)) % 8 = 2
         /\ n % 3 = 0 <=> DigitCount(n) % 4 = 0
         /\ n % 3 = 1 <=> DigitCount(n) % 4 = 2
         /\ n % 3 = 2 <=> DigitCount(n) % 4 = 3
BY DEF DigitCount, ByteCount

\* No text decodes to more bytes than its buffer holds (base64.hpp:132).
LEMMA RoomSuffices == \A n \in Nat : \A k \in 0..n : ByteCount(k) <= Room(n)
BY DEF ByteCount, Room

\* Past the end of the data the digits are computed from zeros.
LEMMA AtRange ==
  ASSUME NEW data \in Seq(Byte), NEW i \in Nat \ {0}
  PROVE  At(data, i) \in 0..255
<1>1. CASE i <= Len(data)
  <2>1. i \in 1..Len(data)
    BY <1>1
  <2>2. data[i] \in Byte
    BY <2>1
  <2> QED BY <1>1, <2>2 DEF At, Byte
<1>2. CASE ~(i <= Len(data))
  BY <1>2 DEF At
<1> QED BY <1>1, <1>2

\* Every digit has six bits.
LEMMA DigitRange ==
  ASSUME NEW data \in Seq(Byte), NEW k \in Nat \ {0}
  PROVE  Digit(data, k) \in 0..63
<1> DEFINE g == 3 * ((k - 1) \div 4)
           a == At(data, g + 1)
           b == At(data, g + 2)
           c == At(data, g + 3)
<1>1. g \in Nat
  OBVIOUS
<1>2. a \in 0..255 /\ b \in 0..255 /\ c \in 0..255
  <2> HIDE DEF g
  <2> QED BY <1>1, AtRange
<1>3. k % 4 \in {0, 1, 2, 3}
  OBVIOUS
<1>4. Digit(data, k) = CASE k % 4 = 1 -> a \div 4
                         [] k % 4 = 2 -> 16 * (a % 4) + b \div 16
                         [] k % 4 = 3 -> 4 * (b % 16) + c \div 64
                         [] k % 4 = 0 -> c % 64
  BY DEF Digit
<1> HIDE DEF a, b, c, g
<1>5. CASE k % 4 = 1
  <2>1. Digit(data, k) = a \div 4
    BY <1>4, <1>5
  <2> QED BY <1>2, <2>1
<1>6. CASE k % 4 = 2
  <2>1. Digit(data, k) = 16 * (a % 4) + b \div 16
    BY <1>4, <1>6
  <2> QED BY <1>2, <2>1
<1>7. CASE k % 4 = 3
  <2>1. Digit(data, k) = 4 * (b % 16) + c \div 64
    BY <1>4, <1>7
  <2> QED BY <1>2, <2>1
<1>8. CASE k % 4 = 0
  <2>1. Digit(data, k) = c % 64
    BY <1>4, <1>8
  <2> QED BY <1>2, <2>1
<1> QED BY <1>3, <1>5, <1>6, <1>7, <1>8

-----------------------------------------------------------------------------
(***************************************************************************)
(* The digits of some bytes give back the bytes.                           *)
(***************************************************************************)
\* The first byte of a group, out of the first two digits.
LEMMA FirstByte ==
  ASSUME NEW a \in 0..255, NEW b \in 0..255
  PROVE  4 * (a \div 4) + (16 * (a % 4) + b \div 16) \div 16 = a
<1>1. b \div 16 \in 0..15 /\ a % 4 \in 0..3
  OBVIOUS
<1>2. (16 * (a % 4) + b \div 16) \div 16 = a % 4
  BY <1>1
<1> QED BY <1>2

\* The second byte of a group, out of the second and the third digit.
LEMMA SecondByte ==
  ASSUME NEW a \in 0..255, NEW b \in 0..255, NEW c \in 0..255
  PROVE  16 * ((16 * (a % 4) + b \div 16) % 16) + (4 * (b % 16) + c \div 64) \div 4 = b
<1>1. b \div 16 \in 0..15 /\ a % 4 \in 0..3 /\ c \div 64 \in 0..3 /\ b % 16 \in 0..15
  OBVIOUS
<1>2. (16 * (a % 4) + b \div 16) % 16 = b \div 16
  BY <1>1
<1>3. (4 * (b % 16) + c \div 64) \div 4 = b % 16
  BY <1>1
<1> QED BY <1>2, <1>3

\* The third byte of a group, out of the third and the fourth digit.
LEMMA ThirdByte ==
  ASSUME NEW b \in 0..255, NEW c \in 0..255
  PROVE  64 * ((4 * (b % 16) + c \div 64) % 4) + (c % 64) = c
<1>1. c \div 64 \in 0..3 /\ b % 16 \in 0..15
  OBVIOUS
<1>2. (4 * (b % 16) + c \div 64) % 4 = c \div 64
  BY <1>1
<1>3. 64 * (c \div 64) + (c % 64) = c
  OBVIOUS
<1> QED BY <1>2, <1>3

\* The bytes of the digits of data are the data.
LEMMA BytesOfDigits ==
  ASSUME NEW data \in Seq(Byte), NEW digits \in Seq(0..63),
         Len(digits) = DigitCount(Len(data)),
         \A i \in 1..Len(digits) : digits[i] = Digit(data, i),
         NEW k \in 1..Len(data)
  PROVE  ByteOf(digits, k) = data[k]
<1> DEFINE q == (k - 1) \div 3
           n == Len(data)
           d(j) == At(digits, 4 * q + j)
           b(j) == At(data, 3 * q + j)
<1>1. n \in Nat /\ k \in 1..n
  OBVIOUS
<1>2. q \in Nat /\ k \in {3 * q + 1, 3 * q + 2, 3 * q + 3}
  BY <1>1
<1>3. \A j \in {1, 2, 3} : b(j) \in 0..255
  <2> HIDE DEF q
  <2> TAKE j \in {1, 2, 3}
  <2>1. 3 * q + j \in Nat \ {0}
    BY <1>2
  <2> QED BY <2>1, AtRange
<1>4. \A j \in 1..4 : 4 * q + j <= DigitCount(n) => d(j) = Digit(data, 4 * q + j)
  <2> HIDE DEF q
  <2> QED BY <1>2 DEF At
<1> HIDE DEF q
<1>5. ByteOf(digits, k) = CASE k % 3 = 1 -> 4 * d(1) + d(2) \div 16
                            [] k % 3 = 2 -> 16 * (d(2) % 16) + d(3) \div 4
                            [] k % 3 = 0 -> 64 * (d(3) % 4) + d(4)
  BY DEF ByteOf, q
<1>6. /\ Digit(data, 4 * q + 1) = b(1) \div 4
      /\ Digit(data, 4 * q + 2) = 16 * (b(1) % 4) + b(2) \div 16
      /\ Digit(data, 4 * q + 3) = 4 * (b(2) % 16) + b(3) \div 64
      /\ Digit(data, 4 * q + 4) = b(3) % 64
  <2>1. /\ ((4 * q + 1) - 1) \div 4 = q /\ ((4 * q + 2) - 1) \div 4 = q
        /\ ((4 * q + 3) - 1) \div 4 = q /\ ((4 * q + 4) - 1) \div 4 = q
    BY <1>2
  <2>2. /\ (4 * q + 1) % 4 = 1 /\ (4 * q + 2) % 4 = 2
        /\ (4 * q + 3) % 4 = 3 /\ (4 * q + 4) % 4 = 0
    BY <1>2
  <2>3. Digit(data, 4 * q + 1) = b(1) \div 4
    BY <2>1, <2>2 DEF Digit
  <2>4. Digit(data, 4 * q + 2) = 16 * (b(1) % 4) + b(2) \div 16
    BY <2>1, <2>2 DEF Digit
  <2>5. Digit(data, 4 * q + 3) = 4 * (b(2) % 16) + b(3) \div 64
    BY <2>1, <2>2 DEF Digit
  <2>6. Digit(data, 4 * q + 4) = b(3) % 64
    BY <2>1, <2>2 DEF Digit
  <2> QED BY <2>3, <2>4, <2>5, <2>6
<1>7. At(data, k) = data[k]
  BY DEF At
<1> HIDE DEF n, d, b
<1>8. CASE k = 3 * q + 1
  <2>1. k % 3 = 1 /\ 4 * q + 1 <= DigitCount(n) /\ 4 * q + 2 <= DigitCount(n)
    BY <1>1, <1>2, <1>8 DEF DigitCount
  <2>2. ByteOf(digits, k) = 4 * d(1) + d(2) \div 16
    BY <1>5, <2>1
  <2>3. ByteOf(digits, k) = 4 * (b(1) \div 4) + (16 * (b(1) % 4) + b(2) \div 16) \div 16
    BY <1>4, <1>6, <2>1, <2>2
  <2>4. b(1) \in 0..255 /\ b(2) \in 0..255
    BY <1>3
  <2>5. ByteOf(digits, k) = b(1)
    BY <2>3, <2>4, FirstByte, Zenon
  <2> QED BY <1>7, <1>8, <2>5 DEF b
<1>9. CASE k = 3 * q + 2
  <2>1. k % 3 = 2 /\ 4 * q + 2 <= DigitCount(n) /\ 4 * q + 3 <= DigitCount(n)
    BY <1>1, <1>2, <1>9 DEF DigitCount
  <2>2. ByteOf(digits, k) = 16 * (d(2) % 16) + d(3) \div 4
    BY <1>5, <2>1
  <2>3. ByteOf(digits, k) = 16 * ((16 * (b(1) % 4) + b(2) \div 16) % 16)
                                + (4 * (b(2) % 16) + b(3) \div 64) \div 4
    BY <1>4, <1>6, <2>1, <2>2
  <2>4. b(1) \in 0..255 /\ b(2) \in 0..255 /\ b(3) \in 0..255
    BY <1>3
  <2>5. ByteOf(digits, k) = b(2)
    <3>1. 16 * ((16 * (b(1) % 4) + b(2) \div 16) % 16)
              + (4 * (b(2) % 16) + b(3) \div 64) \div 4 = b(2)
      BY <2>4, SecondByte, ZenonT(60)
    <3> QED BY <2>3, <3>1, Zenon
  <2> QED BY <1>7, <1>9, <2>5 DEF b
<1>10. CASE k = 3 * q + 3
  <2>1. k % 3 = 0 /\ 4 * q + 3 <= DigitCount(n) /\ 4 * q + 4 <= DigitCount(n)
    BY <1>1, <1>2, <1>10 DEF DigitCount
  <2>2. ByteOf(digits, k) = 64 * (d(3) % 4) + d(4)
    BY <1>5, <2>1
  <2> HIDE DEF d, b
  <2>3. ByteOf(digits, k) = 64 * ((4 * (b(2) % 16) + b(3) \div 64) % 4) + (b(3) % 64)
    <3>1. d(3) = 4 * (b(2) % 16) + b(3) \div 64 /\ d(4) = b(3) % 64
      BY <1>4, <1>6, <2>1
    <3> QED BY <2>2, <3>1
  <2>4. b(2) \in 0..255 /\ b(3) \in 0..255
    BY <1>3
  <2>5. ByteOf(digits, k) = b(3)
    BY <2>3, <2>4, ThirdByte, Zenon
  <2> QED BY <1>7, <1>10, <2>5 DEF b
<1> QED BY <1>2, <1>8, <1>9, <1>10

-----------------------------------------------------------------------------
(***************************************************************************)
(* Decoding what was encoded.                                              *)
(***************************************************************************)
LEMMA LeadingIs ==
  ASSUME NEW t, NEW alphabet, Len(t) \in Nat, NEW k \in 0..Len(t),
         \A i \in 1..k : t[i] \in alphabet,
         k < Len(t) => t[k + 1] \notin alphabet
  PROVE  Leading(t, alphabet) = k
<1> DEFINE P(j) == /\ \A i \in 1..j : t[i] \in alphabet
                   /\ j < Len(t) => t[j + 1] \notin alphabet
<1>1. P(k)
  OBVIOUS
<1>2. ASSUME NEW j \in 0..Len(t), P(j) PROVE j = k
  <2>1. CASE j < k
    <3>1. j + 1 \in 1..k /\ j < Len(t)
      BY <2>1
    <3> QED BY <1>2, <3>1
  <2>2. CASE k < j
    <3>1. k + 1 \in 1..j /\ k < Len(t)
      BY <2>2
    <3> QED BY <1>2, <3>1
  <2> QED BY <2>1, <2>2
<1>3. Leading(t, alphabet) = CHOOSE j \in 0..Len(t) : P(j)
  BY DEF Leading
<1> HIDE DEF P
<1> QED BY <1>1, <1>2, <1>3

\* Characters of a variant's alphabet name their digits; the padding is in no
\* alphabet.
LEMMA Characters ==
  ASSUME NEW v \in Variants
  PROVE  /\ \A d \in 0..63 : Char(v, d) \in Alphabet(v) /\ Value(v, Char(v, d)) = d
         /\ Equals \notin Alphabet(v)
         /\ \A d \in 0..63 : Char(v, d) \in Nat
BY DEF Char, Value, Alphabet, Equals

\* What encode writes: the digits, and the padding of the variant.
LEMMA Base64Text ==
  ASSUME NEW data \in Seq(Byte), NEW v \in Variants,
         NEW n, n = Len(data), NEW k, k = DigitCount(n),
         NEW pad, pad = IF Padded(v) THEN ((6 * k) % 8) \div 2 ELSE 0
  PROVE  /\ pad \in Nat
         /\ Len(EncodeBase64(data, v)) = k + pad
         /\ EncodeBase64(data, v) = [i \in 1..(k + pad) |->
                 IF i <= k THEN Char(v, Digit(data, i)) ELSE Equals]
<1>1. n \in Nat /\ k \in Nat
  BY Counts
<1>2. n % 3 \in {0, 1, 2}
  BY <1>1
<1>3. pad \in Nat /\ EncodedLen(n, v) = k + pad + 1
  <2>0. /\ n % 3 = 0 => EncodedLen(n, v) = 4 * (n \div 3) + 0 + 1
        /\ n % 3 # 0 /\ Padded(v) => EncodedLen(n, v) = 4 * (n \div 3) + 4 + 1
        /\ n % 3 # 0 /\ ~Padded(v) => EncodedLen(n, v) = 4 * (n \div 3) + ((n % 3) + 1) + 1
    BY Zenon DEF EncodedLen
  <2>1. CASE n % 3 = 0
    <3>1. (6 * k) % 8 = 0 /\ k = 4 * (n \div 3)
      BY <1>1, <2>1, Counts
    <3>2. pad = IF Padded(v) THEN 0 ELSE 0
      BY <3>1
    <3>3. CASE Padded(v)
      BY <1>1, <2>1, <3>1, <3>2, <3>3, <2>0
    <3>4. CASE ~Padded(v)
      BY <1>1, <2>1, <3>1, <3>2, <3>4, <2>0
    <3> QED BY <3>3, <3>4
  <2>2. CASE n % 3 = 1
    <3>1. (6 * k) % 8 = 4 /\ k = 4 * (n \div 3) + 2
      BY <1>1, <2>2, Counts
    <3>2. pad = IF Padded(v) THEN 2 ELSE 0
      BY <3>1
    <3>3. CASE Padded(v)
      BY <1>1, <2>2, <3>1, <3>2, <3>3, <2>0
    <3>4. CASE ~Padded(v)
      BY <1>1, <2>2, <3>1, <3>2, <3>4, <2>0
    <3> QED BY <3>3, <3>4
  <2>3. CASE n % 3 = 2
    <3>1. (6 * k) % 8 = 2 /\ k = 4 * (n \div 3) + 3
      BY <1>1, <2>3, Counts
    <3>2. pad = IF Padded(v) THEN 1 ELSE 0
      BY <3>1
    <3>3. CASE Padded(v)
      BY <1>1, <2>3, <3>1, <3>2, <3>3, <2>0
    <3>4. CASE ~Padded(v)
      BY <1>1, <2>3, <3>1, <3>2, <3>4, <2>0
    <3> QED BY <3>3, <3>4
  <2> QED BY <1>2, <2>1, <2>2, <2>3
<1> DEFINE out == BinToBase64(data, v)
           f == [i \in 1..(k + pad) |-> IF i <= k THEN Char(v, Digit(data, i)) ELSE Equals]
<1>4. out = [i \in 1..(k + pad + 1) |->
                IF i <= k THEN Char(v, Digit(data, i))
                ELSE IF i < k + pad + 1 THEN Equals ELSE Nul]
  BY <1>3 DEF BinToBase64
<1>5. Len(out) = k + pad + 1
  BY <1>1, <1>3, <1>4
<1>6. SubSeq(out, 1, k + pad) = [i \in 1..(k + pad) |-> out[i]]
  BY <1>1, <1>3, <1>4, <1>5
<1>7. \A i \in 1..(k + pad) : out[i] = f[i]
  BY <1>1, <1>3, <1>4
<1>8. EncodeBase64(data, v) = f
  <2>1. EncodeBase64(data, v) = SubSeq(out, 1, k + pad)
    BY <1>1, <1>3, <1>5 DEF EncodeBase64
  <2> HIDE DEF out
  <2> QED BY <1>6, <1>7, <2>1
<1>9. Len(f) = k + pad
  BY <1>1, <1>3
<1> QED BY <1>3, <1>8, <1>9

\* The bits of the last digit that belong to no byte are those of the zero bytes
\* past the end.
LEMMA LastDigit ==
  ASSUME NEW data \in Seq(Byte), NEW k, k = DigitCount(Len(data))
  PROVE  /\ k % 4 = 2 => Digit(data, k) % 16 = 0
         /\ k % 4 = 3 => Digit(data, k) % 4 = 0
<1> DEFINE n == Len(data)
           g == 3 * ((k - 1) \div 4)
           a == At(data, g + 1)
           b == At(data, g + 2)
           c == At(data, g + 3)
<1>1. n \in Nat /\ k \in Nat
  BY Counts
<1>2. n % 3 \in {0, 1, 2}
  BY <1>1
<1>3. ASSUME k % 4 = 2 PROVE Digit(data, k) % 16 = 0
  <2>1. n % 3 = 1 /\ k = 4 * (n \div 3) + 2
    BY <1>1, <1>2, <1>3, Counts
  <2>2. g \in Nat /\ g + 1 = n
    BY <1>1, <2>1
  <2>3. b = 0
    BY <1>1, <2>2 DEF At
  <2>4. a \in 0..255
    <3> HIDE DEF g
    <3>1. g + 1 \in Nat \ {0}
      BY <2>2
    <3> QED BY <3>1, AtRange
  <2>5. Digit(data, k) = 16 * (a % 4) + b \div 16
    BY <1>3 DEF Digit
  <2> HIDE DEF a, b
  <2> QED BY <2>3, <2>4, <2>5
<1>4. ASSUME k % 4 = 3 PROVE Digit(data, k) % 4 = 0
  <2>1. n % 3 = 2 /\ k = 4 * (n \div 3) + 3
    BY <1>1, <1>2, <1>4, Counts
  <2>2. g \in Nat /\ g + 2 = n
    BY <1>1, <2>1
  <2>3. c = 0
    BY <1>1, <2>2 DEF At
  <2>4. b \in 0..255
    <3> HIDE DEF g
    <3>1. g + 2 \in Nat \ {0}
      BY <2>2
    <3> QED BY <3>1, AtRange
  <2>5. Digit(data, k) = 4 * (b % 16) + c \div 64
    BY <1>4 DEF Digit
  <2> HIDE DEF b, c
  <2> QED BY <2>3, <2>4, <2>5
<1> QED BY <1>3, <1>4

\* Base64::decode gives back what Base64::encode was given, in every variant.
LEMMA Base64RoundTrip ==
  ASSUME NEW data \in Seq(Byte), NEW v \in Variants
  PROVE  DecodeBase64(EncodeBase64(data, v), v) = Got(data)
<1> DEFINE n == Len(data)
           k == DigitCount(n)
           pad == IF Padded(v) THEN ((6 * k) % 8) \div 2 ELSE 0
           t == EncodeBase64(data, v)
           digits == [i \in 1..k |-> Digit(data, i)]
<1>1. n \in Nat /\ k \in Nat
  <2>1. n \in Nat
    OBVIOUS
  <2> QED BY <2>1, Counts, Zenon
<1>2. /\ pad \in Nat
      /\ Len(t) = k + pad
      /\ t = [i \in 1..(k + pad) |-> IF i <= k THEN Char(v, Digit(data, i)) ELSE Equals]
  <2> HIDE DEF n, k
  <2> QED BY Base64Text DEF n, k
<1>3. \A i \in 1..k : Digit(data, i) \in 0..63
  <2> HIDE DEF k
  <2> TAKE i \in 1..k
  <2>1. i \in Nat \ {0}
    BY <1>1
  <2> QED BY <2>1, DigitRange
<1> HIDE DEF n, k, pad, t
<1>4. /\ \A i \in 1..k : t[i] = Char(v, Digit(data, i))
      /\ k < Len(t) => t[k + 1] = Equals
      /\ SubSeq(t, k + 1, Len(t)) = [i \in 1..pad |-> Equals]
  <2>1. \A i \in 1..k : t[i] = Char(v, Digit(data, i))
    BY <1>1, <1>2
  <2>2. \A i \in (k + 1)..(k + pad) : t[i] = Equals
    BY <1>1, <1>2
  <2>3. SubSeq(t, k + 1, k + pad) = [i \in 1..pad |-> t[k + i]]
    BY <1>1, <1>2
  <2>4. \A i \in 1..pad : t[k + i] = Equals
    BY <1>1, <1>2, <2>2
  <2> QED BY <1>1, <1>2, <2>1, <2>2, <2>3, <2>4
<1>5. Leading(t, Alphabet(v)) = k
  <2>1. k \in 0..Len(t) /\ Len(t) \in Nat
    BY <1>1, <1>2
  <2>2. \A i \in 1..k : t[i] \in Alphabet(v)
    BY <1>3, <1>4, Characters
  <2>3. k < Len(t) => t[k + 1] \notin Alphabet(v)
    BY <1>4, Characters
  <2> QED BY <2>1, <2>2, <2>3, LeadingIs
<1>6. [i \in 1..k |-> Value(v, t[i])] = digits
  <2>1. \A i \in 1..k : Value(v, t[i]) = Digit(data, i)
    BY <1>3, <1>4, Characters
  <2> QED BY <2>1
<1>7. digits \in Seq(0..63) /\ Len(digits) = k
  BY <1>1, <1>3
<1>8. ByteCount(k) = n /\ ByteCount(k) <= Room(Len(t))
  <2>1. ByteCount(k) = n
    BY <1>1, Counts DEF k
  <2>2. k \in 0..Len(t) /\ Len(t) \in Nat
    BY <1>1, <1>2
  <2> QED BY <2>1, <2>2, RoomSuffices
<1>9. (6 * k) % 8 <= 4 /\ CleanEnd(digits)
  <2>1. (6 * k) % 8 \in {0, 2, 4}
    <3>1. n % 3 \in {0, 1, 2}
      BY <1>1
    <3> QED BY <1>1, <3>1, Counts DEF k
  <2>2. k % 4 = 2 => digits[k] % 16 = 0
    BY <1>1, LastDigit DEF n, k, digits
  <2>3. k % 4 = 3 => digits[k] % 4 = 0
    BY <1>1, LastDigit DEF n, k, digits
  <2>4. CleanEnd(digits)
    <3> HIDE DEF digits
    <3> QED BY <1>7, <2>2, <2>3 DEF CleanEnd
  <2> QED BY <2>1, <2>4
<1>10. [i \in 1..n |-> ByteOf(digits, i)] = data
  <2>1. \A i \in 1..n : ByteOf(digits, i) = data[i]
    <3>1. \A i \in 1..Len(digits) : digits[i] = Digit(data, i)
      BY <1>7
    <3> HIDE DEF digits
    <3> QED BY <1>7, <3>1, BytesOfDigits DEF n, k
  <2> HIDE DEF digits
  <2> QED BY <2>1 DEF n
<1>11. pad = IF Padded(v) THEN ((6 * k) % 8) \div 2 ELSE 0
  BY DEF pad
<1> HIDE DEF digits
<1> QED
  <2>1. DecodeBase64(t, v) = Got([i \in 1..ByteCount(k) |-> ByteOf(digits, i)])
    <3>1. ~(ByteCount(k) > Room(Len(t))) /\ ~((6 * k) % 8 > 4)
      <4>1. Len(t) \in Nat
        BY <1>1, <1>2
      <4> QED BY <1>1, <1>8, <1>9, <4>1 DEF ByteCount, Room
    <3> QED BY <1>4, <1>5, <1>6, <1>9, <1>11, <3>1, Zenon DEF DecodeBase64
  <2> QED BY <1>8, <1>10, <2>1 DEF t

\* A byte is its two hex digits.
LEMMA Nibbles ==
  ASSUME NEW a \in 0..255
  PROVE  /\ a \div 16 \in 0..15 /\ a % 16 \in 0..15
         /\ HexValue(a \div 16) = a \div 16 /\ HexValue(a % 16) = a % 16
         /\ 16 * (a \div 16) + (a % 16) = a
<1>1. a \div 16 \in 0..15 /\ a % 16 \in 0..15
  OBVIOUS
<1>2. HexValue(a \div 16) = a \div 16 /\ HexValue(a % 16) = a % 16
  BY <1>1 DEF HexValue, UpperA
<1> QED BY <1>1, <1>2

\* Hex::decode gives back what Hex::encode was given.
LEMMA HexRoundTrip ==
  ASSUME NEW data \in Seq(Byte)
  PROVE  DecodeHex(EncodeHex(data)) = Got(data)
<1> DEFINE n == Len(data)
           t == EncodeHex(data)
<1>1. n \in Nat /\ data \in [1..n -> 0..255]
  <2>1. n \in Nat /\ data \in [1..n -> Byte]
    OBVIOUS
  <2> QED BY <2>1 DEF Byte
<1>2. Len(t) = 2 * n
  BY <1>1 DEF EncodeHex
<1>3. \A i \in 1..n : t[2 * i - 1] = data[i] \div 16 /\ t[2 * i] = data[i] % 16
  <2> TAKE i \in 1..n
  <2>1. /\ 2 * i - 1 \in 1..(2 * n) /\ 2 * i \in 1..(2 * n)
        /\ (2 * i - 1) % 2 = 1 /\ (2 * i) % 2 = 0
        /\ ((2 * i - 1) + 1) \div 2 = i /\ (2 * i) \div 2 = i
    BY <1>1
  <2> QED BY <2>1 DEF EncodeHex
<1>4. \A j \in 1..(2 * n) : t[j] \in 0..15
  <2> TAKE j \in 1..(2 * n)
  <2>1. PICK i \in 1..n : j = 2 * i - 1 \/ j = 2 * i
    <3>1. (j + 1) \div 2 \in 1..n
      BY <1>1
    <3>2. j = 2 * ((j + 1) \div 2) - 1 \/ j = 2 * ((j + 1) \div 2)
      BY <1>1
    <3> QED BY <3>1, <3>2
  <2>2. data[i] \in 0..255
    BY <1>1
  <2>3. data[i] \div 16 \in 0..15 /\ data[i] % 16 \in 0..15
    BY <2>2, Nibbles
  <2> HIDE DEF t
  <2> QED BY <1>3, <2>1, <2>3
<1> HIDE DEF n, t
<1>5. Leading(t, HexDigits) = 2 * n
  <2>1. 2 * n \in 0..Len(t) /\ Len(t) \in Nat /\ ~(2 * n < Len(t))
    BY <1>1, <1>2
  <2>2. \A j \in 1..(2 * n) : t[j] \in HexDigits
    BY <1>4 DEF HexDigits
  <2> QED BY <2>1, <2>2, LeadingIs
<1>6. [i \in 1..n |-> 16 * HexValue(t[2 * i - 1]) + HexValue(t[2 * i])] = data
  <2>1. \A i \in 1..n : 16 * HexValue(t[2 * i - 1]) + HexValue(t[2 * i]) = data[i]
    <3> TAKE i \in 1..n
    <3>1. data[i] \in 0..255
      BY <1>1
    <3>2. /\ HexValue(data[i] \div 16) = data[i] \div 16
          /\ HexValue(data[i] % 16) = data[i] % 16
          /\ 16 * (data[i] \div 16) + (data[i] % 16) = data[i]
      BY <3>1, Nibbles
    <3> QED BY <1>3, <3>2
  <2> QED BY <2>1 DEF n
<1>7. /\ ~(2 * n < Len(t)) /\ (2 * n) % 2 # 1
      /\ (2 * n) \div 2 = n /\ ~((2 * n) \div 2 > HexRoom(Len(t)))
  BY <1>1, <1>2 DEF HexRoom
<1>8. DecodeHex(t) = Got([i \in 1..((2 * n) \div 2) |->
                             16 * HexValue(t[2 * i - 1]) + HexValue(t[2 * i])])
  BY <1>5, <1>7, Zenon DEF DecodeHex
<1> QED BY <1>6, <1>7, <1>8, Zenon DEF t

\* decode gives back what encode was given, in every variant and for every
\* sequence of bytes.
THEOREM DecodeInvertsEncode ==
  ASSUME NEW data \in Seq(Byte), NEW v \in Encodings
  PROVE  Decode(Encode(data, v), v) = Got(data)
<1>1. CASE v = "Hex"
  BY <1>1, HexRoundTrip DEF Encode, Decode
<1>2. CASE v \in Variants
  <2>1. v # "Hex"
    BY <1>2 DEF Variants
  <2> QED BY <1>2, <2>1, Base64RoundTrip DEF Encode, Decode
<1> QED BY <1>1, <1>2 DEF Encodings

-----------------------------------------------------------------------------
(***************************************************************************)
(* Packing, and the round trip as an invariant.                            *)
(***************************************************************************)

\* A part is a sequence of bytes of its length.
LEMMA PartIsBytes ==
  ASSUME NEW n \in Nat, NEW f \in [1..n -> Bytes]
  PROVE  f \in Seq(Byte) /\ Len(f) = n
<1>1. f \in [1..n -> Byte]
  BY ByteAssumption DEF Byte
<1> HIDE DEF Byte
<1> QED BY <1>1

\* What stands where in two sequences put together.
LEMMA Joined ==
  ASSUME NEW S, NEW s \in Seq(S), NEW t \in Seq(S)
  PROVE  /\ s \o t \in Seq(S)
         /\ Len(s \o t) = Len(s) + Len(t)
         /\ \A i \in 1..Len(s) : (s \o t)[i] = s[i]
         /\ \A i \in 1..Len(t) : (s \o t)[Len(s) + i] = t[i]
<1>1. s \o t \in Seq(S) /\ Len(s \o t) = Len(s) + Len(t)
  BY ConcatProperties
<1>2. \A i \in 1..Len(s) : (s \o t)[i] = s[i]
  OBVIOUS
<1>3. ASSUME NEW i \in 1..Len(t) PROVE (s \o t)[Len(s) + i] = t[i]
  <2>1. /\ Len(s) + i \in 1..(Len(s) + Len(t)) /\ ~(Len(s) + i <= Len(s))
        /\ Len(s) + i - Len(s) = i
    OBVIOUS
  <2> QED BY <2>1
<1> QED BY <1>1, <1>2, <1>3

\* The two halves of what was put together.
LEMMA Split ==
  ASSUME NEW S, NEW s \in Seq(S), NEW t \in Seq(S)
  PROVE  /\ SubSeq(s \o t, 1, Len(s)) = s
         /\ SubSeq(s \o t, Len(s) + 1, Len(s) + Len(t)) = t
<1> DEFINE u == s \o t
<1>1. /\ u \in Seq(S) /\ Len(u) = Len(s) + Len(t)
      /\ \A i \in 1..Len(s) : u[i] = s[i]
      /\ \A i \in 1..Len(t) : u[Len(s) + i] = t[i]
  BY Joined
<1> HIDE DEF u
<1>2. Len(s) \in Nat /\ Len(t) \in Nat
  OBVIOUS
<1>3. SubSeq(u, 1, Len(s)) = s
  <2>1. SubSeq(u, 1, Len(s)) = [i \in 1..Len(s) |-> u[i]]
    BY <1>1, <1>2
  <2>2. s = [i \in 1..Len(s) |-> s[i]]
    OBVIOUS
  <2> QED BY <1>1, <2>1, <2>2
<1>4. SubSeq(u, Len(s) + 1, Len(s) + Len(t)) = t
  <2>1. SubSeq(u, Len(s) + 1, Len(s) + Len(t)) = [i \in 1..Len(t) |-> u[Len(s) + i]]
    BY <1>1, <1>2
  <2>2. t = [i \in 1..Len(t) |-> t[i]]
    OBVIOUS
  <2> QED BY <1>1, <2>1, <2>2
<1> QED BY <1>3, <1>4 DEF u

\* What pack put together unpack takes apart at the same places.
THEOREM UnpackInvertsPack ==
  ASSUME NEW ps \in Parts
  PROVE  /\ Pack(ps) \in Seq(Byte)
         /\ UnpackDefined(Pack(ps))
         /\ Unpack(Pack(ps)) = ps
<1>1. PICK a \in [1..1 -> Bytes], b \in [1..2 -> Bytes],
           c \in UNION {[1..n -> Bytes] : n \in 0..MaxRest} : ps = <<a, b, c>>
  BY DEF Parts
<1>2. a \in Seq(Byte) /\ Len(a) = 1 /\ b \in Seq(Byte) /\ Len(b) = 2
  BY PartIsBytes
<1>3. c \in Seq(Byte) /\ Len(c) \in Nat
  <2>1. PICK n \in 0..MaxRest : c \in [1..n -> Bytes]
    OBVIOUS
  <2>2. n \in Nat
    BY BoundAssumption
  <2> QED BY <2>1, <2>2, PartIsBytes
<1> HIDE DEF Byte
<1> DEFINE ab == a \o b
           buffer == ab \o c
<1>4. Pack(ps) = buffer
  BY <1>1 DEF Pack
<1>5. ab \in Seq(Byte) /\ Len(ab) = 3
  BY <1>2, ConcatProperties
<1>6. SubSeq(ab, 1, 1) = a /\ SubSeq(ab, 2, 3) = b
  <2>1. SubSeq(ab, 1, Len(a)) = a /\ SubSeq(ab, Len(a) + 1, Len(a) + Len(b)) = b
    BY <1>2, Split
  <2> HIDE DEF ab
  <2> QED BY <1>2, <2>1
<1> HIDE DEF ab
<1>7. buffer \in Seq(Byte) /\ Len(buffer) = 3 + Len(c)
  <2>1. buffer \in Seq(Byte) /\ Len(buffer) = Len(ab) + Len(c)
    BY <1>3, <1>5, ConcatProperties
  <2> QED BY <1>5, <2>1
<1>8. SubSeq(buffer, 4, Len(buffer)) = c
  <2>1. SubSeq(buffer, Len(ab) + 1, Len(ab) + Len(c)) = c
    BY <1>3, <1>5, Split
  <2> HIDE DEF buffer
  <2> QED BY <1>5, <1>7, <2>1
<1>9. SubSeq(buffer, 1, 1) = SubSeq(ab, 1, 1) /\ SubSeq(buffer, 2, 3) = SubSeq(ab, 2, 3)
  <2>1. 1 \in 1..Len(ab) /\ 2 \in 1..Len(ab) /\ 3 \in 1..Len(ab)
    BY <1>5
  <2> QED BY <1>3, <1>5, <2>1, SubSeqOfConcat1
<1> HIDE DEF buffer
<1>10. Offset(1) = 0 /\ Offset(2) = 1 /\ Offset(3) = 3 /\ Sizes[1] = 1 /\ Sizes[2] = 2
  BY DEF Offset, Sizes
<1>11. UnpackDefined(buffer)
  BY <1>3, <1>7, <1>10 DEF UnpackDefined
<1>12. Unpack(buffer) = <<a, b, c>>
  <2> DEFINE upTo(i) == IF i = 3 THEN Len(buffer) ELSE Offset(i) + Sizes[i]
             part(i) == SubSeq(buffer, Offset(i) + 1, upTo(i))
  <2>1. Unpack(buffer) = [i \in 1..3 |-> part(i)]
    BY DEF Unpack
  <2>2. upTo(1) = 1 /\ upTo(2) = 3 /\ upTo(3) = Len(buffer)
    BY <1>10
  <2> HIDE DEF upTo
  <2>3. part(1) = SubSeq(buffer, 1, 1) /\ part(2) = SubSeq(buffer, 2, 3)
        /\ part(3) = SubSeq(buffer, 4, Len(buffer))
    <3>1. part(1) = SubSeq(buffer, 0 + 1, 1)
      BY <1>10, <2>2
    <3>2. part(2) = SubSeq(buffer, 1 + 1, 3)
      BY <1>10, <2>2
    <3>3. part(3) = SubSeq(buffer, 3 + 1, Len(buffer))
      BY <1>10, <2>2
    <3> HIDE DEF part
    <3>4. 0 + 1 = 1 /\ 1 + 1 = 2 /\ 3 + 1 = 4
      OBVIOUS
    <3> QED BY <3>1, <3>2, <3>3, <3>4
  <2>4. part(1) = a /\ part(2) = b /\ part(3) = c
    BY <1>6, <1>8, <1>9, <2>3
  <2> HIDE DEF part
  <2>5. [i \in 1..3 |-> part(i)] = <<part(1), part(2), part(3)>>
    OBVIOUS
  <2> QED BY <2>1, <2>4, <2>5
<1> QED BY <1>1, <1>4, <1>7, <1>11, <1>12

\* The inductive invariant: a text nobody altered is what was encoded, and what
\* was decoded is what decode makes of the text.
Unaltered ==
    /\ parts \in Parts
    /\ variant \in Encodings
    /\ edits \in Nat
    /\ phase # "packed" /\ edits = 0 => text = Encode(Pack(parts), variant)
    /\ phase = "decoded" => decoded = Decode(text, reader)

\* Nothing is on its way at first.
LEMMA UnalteredInit == Init => Unaltered
BY DEF Init, Unaltered

\* Only Alter changes a text, and it counts.
LEMMA UnalteredStep == Unaltered /\ [Next]_vars => Unaltered'
<1> SUFFICES ASSUME Unaltered, [Next]_vars PROVE Unaltered'
  OBVIOUS
<1> USE DEF Unaltered
<1>1. CASE Send
  BY <1>1 DEF Send
<1>2. ASSUME NEW i \in 1..Len(text), NEW c \in Chars, Alter(i, c) PROVE Unaltered'
  BY <1>2 DEF Alter
<1>3. ASSUME NEW v \in Encodings, Receive(v) PROVE Unaltered'
  BY <1>3 DEF Receive
<1>4. CASE UNCHANGED vars
  BY <1>4 DEF vars
<1> QED BY <1>1, <1>2, <1>3, <1>4 DEF Next

\* A text nobody altered, read as it was written, unpacks to what was packed,
\* for parts of every length and every byte in them.
THEOREM RoundTripHolds == Spec => []RoundTrip
<1>1. Unaltered => RoundTrip
  <2> SUFFICES ASSUME Unaltered, phase = "decoded", edits = 0, reader = variant
               PROVE  decoded.ok /\ UnpackDefined(decoded.data) /\ Unpack(decoded.data) = parts
    BY DEF RoundTrip
  <2>1. decoded = Got(Pack(parts))
    BY UnpackInvertsPack, DecodeInvertsEncode DEF Unaltered
  <2>2. decoded.ok /\ decoded.data = Pack(parts)
    BY <2>1 DEF Got
  <2> QED BY <2>2, UnpackInvertsPack DEF Unaltered
<1> QED BY <1>1, UnalteredInit, UnalteredStep, PTL DEF Spec

-----------------------------------------------------------------------------
(***************************************************************************)
(* Encoding what was decoded: one text for each value.                     *)
(***************************************************************************)

\* Of positions in a sequence there is a first one.
LEMMA FirstPosition ==
  ASSUME NEW n \in Nat, NEW S \in SUBSET (1..n), S # {}
  PROVE  \E i \in S : \A j \in S : i <= j
<1> DEFINE R == OpToRel(<, Nat)
<1>1. S \subseteq Nat
  OBVIOUS
<1>2. IsWellFoundedOn(R, Nat)
  BY NatLessThanWellFounded
<1>3. \A j, i \in Nat : j < i => <<j, i>> \in R
  BY DEF OpToRel
<1> HIDE DEF R
<1>4. PICK i \in S : \A j \in S : ~ (<<j, i>> \in R)
  BY <1>1, <1>2, WFMin
<1>5. \A j \in S : ~ (j < i)
  BY <1>1, <1>3, <1>4
<1> QED BY <1>1, <1>5

\* Every text has its leading characters.
LEMMA LeadingExists ==
  ASSUME NEW t, Len(t) \in Nat, NEW alphabet
  PROVE  /\ Leading(t, alphabet) \in 0..Len(t)
         /\ \A i \in 1..Leading(t, alphabet) : t[i] \in alphabet
<1> DEFINE S == {i \in 1..Len(t) : t[i] \notin alphabet}
           P(k) == /\ \A i \in 1..k : t[i] \in alphabet
                   /\ k < Len(t) => t[k + 1] \notin alphabet
<1>1. \E k \in 0..Len(t) : P(k)
  <2>1. CASE S = {}
    <3>1. Len(t) \in 0..Len(t) /\ \A i \in 1..Len(t) : t[i] \in alphabet
      BY <2>1
    <3> QED BY <3>1
  <2>2. CASE S # {}
    <3>1. PICK m \in S : \A j \in S : m <= j
      BY <2>2, FirstPosition
    <3>2. m \in 1..Len(t) /\ m - 1 \in 0..Len(t) /\ (m - 1) + 1 = m
      BY <3>1
    <3>3. \A i \in 1..(m - 1) : t[i] \in alphabet
      BY <3>1, <3>2
    <3>4. t[(m - 1) + 1] \notin alphabet
      BY <3>1, <3>2
    <3> QED BY <3>2, <3>3, <3>4
  <2> QED BY <2>1, <2>2
<1>2. Leading(t, alphabet) = CHOOSE k \in 0..Len(t) : P(k)
  BY DEF Leading
<1>3. Leading(t, alphabet) \in 0..Len(t) /\ P(Leading(t, alphabet))
  <2> HIDE DEF P
  <2> QED BY <1>1, <1>2
<1> QED BY <1>3

\* Digits name their characters.
LEMMA Names ==
  ASSUME NEW v \in Variants, NEW c \in Alphabet(v)
  PROVE  Value(v, c) \in 0..63 /\ Char(v, Value(v, c)) = c
BY DEF Alphabet, Char, Value

LEMMA InSequence == ASSUME NEW S, NEW s \in Seq(S) PROVE \A i \in 1..Len(s) : s[i] \in S
OBVIOUS

\* A digit past the end counts as zero.
LEMMA DigitAt ==
  ASSUME NEW digits \in Seq(0..63), NEW i \in Nat \ {0}
  PROVE  At(digits, i) \in 0..63
<1>1. CASE i <= Len(digits)
  <2>1. i \in 1..Len(digits)
    BY <1>1
  <2>2. digits[i] \in 0..63
    BY <2>1, InSequence
  <2> QED BY <1>1, <2>2 DEF At
<1>2. CASE ~(i <= Len(digits))
  BY <1>2 DEF At
<1> QED BY <1>1, <1>2

\* Four digits are three bytes.
LEMMA FirstDigit ==
  ASSUME NEW a \in 0..63, NEW b \in 0..63
  PROVE  (4 * a + b \div 16) \div 4 = a
<1>1. b \div 16 \in 0..3
  OBVIOUS
<1> QED BY <1>1

LEMMA SecondDigit ==
  ASSUME NEW a \in 0..63, NEW b \in 0..63, NEW c \in 0..63
  PROVE  16 * ((4 * a + b \div 16) % 4) + (16 * (b % 16) + c \div 4) \div 16 = b
<1>1. b \div 16 \in 0..3 /\ b % 16 \in 0..15 /\ c \div 4 \in 0..15
  OBVIOUS
<1>2. (4 * a + b \div 16) % 4 = b \div 16 /\ (16 * (b % 16) + c \div 4) \div 16 = b % 16
  BY <1>1
<1>3. 16 * (b \div 16) + (b % 16) = b
  OBVIOUS
<1> QED BY <1>2, <1>3

LEMMA ThirdDigit ==
  ASSUME NEW b \in 0..63, NEW c \in 0..63, NEW e \in 0..63
  PROVE  4 * ((16 * (b % 16) + c \div 4) % 16) + (64 * (c % 4) + e) \div 64 = c
<1>1. b % 16 \in 0..15 /\ c \div 4 \in 0..15 /\ c % 4 \in 0..3
  OBVIOUS
<1>2. (16 * (b % 16) + c \div 4) % 16 = c \div 4 /\ (64 * (c % 4) + e) \div 64 = c % 4
  BY <1>1
<1>3. 4 * (c \div 4) + (c % 4) = c
  OBVIOUS
<1> QED BY <1>2, <1>3

LEMMA FourthDigit ==
  ASSUME NEW c \in 0..63, NEW e \in 0..63
  PROVE  (64 * (c % 4) + e) % 64 = e
<1>1. c % 4 \in 0..3
  OBVIOUS
<1> QED BY <1>1

LEMMA ByteCases ==
  ASSUME NEW digits, NEW k, NEW q, (k - 1) \div 3 = q
  PROVE  /\ k % 3 = 1 => ByteOf(digits, k) = 4 * At(digits, 4 * q + 1) + At(digits, 4 * q + 2) \div 16
         /\ k % 3 = 2 => ByteOf(digits, k)
                           = 16 * (At(digits, 4 * q + 2) % 16) + At(digits, 4 * q + 3) \div 4
         /\ k % 3 = 0 => ByteOf(digits, k) = 64 * (At(digits, 4 * q + 3) % 4) + At(digits, 4 * q + 4)
<1>1. ByteOf(digits, k) = CASE k % 3 = 1 -> 4 * At(digits, 4 * q + 1) + At(digits, 4 * q + 2) \div 16
                            [] k % 3 = 2 -> 16 * (At(digits, 4 * q + 2) % 16) + At(digits, 4 * q + 3) \div 4
                            [] k % 3 = 0 -> 64 * (At(digits, 4 * q + 3) % 4) + At(digits, 4 * q + 4)
  BY DEF ByteOf
<1> QED BY <1>1

LEMMA DigitCases ==
  ASSUME NEW data, NEW k, NEW q, (k - 1) \div 4 = q
  PROVE  /\ k % 4 = 1 => Digit(data, k) = At(data, 3 * q + 1) \div 4
         /\ k % 4 = 2 => Digit(data, k) = 16 * (At(data, 3 * q + 1) % 4) + At(data, 3 * q + 2) \div 16
         /\ k % 4 = 3 => Digit(data, k) = 4 * (At(data, 3 * q + 2) % 16) + At(data, 3 * q + 3) \div 64
         /\ k % 4 = 0 => Digit(data, k) = At(data, 3 * q + 3) % 64
<1>1. Digit(data, k) = CASE k % 4 = 1 -> At(data, 3 * q + 1) \div 4
                         [] k % 4 = 2 -> 16 * (At(data, 3 * q + 1) % 4) + At(data, 3 * q + 2) \div 16
                         [] k % 4 = 3 -> 4 * (At(data, 3 * q + 2) % 16) + At(data, 3 * q + 3) \div 64
                         [] k % 4 = 0 -> At(data, 3 * q + 3) % 64
  BY DEF Digit
<1> QED BY <1>1

\* The bytes of a group, out of its digits.
LEMMA ByteOfGroup ==
  ASSUME NEW digits \in Seq(0..63), NEW q \in Nat
  PROVE  LET d(j) == At(digits, 4 * q + j)
         IN  /\ ByteOf(digits, 3 * q + 1) = 4 * d(1) + d(2) \div 16
             /\ ByteOf(digits, 3 * q + 2) = 16 * (d(2) % 16) + d(3) \div 4
             /\ ByteOf(digits, 3 * q + 3) = 64 * (d(3) % 4) + d(4)
<1>1. ByteOf(digits, 3 * q + 1) = 4 * At(digits, 4 * q + 1) + At(digits, 4 * q + 2) \div 16
  <2> DEFINE k == 3 * q + 1
  <2>1. (k - 1) \div 3 = q /\ k % 3 = 1
    OBVIOUS
  <2> HIDE DEF k
  <2>2. ByteOf(digits, k) = 4 * At(digits, 4 * q + 1) + At(digits, 4 * q + 2) \div 16
    BY <2>1, ByteCases
  <2> QED BY <2>2 DEF k
<1>2. ByteOf(digits, 3 * q + 2) = 16 * (At(digits, 4 * q + 2) % 16) + At(digits, 4 * q + 3) \div 4
  <2> DEFINE k == 3 * q + 2
  <2>1. (k - 1) \div 3 = q /\ k % 3 = 2
    OBVIOUS
  <2> HIDE DEF k
  <2>2. ByteOf(digits, k) = 16 * (At(digits, 4 * q + 2) % 16) + At(digits, 4 * q + 3) \div 4
    BY <2>1, ByteCases
  <2> QED BY <2>2 DEF k
<1>3. ByteOf(digits, 3 * q + 3) = 64 * (At(digits, 4 * q + 3) % 4) + At(digits, 4 * q + 4)
  <2> DEFINE k == 3 * q + 3
  <2>1. (k - 1) \div 3 = q /\ k % 3 = 0
    OBVIOUS
  <2> HIDE DEF k
  <2>2. ByteOf(digits, k) = 64 * (At(digits, 4 * q + 3) % 4) + At(digits, 4 * q + 4)
    BY <2>1, ByteCases
  <2> QED BY <2>2 DEF k
<1> QED BY <1>1, <1>2, <1>3, Zenon

\* And the digits of a group, out of its bytes.
LEMMA DigitOfGroup ==
  ASSUME NEW data \in Seq(Byte), NEW q \in Nat
  PROVE  LET b(j) == At(data, 3 * q + j)
         IN  /\ Digit(data, 4 * q + 1) = b(1) \div 4
             /\ Digit(data, 4 * q + 2) = 16 * (b(1) % 4) + b(2) \div 16
             /\ Digit(data, 4 * q + 3) = 4 * (b(2) % 16) + b(3) \div 64
             /\ Digit(data, 4 * q + 4) = b(3) % 64
<1>1. Digit(data, 4 * q + 1) = At(data, 3 * q + 1) \div 4
  <2> DEFINE k == 4 * q + 1
  <2>1. (k - 1) \div 4 = q /\ k % 4 = 1
    OBVIOUS
  <2> HIDE DEF k
  <2>2. Digit(data, k) = At(data, 3 * q + 1) \div 4
    BY <2>1, DigitCases
  <2> QED BY <2>2 DEF k
<1>2. Digit(data, 4 * q + 2) = 16 * (At(data, 3 * q + 1) % 4) + At(data, 3 * q + 2) \div 16
  <2> DEFINE k == 4 * q + 2
  <2>1. (k - 1) \div 4 = q /\ k % 4 = 2
    OBVIOUS
  <2> HIDE DEF k
  <2>2. Digit(data, k) = 16 * (At(data, 3 * q + 1) % 4) + At(data, 3 * q + 2) \div 16
    BY <2>1, DigitCases
  <2> QED BY <2>2 DEF k
<1>3. Digit(data, 4 * q + 3) = 4 * (At(data, 3 * q + 2) % 16) + At(data, 3 * q + 3) \div 64
  <2> DEFINE k == 4 * q + 3
  <2>1. (k - 1) \div 4 = q /\ k % 4 = 3
    OBVIOUS
  <2> HIDE DEF k
  <2>2. Digit(data, k) = 4 * (At(data, 3 * q + 2) % 16) + At(data, 3 * q + 3) \div 64
    BY <2>1, DigitCases
  <2> QED BY <2>2 DEF k
<1>4. Digit(data, 4 * q + 4) = At(data, 3 * q + 3) % 64
  <2> DEFINE k == 4 * q + 4
  <2>1. (k - 1) \div 4 = q /\ k % 4 = 0
    OBVIOUS
  <2> HIDE DEF k
  <2>2. Digit(data, k) = At(data, 3 * q + 3) % 64
    BY <2>1, DigitCases
  <2> QED BY <2>2 DEF k
<1> QED BY <1>1, <1>2, <1>3, <1>4, Zenon

\* Every byte has eight bits.
LEMMA ByteRange ==
  ASSUME NEW digits \in Seq(0..63), NEW k \in Nat \ {0}
  PROVE  ByteOf(digits, k) \in 0..255
<1>1. PICK q \in Nat : k \in {3 * q + 1, 3 * q + 2, 3 * q + 3}
  <2>1. (k - 1) \div 3 \in Nat
    OBVIOUS
  <2>2. k \in {3 * ((k - 1) \div 3) + 1, 3 * ((k - 1) \div 3) + 2, 3 * ((k - 1) \div 3) + 3}
    OBVIOUS
  <2> QED BY <2>1, <2>2
<1>2. \A j \in {1, 2, 3, 4} : At(digits, 4 * q + j) \in 0..63
  <2> TAKE j \in {1, 2, 3, 4}
  <2>1. 4 * q + j \in Nat \ {0}
    OBVIOUS
  <2> QED BY <2>1, DigitAt
<1>3. /\ ByteOf(digits, 3 * q + 1) \in 0..255
      /\ ByteOf(digits, 3 * q + 2) \in 0..255
      /\ ByteOf(digits, 3 * q + 3) \in 0..255
  <2>1. /\ At(digits, 4 * q + 1) \in 0..63 /\ At(digits, 4 * q + 2) \in 0..63
        /\ At(digits, 4 * q + 3) \in 0..63 /\ At(digits, 4 * q + 4) \in 0..63
    BY <1>2
  <2>2. /\ ByteOf(digits, 3 * q + 1) = 4 * At(digits, 4 * q + 1) + At(digits, 4 * q + 2) \div 16
        /\ ByteOf(digits, 3 * q + 2) = 16 * (At(digits, 4 * q + 2) % 16) + At(digits, 4 * q + 3) \div 4
        /\ ByteOf(digits, 3 * q + 3) = 64 * (At(digits, 4 * q + 3) % 4) + At(digits, 4 * q + 4)
    BY ByteOfGroup
  <2> DEFINE a == At(digits, 4 * q + 1)
             b == At(digits, 4 * q + 2)
             c == At(digits, 4 * q + 3)
             e == At(digits, 4 * q + 4)
  <2>3. /\ ByteOf(digits, 3 * q + 1) = 4 * a + b \div 16
        /\ ByteOf(digits, 3 * q + 2) = 16 * (b % 16) + c \div 4
        /\ ByteOf(digits, 3 * q + 3) = 64 * (c % 4) + e
    BY <2>2
  <2>4. a \in 0..63 /\ b \in 0..63 /\ c \in 0..63 /\ e \in 0..63
    BY <2>1
  <2> HIDE DEF a, b, c, e
  <2>5. /\ 4 * a + b \div 16 \in 0..255
        /\ 16 * (b % 16) + c \div 4 \in 0..255
        /\ 64 * (c % 4) + e \in 0..255
    BY <2>4
  <2> QED BY <2>3, <2>5
<1> QED BY <1>1, <1>3

\* Digits that a whole number of bytes has, as many as that needs.
LEMMA DigitsNeeded ==
  ASSUME NEW k \in Nat, (6 * k) % 8 <= 4
  PROVE  /\ ByteCount(k) \in Nat
         /\ DigitCount(ByteCount(k)) = k
         /\ k % 4 # 1
         /\ k % 4 = 0 => ByteCount(k) = 3 * (k \div 4)
         /\ k % 4 = 2 => ByteCount(k) = 3 * (k \div 4) + 1
         /\ k % 4 = 3 => ByteCount(k) = 3 * (k \div 4) + 2
BY DEF ByteCount, DigitCount

\* The digits of the bytes of some digits are those digits, if the bits that
\* belong to no byte are zero.
LEMMA DigitsOfBytes ==
  ASSUME NEW digits \in Seq(0..63), (6 * Len(digits)) % 8 <= 4, CleanEnd(digits),
         NEW data \in Seq(Byte), Len(data) = ByteCount(Len(digits)),
         \A i \in 1..Len(data) : data[i] = ByteOf(digits, i),
         NEW i \in 1..Len(digits)
  PROVE  Digit(data, i) = digits[i]
<1> DEFINE k == Len(digits)
           n == Len(data)
           d(j) == At(digits, 4 * ((i - 1) \div 4) + j)
<1>1. k \in Nat /\ i \in 1..k
  OBVIOUS
<1>2. PICK q \in Nat : /\ q = (i - 1) \div 4
                       /\ i \in {4 * q + 1, 4 * q + 2, 4 * q + 3, 4 * q + 4}
  <2>1. (i - 1) \div 4 \in Nat
    BY <1>1
  <2>2. i \in {4 * ((i - 1) \div 4) + 1, 4 * ((i - 1) \div 4) + 2,
               4 * ((i - 1) \div 4) + 3, 4 * ((i - 1) \div 4) + 4}
    BY <1>1
  <2> QED BY <2>1, <2>2
<1> DEFINE a == At(digits, 4 * q + 1)
           b == At(digits, 4 * q + 2)
           c == At(digits, 4 * q + 3)
           e == At(digits, 4 * q + 4)
<1>3. a \in 0..63 /\ b \in 0..63 /\ c \in 0..63 /\ e \in 0..63
  <2>1. /\ 4 * q + 1 \in Nat \ {0} /\ 4 * q + 2 \in Nat \ {0}
        /\ 4 * q + 3 \in Nat \ {0} /\ 4 * q + 4 \in Nat \ {0}
    OBVIOUS
  <2> QED BY <2>1, DigitAt
\* Where the group has no byte, its digits leave no bits for one.
<1>4. /\ At(data, 3 * q + 1) = 4 * a + b \div 16
      /\ At(data, 3 * q + 2) = 16 * (b % 16) + c \div 4
      /\ At(data, 3 * q + 3) = 64 * (c % 4) + e
  <2>1. /\ ByteOf(digits, 3 * q + 1) = 4 * a + b \div 16
        /\ ByteOf(digits, 3 * q + 2) = 16 * (b % 16) + c \div 4
        /\ ByteOf(digits, 3 * q + 3) = 64 * (c % 4) + e
    BY ByteOfGroup
  <2>2. /\ k >= 4 * q + 1 /\ n = ByteCount(k) /\ n \in Nat /\ k % 4 \in {0, 2, 3}
        /\ k % 4 = 0 => n = 3 * (k \div 4)
        /\ k % 4 = 2 => n = 3 * (k \div 4) + 1
        /\ k % 4 = 3 => n = 3 * (k \div 4) + 2
    BY <1>1, <1>2, DigitsNeeded
  <2>3. CASE k >= 4 * q + 4
    <3>1. 3 * q + 3 <= n
      BY <1>1, <2>2, <2>3
    <3>2. /\ 3 * q + 1 <= n /\ 3 * q + 2 <= n
          /\ 3 * q + 1 \in 1..n /\ 3 * q + 2 \in 1..n /\ 3 * q + 3 \in 1..n
      BY <2>2, <3>1
    <3>3. /\ At(data, 3 * q + 1) = data[3 * q + 1] /\ At(data, 3 * q + 2) = data[3 * q + 2]
          /\ At(data, 3 * q + 3) = data[3 * q + 3]
      BY <3>1, <3>2 DEF At
    <3>4. /\ data[3 * q + 1] = ByteOf(digits, 3 * q + 1) /\ data[3 * q + 2] = ByteOf(digits, 3 * q + 2)
          /\ data[3 * q + 3] = ByteOf(digits, 3 * q + 3)
      BY <3>2
    <3> HIDE DEF a, b, c, e
    <3> QED BY <2>1, <3>3, <3>4, Zenon
  <2>4. CASE k = 4 * q + 3
    <3>1. n = 3 * q + 2 /\ k % 4 = 3
      BY <1>1, <2>2, <2>4
    <3>2. digits[k] % 4 = 0 /\ c = digits[k]
      BY <1>1, <2>4, <3>1 DEF CleanEnd, At
    <3>3. e = 0
      BY <1>1, <2>4 DEF At
    <3>4. 64 * (c % 4) + e = 0
      BY <3>2, <3>3
    <3>5. At(data, 3 * q + 3) = 0
      BY <3>1 DEF At
    <3>6. At(data, 3 * q + 1) = ByteOf(digits, 3 * q + 1)
          /\ At(data, 3 * q + 2) = ByteOf(digits, 3 * q + 2)
      BY <3>1 DEF At
    <3> QED BY <2>1, <3>4, <3>5, <3>6
  <2>5. CASE k = 4 * q + 2
    <3>1. n = 3 * q + 1 /\ k % 4 = 2
      BY <1>1, <2>2, <2>5
    <3>2. digits[k] % 16 = 0 /\ b = digits[k]
      BY <1>1, <2>5, <3>1 DEF CleanEnd, At
    <3>3. c = 0 /\ e = 0
      BY <1>1, <2>5 DEF At
    <3>4. 16 * (b % 16) + c \div 4 = 0 /\ 64 * (c % 4) + e = 0
      BY <3>2, <3>3
    <3>5. At(data, 3 * q + 2) = 0 /\ At(data, 3 * q + 3) = 0
      BY <3>1 DEF At
    <3>6. At(data, 3 * q + 1) = ByteOf(digits, 3 * q + 1)
      BY <3>1 DEF At
    <3> QED BY <2>1, <3>4, <3>5, <3>6
  <2>6. k # 4 * q + 1
    <3>1. (4 * q + 1) % 4 = 1
      OBVIOUS
    <3>2. k % 4 # 1
      BY <1>1, DigitsNeeded
    <3> HIDE DEF k
    <3>3. ASSUME k = 4 * q + 1 PROVE FALSE
      <4>1. k % 4 = (4 * q + 1) % 4
        BY <3>3, Zenon
      <4> QED BY <3>1, <3>2, <4>1, Zenon
    <3> QED BY <3>3
  <2> QED BY <1>1, <2>2, <2>3, <2>4, <2>5, <2>6
<1>5. /\ Digit(data, 4 * q + 1) = At(data, 3 * q + 1) \div 4
      /\ Digit(data, 4 * q + 2) = 16 * (At(data, 3 * q + 1) % 4) + At(data, 3 * q + 2) \div 16
      /\ Digit(data, 4 * q + 3) = 4 * (At(data, 3 * q + 2) % 16) + At(data, 3 * q + 3) \div 64
      /\ Digit(data, 4 * q + 4) = At(data, 3 * q + 3) % 64
  BY DigitOfGroup
<1>6. At(digits, i) = digits[i]
  BY <1>1 DEF At
<1>7. /\ (4 * a + b \div 16) \div 4 = a
      /\ 16 * ((4 * a + b \div 16) % 4) + (16 * (b % 16) + c \div 4) \div 16 = b
      /\ 4 * ((16 * (b % 16) + c \div 4) % 16) + (64 * (c % 4) + e) \div 64 = c
      /\ (64 * (c % 4) + e) % 64 = e
  <2> HIDE DEF a, b, c, e
  <2>1. (4 * a + b \div 16) \div 4 = a
    BY <1>3, FirstDigit, Zenon
  <2>2. 16 * ((4 * a + b \div 16) % 4) + (16 * (b % 16) + c \div 4) \div 16 = b
    BY <1>3, SecondDigit, ZenonT(60)
  <2>3. 4 * ((16 * (b % 16) + c \div 4) % 16) + (64 * (c % 4) + e) \div 64 = c
    BY <1>3, ThirdDigit, ZenonT(60)
  <2>4. (64 * (c % 4) + e) % 64 = e
    BY <1>3, FourthDigit, Zenon
  <2> QED BY <2>1, <2>2, <2>3, <2>4
<1>8. /\ Digit(data, 4 * q + 1) = a /\ Digit(data, 4 * q + 2) = b
      /\ Digit(data, 4 * q + 3) = c /\ Digit(data, 4 * q + 4) = e
  <2> HIDE DEF a, b, c, e
  <2> QED BY <1>4, <1>5, <1>7
<1> QED BY <1>2, <1>6, <1>8

\* A function on the first n positions is a sequence of length n.
LEMMA Tabulated ==
  ASSUME NEW S, NEW n \in Nat, NEW f \in [1..n -> S]
  PROVE  f \in Seq(S) /\ Len(f) = n
OBVIOUS

\* The digits at the start of a text, and how much padding k digits call for.
DigitsIn(t, v) == [i \in 1..Leading(t, Alphabet(v)) |-> Value(v, t[i])]
PaddingOf(k, v) == IF Padded(v) THEN ((6 * k) % 8) \div 2 ELSE 0

LEMMA PaddingNat ==
  ASSUME NEW k \in Nat, NEW v PROVE (6 * k) % 8 \in Nat /\ PaddingOf(k, v) \in Nat
<1>1. (6 * k) % 8 \in Nat
  OBVIOUS
<1>2. ((6 * k) % 8) \div 2 \in Nat
  BY <1>1
<1> QED BY <1>1, <1>2 DEF PaddingOf

\* What decode found in a text it took.
LEMMA Base64Decoded ==
  ASSUME NEW S, NEW t \in Seq(S), NEW v \in Variants, DecodeBase64(t, v).ok
  PROVE  LET k == Leading(t, Alphabet(v))
             digits == DigitsIn(t, v)
         IN  /\ k \in 0..Len(t)
             /\ digits \in Seq(0..63) /\ Len(digits) = k
             /\ \A i \in 1..k : t[i] = Char(v, digits[i])
             /\ (6 * k) % 8 <= 4 /\ CleanEnd(digits)
             /\ SubSeq(t, k + 1, Len(t)) = [i \in 1..PaddingOf(k, v) |-> Equals]
             /\ DecodeBase64(t, v).data = [i \in 1..ByteCount(k) |-> ByteOf(digits, i)]
             /\ DecodeBase64(t, v).data \in Seq(Byte)
<1> DEFINE k == Leading(t, Alphabet(v))
           digits == DigitsIn(t, v)
           pad == PaddingOf(k, v)
<1>1. k \in Nat /\ k \in 0..Len(t) /\ Len(t) \in Nat /\ \A i \in 1..k : t[i] \in Alphabet(v)
  <2>1. Len(t) \in Nat
    OBVIOUS
  <2>2. k \in 0..Len(t) /\ \A i \in 1..k : t[i] \in Alphabet(v)
    BY <2>1, LeadingExists
  <2> HIDE DEF k
  <2> QED BY <2>1, <2>2
<1>0. digits = [i \in 1..k |-> Value(v, t[i])]
  BY DEF DigitsIn
<1> HIDE DEF k, digits
<1>2. \A i \in 1..k : Value(v, t[i]) \in 0..63 /\ Char(v, Value(v, t[i])) = t[i]
  BY <1>1, Names
<1>3. digits \in Seq(0..63) /\ Len(digits) = k
  <2>1. digits \in [1..k -> 0..63]
    BY <1>0, <1>2
  <2> QED BY <1>1, <2>1, Tabulated
<1>4. \A i \in 1..k : t[i] = Char(v, digits[i])
  BY <1>0, <1>2
<1>5. pad \in Nat /\ (6 * k) % 8 \in Nat
  BY <1>1, PaddingNat
<1> DEFINE bytes == [i \in 1..ByteCount(k) |-> ByteOf(digits, i)]
           refused == \/ ByteCount(k) > Room(Len(t)) \/ (6 * k) % 8 > 4
                      \/ ~CleanEnd(digits) \/ SubSeq(t, k + 1, Len(t)) # [i \in 1..pad |-> Equals]
<1>6. DecodeBase64(t, v) = IF refused THEN Refused ELSE Got(bytes)
  BY Zenon DEF DecodeBase64, DigitsIn, PaddingOf, k, digits
<1> HIDE DEF pad
<1>7. ~refused
  <2> HIDE DEF refused, bytes
  <2>1. ~Refused.ok
    BY DEF Refused
  <2> QED BY <1>6, <2>1
<1>8. DecodeBase64(t, v).data = bytes
  <2> HIDE DEF refused, bytes
  <2>1. Got(bytes).data = bytes
    BY DEF Got
  <2> QED BY <1>6, <1>7, <2>1
<1>9. (6 * k) % 8 <= 4
  BY <1>5, <1>7
<1>10. bytes \in Seq(Byte)
  <2>1. ByteCount(k) \in Nat
    BY <1>1, <1>9, DigitsNeeded
  <2>2. \A i \in 1..ByteCount(k) : ByteOf(digits, i) \in Byte
    <3> TAKE i \in 1..ByteCount(k)
    <3>1. i \in Nat \ {0}
      BY <2>1
    <3> QED BY <1>3, <3>1, ByteRange DEF Byte
  <2>3. bytes \in [1..ByteCount(k) -> Byte]
    BY <2>2
  <2> HIDE DEF Byte, bytes
  <2> QED BY <2>1, <2>3, Tabulated
<1> QED
  <2>1. CleanEnd(digits) /\ SubSeq(t, k + 1, Len(t)) = [i \in 1..pad |-> Equals]
    BY <1>7, Zenon
  <2> HIDE DEF bytes
  <2> QED BY <1>1, <1>3, <1>4, <1>8, <1>9, <1>10, <2>1 DEF bytes, k, digits, pad

LEMMA Base64TextOf ==
  ASSUME NEW data \in Seq(Byte), NEW v \in Variants
  PROVE  LET k == DigitCount(Len(data))
         IN  EncodeBase64(data, v) = [i \in 1..(k + PaddingOf(k, v)) |->
                                        IF i <= k THEN Char(v, Digit(data, i)) ELSE Equals]
BY Base64Text DEF PaddingOf

\* Base64::encode of what Base64::decode took is the text it took.
LEMMA Base64Canonical ==
  ASSUME NEW S, NEW t \in Seq(S), NEW v \in Variants, DecodeBase64(t, v).ok
  PROVE  EncodeBase64(DecodeBase64(t, v).data, v) = [i \in 1..Len(t) |-> t[i]]
<1> DEFINE k == Leading(t, Alphabet(v))
           digits == DigitsIn(t, v)
           pad == PaddingOf(k, v)
           data == DecodeBase64(t, v).data
           n == Len(data)
<1>1. /\ k \in 0..Len(t)
      /\ digits \in Seq(0..63) /\ Len(digits) = k
      /\ \A i \in 1..k : t[i] = Char(v, digits[i])
      /\ (6 * k) % 8 <= 4 /\ CleanEnd(digits)
      /\ SubSeq(t, k + 1, Len(t)) = [i \in 1..pad |-> Equals]
      /\ data = [i \in 1..ByteCount(k) |-> ByteOf(digits, i)]
      /\ data \in Seq(Byte)
  BY Base64Decoded, Zenon
<1>3. Len(t) \in Nat
  OBVIOUS
<1> HIDE DEF k, digits, pad, data
<1>4. /\ k \in Nat /\ pad \in Nat
      /\ ByteCount(k) \in Nat /\ n = ByteCount(k) /\ k = DigitCount(n)
  <2>1. k \in Nat
    BY <1>1, <1>3
  <2>2. ByteCount(k) \in Nat /\ DigitCount(ByteCount(k)) = k
    BY <1>1, <2>1, DigitsNeeded
  <2>3. Len([i \in 1..ByteCount(k) |-> ByteOf(digits, i)]) = ByteCount(k)
    BY <2>2
  <2>4. pad \in Nat
    BY <2>1, PaddingNat DEF pad
  <2> QED BY <1>1, <2>1, <2>2, <2>3, <2>4
<1>5. \A i \in 1..k : Char(v, Digit(data, i)) = t[i]
  <2> TAKE i \in 1..k
  <2>1. \A j \in 1..Len(data) : data[j] = ByteOf(digits, j)
    BY <1>1, <1>4
  <2>2. Digit(data, i) = digits[i]
    BY <1>1, <1>4, <2>1, DigitsOfBytes
  <2> QED BY <1>1, <2>2
<1>6. Len(t) = k + pad /\ \A i \in (k + 1)..(k + pad) : t[i] = Equals
  <2>2. Len(t) - k \in Nat
    BY <1>1, <1>3, <1>4
  <2>1. SubSeq(t, k + 1, Len(t)) = [i \in 1..(Len(t) - k) |-> t[k + i]]
    <3>1. (k + 1) + 1 - 1 = k + 1 /\ \A i \in 1..(Len(t) - k) : (k + 1) + i - 1 = k + i
      BY <1>4
    <3>2. SubSeq(t, k + 1, Len(t)) = [i \in 1..(Len(t) - (k + 1) + 1) |-> t[(k + 1) + i - 1]]
      <4>1. k + 1 \in Nat \ {0}
        BY <1>4
      <4> QED BY <1>3, <4>1
    <3>3. Len(t) - (k + 1) + 1 = Len(t) - k
      BY <1>3, <1>4
    <3> QED BY <3>1, <3>2, <3>3
  <2>3. Len(t) - k = pad
    <3>1. Len(SubSeq(t, k + 1, Len(t))) = Len(t) - k
      <4>1. \A i \in 1..(Len(t) - k) : t[k + i] \in S
        <5> TAKE i \in 1..(Len(t) - k)
        <5>1. k + i \in 1..Len(t)
          BY <1>3, <1>4
        <5> QED BY <5>1, InSequence
      <4>2. [i \in 1..(Len(t) - k) |-> t[k + i]] \in [1..(Len(t) - k) -> S]
        BY <4>1
      <4>3. Len([i \in 1..(Len(t) - k) |-> t[k + i]]) = Len(t) - k
        BY <2>2, <4>2, Tabulated, Zenon
      <4> QED BY <2>1, <4>3, Zenon
    <3>2. Len([i \in 1..pad |-> Equals]) = pad
      BY <1>4
    <3> QED BY <1>1, <3>1, <3>2
  <2>4. ASSUME NEW i \in (k + 1)..(k + pad) PROVE t[i] = Equals
    <3>1. i - k \in 1..pad /\ k + (i - k) = i
      BY <1>1, <1>4
    <3>2. [j \in 1..pad |-> Equals][i - k] = [j \in 1..(Len(t) - k) |-> t[k + j]][i - k]
      BY <1>1, <2>1
    <3>3. Equals = t[k + (i - k)]
      BY <2>3, <3>1, <3>2
    <3> QED BY <3>1, <3>3
  <2> QED BY <1>1, <1>3, <1>4, <2>3, <2>4
<1>7. EncodeBase64(data, v) = [i \in 1..(k + pad) |->
                                 IF i <= k THEN Char(v, Digit(data, i)) ELSE Equals]
  <2> DEFINE kk == DigitCount(n)
  <2>1. EncodeBase64(data, v) = [i \in 1..(kk + PaddingOf(kk, v)) |->
                                   IF i <= kk THEN Char(v, Digit(data, i)) ELSE Equals]
    BY <1>1, Base64TextOf, Zenon
  <2>2. k = kk /\ pad = PaddingOf(k, v)
    BY <1>4 DEF pad
  <2> HIDE DEF kk
  <2> QED BY <2>1, <2>2, Zenon
<1>8. EncodeBase64(data, v) = [i \in 1..Len(t) |-> t[i]]
  <2>1. \A i \in 1..(k + pad) : (IF i <= k THEN Char(v, Digit(data, i)) ELSE Equals) = t[i]
    <3> TAKE i \in 1..(k + pad)
    <3>1. CASE i <= k
      <4>1. i \in 1..k
        BY <1>4, <3>1
      <4> QED BY <1>5, <3>1, <4>1
    <3>2. CASE ~(i <= k)
      <4>1. i \in (k + 1)..(k + pad)
        BY <1>4, <3>2
      <4> QED BY <1>6, <3>2, <4>1
    <3> QED BY <3>1, <3>2
  <2> QED BY <1>6, <1>7, <2>1
<1> QED BY <1>8 DEF data

\* Two hex digits are the byte they make.
LEMMA TwoDigits ==
  ASSUME NEW a \in 0..15, NEW b \in 0..15
  PROVE  16 * a + b \in 0..255 /\ (16 * a + b) \div 16 = a /\ (16 * a + b) % 16 = b
OBVIOUS

\* Either case of a letter has the value of its digit.
LEMMA HexValues == \A c \in HexDigits : HexValue(c) \in 0..15
BY DEF HexDigits, HexValue, UpperA

\* What Hex::decode found in a text it took: whole bytes and nothing else.
LEMMA HexDecoded ==
  ASSUME NEW S, NEW t \in Seq(S), DecodeHex(t).ok
  PROVE  LET n == Len(t) \div 2
             data == DecodeHex(t).data
         IN  /\ n \in Nat /\ Len(t) = 2 * n
             /\ \A i \in 1..Len(t) : HexValue(t[i]) \in 0..15
             /\ data \in Seq(Byte) /\ Len(data) = n
             /\ \A i \in 1..n : data[i] = 16 * HexValue(t[2 * i - 1]) + HexValue(t[2 * i])
<1> DEFINE k == Leading(t, HexDigits)
           n == Len(t) \div 2
           bytes == [i \in 1..(k \div 2) |-> 16 * HexValue(t[2 * i - 1]) + HexValue(t[2 * i])]
           refused == k < Len(t) \/ k % 2 = 1 \/ k \div 2 > HexRoom(Len(t))
<1>1. k \in Nat /\ k \in 0..Len(t) /\ Len(t) \in Nat /\ \A i \in 1..k : t[i] \in HexDigits
  <2>1. Len(t) \in Nat
    OBVIOUS
  <2>2. k \in 0..Len(t) /\ \A i \in 1..k : t[i] \in HexDigits
    BY <2>1, LeadingExists
  <2> HIDE DEF k
  <2> QED BY <2>1, <2>2
<1>2. DecodeHex(t) = IF refused THEN Refused ELSE Got(bytes)
  BY Zenon DEF DecodeHex
<1> HIDE DEF k
<1>3. ~refused /\ DecodeHex(t).data = bytes
  <2> HIDE DEF refused, bytes
  <2>1. ~Refused.ok /\ Got(bytes).data = bytes
    BY DEF Refused, Got
  <2> QED BY <1>2, <2>1
<1>4. k = Len(t) /\ k % 2 = 0
  <2>1. k \in Nat /\ Len(t) \in Nat /\ k <= Len(t)
    BY <1>1
  <2>2. ~(k < Len(t)) /\ k % 2 # 1
    BY <1>3, Zenon
  <2> HIDE DEF bytes, refused
  <2> QED BY <2>1, <2>2
<1>5. n \in Nat /\ Len(t) = 2 * n /\ k \div 2 = n
  BY <1>1, <1>4
<1>6. \A i \in 1..Len(t) : HexValue(t[i]) \in 0..15
  BY <1>1, <1>4, HexValues
<1> HIDE DEF n
<1>7. bytes = [i \in 1..n |-> 16 * HexValue(t[2 * i - 1]) + HexValue(t[2 * i])]
  BY <1>5
<1> HIDE DEF bytes, refused
<1>8. \A i \in 1..n : 16 * HexValue(t[2 * i - 1]) + HexValue(t[2 * i]) \in Byte
  <2> TAKE i \in 1..n
  <2>1. 2 * i - 1 \in 1..Len(t) /\ 2 * i \in 1..Len(t)
    BY <1>5
  <2>2. HexValue(t[2 * i - 1]) \in 0..15 /\ HexValue(t[2 * i]) \in 0..15
    BY <1>6, <2>1
  <2> QED BY <2>2, TwoDigits DEF Byte
<1>9. bytes \in Seq(Byte) /\ Len(bytes) = n
  <2>1. bytes \in [1..n -> Byte]
    BY <1>7, <1>8
  <2> HIDE DEF Byte
  <2> QED BY <1>5, <2>1, Tabulated
<1>10. \A i \in 1..n : bytes[i] = 16 * HexValue(t[2 * i - 1]) + HexValue(t[2 * i])
  BY <1>7
<1> QED BY <1>3, <1>5, <1>6, <1>9, <1>10 DEF n

\* Hex::encode of what Hex::decode took is the text it took, in lower case.
LEMMA HexCanonical ==
  ASSUME NEW S, NEW t \in Seq(S), DecodeHex(t).ok
  PROVE  EncodeHex(DecodeHex(t).data) = [i \in 1..Len(t) |-> HexValue(t[i])]
<1> DEFINE n == Len(t) \div 2
           data == DecodeHex(t).data
<1>1. /\ n \in Nat /\ Len(t) = 2 * n
      /\ \A i \in 1..Len(t) : HexValue(t[i]) \in 0..15
      /\ data \in Seq(Byte) /\ Len(data) = n
      /\ \A i \in 1..n : data[i] = 16 * HexValue(t[2 * i - 1]) + HexValue(t[2 * i])
  BY HexDecoded, Zenon
<1> DEFINE digit(i) == IF i % 2 = 1 THEN data[(i + 1) \div 2] \div 16 ELSE data[i \div 2] % 16
<1>2. EncodeHex(data) = [i \in 1..(2 * Len(data)) |-> digit(i)]
  BY Zenon DEF EncodeHex
<1> HIDE DEF n, data
<1>0. n \in Nat
  BY <1>1
<1>3. ASSUME NEW i \in 1..(2 * n) PROVE digit(i) = HexValue(t[i])
  <2>1. CASE i % 2 = 1
    <3>1. PICK j \in 1..n : j = (i + 1) \div 2 /\ i = 2 * j - 1
      <4>1. (i + 1) \div 2 \in 1..n /\ i = 2 * ((i + 1) \div 2) - 1
        BY <1>0, <2>1
      <4> QED BY <4>1
    <3>2. HexValue(t[2 * j - 1]) \in 0..15 /\ HexValue(t[2 * j]) \in 0..15
      <4>1. 2 * j - 1 \in 1..Len(t) /\ 2 * j \in 1..Len(t)
        BY <1>1
      <4> QED BY <1>1, <4>1
    <3>3. data[j] \div 16 = HexValue(t[2 * j - 1])
      <4>1. data[j] = 16 * HexValue(t[2 * j - 1]) + HexValue(t[2 * j])
        BY <1>1
      <4>2. (16 * HexValue(t[2 * j - 1]) + HexValue(t[2 * j])) \div 16 = HexValue(t[2 * j - 1])
        BY <3>2, TwoDigits, Zenon
      <4> QED BY <4>1, <4>2, Zenon
    <3> QED BY <2>1, <3>1, <3>3
  <2>2. CASE i % 2 # 1
    <3>1. PICK j \in 1..n : j = i \div 2 /\ i = 2 * j
      <4>1. i \div 2 \in 1..n /\ i = 2 * (i \div 2)
        BY <1>0, <2>2
      <4> QED BY <4>1
    <3>2. HexValue(t[2 * j - 1]) \in 0..15 /\ HexValue(t[2 * j]) \in 0..15
      <4>1. 2 * j - 1 \in 1..Len(t) /\ 2 * j \in 1..Len(t)
        BY <1>1
      <4> QED BY <1>1, <4>1
    <3>3. data[j] % 16 = HexValue(t[2 * j])
      <4>1. data[j] = 16 * HexValue(t[2 * j - 1]) + HexValue(t[2 * j])
        BY <1>1
      <4>2. (16 * HexValue(t[2 * j - 1]) + HexValue(t[2 * j])) % 16 = HexValue(t[2 * j])
        BY <3>2, TwoDigits, Zenon
      <4> QED BY <4>1, <4>2, Zenon
    <3> QED BY <2>2, <3>1, <3>3
  <2> QED BY <2>1, <2>2
<1> HIDE DEF digit
<1> QED BY <1>1, <1>2, <1>3 DEF data

\* encode gives back the text decode was given, in every variant and for every
\* text decode takes (two cases apart in hex).
THEOREM EncodeInvertsDecode ==
  ASSUME NEW S, NEW t \in Seq(S), NEW v \in Encodings, Decode(t, v).ok
  PROVE  /\ Decode(t, v).data \in Seq(Byte)
         /\ Encode(Decode(t, v).data, v) =
                [i \in 1..Len(t) |-> IF v = "Hex" THEN HexValue(t[i]) ELSE t[i]]
<1>1. CASE v = "Hex"
  <2>1. Decode(t, v) = DecodeHex(t)
    BY <1>1 DEF Decode
  <2>2. DecodeHex(t).data \in Seq(Byte)
    BY <2>1, HexDecoded, Zenon
  <2>3. EncodeHex(DecodeHex(t).data) = [i \in 1..Len(t) |-> HexValue(t[i])]
    BY <2>1, HexCanonical, Zenon
  <2> QED BY <1>1, <2>1, <2>2, <2>3 DEF Encode
<1>2. CASE v \in Variants
  <2>0. v # "Hex"
    BY <1>2 DEF Variants
  <2>1. Decode(t, v) = DecodeBase64(t, v)
    BY <2>0 DEF Decode
  <2>2. DecodeBase64(t, v).data \in Seq(Byte)
    BY <1>2, <2>1, Base64Decoded, Zenon
  <2>3. EncodeBase64(DecodeBase64(t, v).data, v) = [i \in 1..Len(t) |-> t[i]]
    BY <1>2, <2>1, Base64Canonical, Zenon
  <2> QED BY <2>0, <2>1, <2>2, <2>3 DEF Encode
<1> QED BY <1>1, <1>2 DEF Encodings

\* The characters a text is made of.
Symbols == 0..(UpperA + 5)

\* encode writes characters of a text.
LEMMA EncodedText ==
  ASSUME NEW data \in Seq(Byte), NEW v \in Encodings
  PROVE  Encode(data, v) \in Seq(Symbols)
<1>1. CASE v = "Hex"
  <2> DEFINE n == Len(data)
             digit(i) == IF i % 2 = 1 THEN data[(i + 1) \div 2] \div 16 ELSE data[i \div 2] % 16
  <2>1. n \in Nat /\ \A j \in 1..n : data[j] \in 0..255
    BY InSequence DEF Byte
  <2>2. Encode(data, v) = [i \in 1..(2 * n) |-> digit(i)]
    BY <1>1, Zenon DEF Encode, EncodeHex
  <2> HIDE DEF n
  <2>3. ASSUME NEW i \in 1..(2 * n) PROVE digit(i) \in Symbols
    <3>1. CASE i % 2 = 1
      <4>1. (i + 1) \div 2 \in 1..n
        BY <2>1, <3>1
      <4>2. data[(i + 1) \div 2] \div 16 \in 0..15
        BY <2>1, <4>1, Nibbles
      <4> QED BY <3>1, <4>2 DEF Symbols, UpperA
    <3>2. CASE i % 2 # 1
      <4>1. i \div 2 \in 1..n
        BY <2>1, <3>2
      <4>2. data[i \div 2] % 16 \in 0..15
        BY <2>1, <4>1, Nibbles
      <4> QED BY <3>2, <4>2 DEF Symbols, UpperA
    <3> QED BY <3>1, <3>2
  <2> HIDE DEF digit
  <2>4. [i \in 1..(2 * n) |-> digit(i)] \in [1..(2 * n) -> Symbols]
    BY <2>3
  <2>5. 2 * n \in Nat
    BY <2>1
  <2> QED BY <2>2, <2>4, <2>5, Tabulated
<1>2. CASE v \in Variants
  <2> DEFINE k == DigitCount(Len(data))
             pad == PaddingOf(k, v)
             symbol(i) == IF i <= k THEN Char(v, Digit(data, i)) ELSE Equals
  <2>1. v # "Hex"
    BY <1>2 DEF Variants
  <2>2. Encode(data, v) = [i \in 1..(k + pad) |-> symbol(i)]
    BY <1>2, <2>1, Base64TextOf DEF Encode
  <2>3. k \in Nat /\ pad \in Nat
    <3>1. Len(data) \in Nat
      OBVIOUS
    <3>2. k \in Nat
      BY <3>1, Counts, Zenon
    <3> HIDE DEF k
    <3> QED BY <3>2, PaddingNat
  <2> HIDE DEF k, pad
  <2>4. ASSUME NEW i \in 1..(k + pad) PROVE symbol(i) \in Symbols
    <3>1. CASE i <= k
      <4>1. i \in Nat \ {0}
        BY <2>3
      <4>2. Digit(data, i) \in 0..63
        BY <4>1, DigitRange
      <4>3. \A d \in 0..63 : Char(v, d) \in Symbols
        BY DEF Char, Symbols, UpperA
      <4>4. Char(v, Digit(data, i)) \in Symbols
        BY <4>2, <4>3, Zenon
      <4> QED BY <3>1, <4>4, Zenon
    <3>2. CASE ~(i <= k)
      BY <3>2 DEF Symbols, UpperA, Equals
    <3> QED BY <3>1, <3>2
  <2> HIDE DEF symbol
  <2>5. [i \in 1..(k + pad) |-> symbol(i)] \in [1..(k + pad) -> Symbols]
    BY <2>4
  <2>6. k + pad \in Nat
    BY <2>3
  <2> QED BY <2>2, <2>5, <2>6, Tabulated
<1> QED BY <1>1, <1>2 DEF Encodings

-----------------------------------------------------------------------------
(***************************************************************************)
(* Every text on its way, altered or not.                                  *)
(***************************************************************************)

\* The inductive invariant of the types, which RoundTrip's leaves open: a text
\* stays a text however it is altered, and nothing is decoded before its time.
Readable ==
    /\ Unaltered
    /\ text \in Seq(Symbols)
    /\ reader \in Encodings
    /\ edits \in 0..MaxEdits
    /\ phase \in {"packed", "text", "decoded"}
    /\ phase # "decoded" => decoded = Refused

LEMMA ReadableInit == Init => Readable
<1> SUFFICES ASSUME Init PROVE Readable
  OBVIOUS
<1>1. Unaltered
  BY UnalteredInit
<1>2. <<>> \in Seq(Symbols)
  OBVIOUS
<1> QED BY <1>1, <1>2, BoundAssumption DEF Init, Readable

\* A character less, another or one more leaves a text.
LEMMA AlteredText ==
  ASSUME NEW S, NEW s \in Seq(S), NEW i \in 1..Len(s), NEW c \in S
  PROVE  /\ SubSeq(s, 1, i - 1) \o SubSeq(s, i + 1, Len(s)) \in Seq(S)
         /\ SubSeq(s, 1, i - 1) \o <<c>> \o SubSeq(s, i + 1, Len(s)) \in Seq(S)
         /\ SubSeq(s, 1, i) \o <<c>> \o SubSeq(s, i + 1, Len(s)) \in Seq(S)
<1>1. SubSeq(s, 1, i - 1) \in Seq(S)
  <2>1. i - 1 \in Int /\ 1 \in Int /\ \A j \in 1..(i - 1) : s[j] \in S
    BY InSequence
  <2> QED BY <2>1, SubSeqProperties
<1>2. SubSeq(s, 1, i) \in Seq(S)
  <2>1. i \in Int /\ 1 \in Int /\ \A j \in 1..i : s[j] \in S
    BY InSequence
  <2> QED BY <2>1, SubSeqProperties
<1>3. SubSeq(s, i + 1, Len(s)) \in Seq(S)
  <2>1. i + 1 \in Int /\ Len(s) \in Int /\ \A j \in (i + 1)..Len(s) : s[j] \in S
    BY InSequence
  <2> QED BY <2>1, SubSeqProperties
<1>4. <<c>> \in Seq(S)
  OBVIOUS
<1> QED BY <1>1, <1>2, <1>3, <1>4, ConcatProperties

LEMMA ReadableStep == Readable /\ [Next]_vars => Readable'
<1> SUFFICES ASSUME Readable, [Next]_vars PROVE Readable'
  OBVIOUS
<1>0. Unaltered'
  BY UnalteredStep DEF Readable
<1>1. CASE Send
  <2>1. Pack(parts) \in Seq(Byte) /\ variant \in Encodings
    BY UnpackInvertsPack DEF Readable, Unaltered
  <2>2. text' \in Seq(Symbols)
    BY <1>1, <2>1, EncodedText DEF Send
  <2> QED BY <1>0, <1>1, <2>2 DEF Readable, Send
<1>2. ASSUME NEW i \in 1..Len(text), NEW c \in Chars, Alter(i, c) PROVE Readable'
  <2>1. c \in Symbols
    BY DEF Chars, Symbols, Plus, Slash, Minus, Underscore, Equals, Junk, UpperA
  <2>2. text' \in Seq(Symbols)
    BY <1>2, <2>1, AlteredText DEF Alter, Readable
  <2>3. edits' \in 0..MaxEdits
    BY <1>2, BoundAssumption DEF Alter, Readable
  <2> QED BY <1>0, <1>2, <2>2, <2>3 DEF Readable, Alter
<1>3. ASSUME NEW v \in Encodings, Receive(v) PROVE Readable'
  BY <1>0, <1>3 DEF Readable, Receive
<1>4. CASE UNCHANGED vars
  BY <1>0, <1>4 DEF Readable, vars
<1> QED BY <1>1, <1>2, <1>3, <1>4 DEF Next

\* What decode takes, however often the text was altered and whoever reads it,
\* is what encode would have written: there is one text for each value.
THEOREM OneTextEach == Spec => []Canonical
<1>1. Readable => Canonical
  <2> SUFFICES ASSUME Readable, phase = "decoded", decoded.ok
               PROVE  Encode(decoded.data, reader) =
                        [i \in 1..Len(text) |-> IF reader = "Hex" THEN HexValue(text[i]) ELSE text[i]]
    BY DEF Canonical
  <2>1. decoded = Decode(text, reader) /\ text \in Seq(Symbols) /\ reader \in Encodings
    BY DEF Readable, Unaltered
  <2>2. Decode(text, reader).ok
    BY <2>1, Zenon
  <2>3. Encode(Decode(text, reader).data, reader) =
          [i \in 1..Len(text) |-> IF reader = "Hex" THEN HexValue(text[i]) ELSE text[i]]
    BY <2>1, <2>2, EncodeInvertsDecode, Zenon
  <2> QED BY <2>1, <2>3, Zenon
<1> QED BY <1>1, ReadableInit, ReadableStep, PTL DEF Spec

\* The variables keep their types; what is decoded are bytes.
THEOREM CodecTypes == Spec => []TypeOK
<1>1. Readable => TypeOK
  <2> SUFFICES ASSUME Readable PROVE TypeOK
    OBVIOUS
  <2>1. \A i \in 1..Len(text) : text[i] \in 0..(UpperA + 5)
    BY InSequence DEF Readable, Symbols
  <2>2. ASSUME decoded.ok PROVE \A i \in 1..Len(decoded.data) : decoded.data[i] \in 0..255
    <3>1. decoded = Decode(text, reader)
      BY <2>2 DEF Readable, Unaltered, Refused
    <3>2. decoded.data \in Seq(Byte)
      BY <2>2, <3>1, EncodeInvertsDecode DEF Readable
    <3> QED BY <3>2, InSequence DEF Byte
  <2> QED BY <2>1, <2>2 DEF TypeOK, Readable, Unaltered
<1> QED BY <1>1, ReadableInit, ReadableStep, PTL DEF Spec
=============================================================================
