------------------------------- MODULE Codec -------------------------------
(***************************************************************************)
(* Texts and packed buffers: utils/base64.hpp and utils/packer.hpp.  Parts *)
(* are packed, encoded, altered on their way or not, decoded by a reader   *)
(* who may have another variant in mind, and unpacked.                     *)
(*                                                                         *)
(* Bytes are 0..255, and a Base64 digit has its value 0..61 for a          *)
(* character, the last two digits one of two each; hex digits are 0..15.   *)
(* What sodium_bin2base64 and its like compute is external; the sizes of   *)
(* the buffers and what is done with them are the library's.               *)
(***************************************************************************)
EXTENDS Naturals, Sequences

CONSTANTS
    Bytes,      \* byte values that occur
    MaxRest,    \* bound: longest last part
    MaxEdits    \* bound: alterations of a text

ASSUME ByteAssumption == Bytes \subseteq 0..255
ASSUME BoundAssumption == MaxRest \in Nat /\ MaxEdits \in Nat

VARIABLES
    parts,      \* what was packed
    variant,    \* how it was encoded
    text,       \* the text on its way
    edits,      \* how often it was altered
    reader,     \* how it was decoded
    decoded,    \* what decode returned
    phase       \* "packed", "text", "decoded"

vars == <<parts, variant, text, edits, reader, decoded, phase>>

Variants == {"Original", "OriginalNoPadding", "UrlSafe", "UrlSafeNoPadding"}
Encodings == Variants \cup {"Hex"}
Padded(v) == v \in {"Original", "UrlSafe"}
UrlSafe(v) == v \in {"UrlSafe", "UrlSafeNoPadding"}

Plus == 62
Slash == 63
Minus == 64
Underscore == 65
Equals == 66
Junk == 67                  \* a character of no alphabet
UpperA == 70                \* 'A' to 'F' as hex digits
Nul == 80                   \* the terminator libsodium writes
Chars == {0, 1, 15, 16, Plus, Slash, Minus, Underscore, Equals, Junk, UpperA + 5}

Refused == [ok |-> FALSE]
Got(data) == [ok |-> TRUE, data |-> data]

-----------------------------------------------------------------------------
\* Base64 digits, six bits each, of bytes, and bytes of digits.
At(s, i) == IF i <= Len(s) THEN s[i] ELSE 0
DigitCount(n) == (8 * n + 5) \div 6
ByteCount(k) == (6 * k) \div 8
Digit(data, k) ==
    LET byte(j) == At(data, 3 * ((k - 1) \div 4) + j)
    IN  CASE k % 4 = 1 -> byte(1) \div 4
          [] k % 4 = 2 -> 16 * (byte(1) % 4) + byte(2) \div 16
          [] k % 4 = 3 -> 4 * (byte(2) % 16) + byte(3) \div 64
          [] k % 4 = 0 -> byte(3) % 64
ByteOf(digits, k) ==
    LET digit(j) == At(digits, 4 * ((k - 1) \div 3) + j)
    IN  CASE k % 3 = 1 -> 4 * digit(1) + digit(2) \div 16
          [] k % 3 = 2 -> 16 * (digit(2) % 16) + digit(3) \div 4
          [] k % 3 = 0 -> 64 * (digit(3) % 4) + digit(4)

\* Whether the bits of the last digit that belong to no byte are zero.
CleanEnd(digits) ==
    LET k == Len(digits)
    IN  (k % 4 = 2 => digits[k] % 16 = 0) /\ (k % 4 = 3 => digits[k] % 4 = 0)

Char(v, d) == IF d < 62 THEN d ELSE IF UrlSafe(v) THEN d + 2 ELSE d
Alphabet(v) == {Char(v, d) : d \in 0..63}
Value(v, c) == IF UrlSafe(v) /\ c >= 64 THEN c - 2 ELSE c

\* sodium_base64_ENCODED_LEN, with its terminator.
EncodedLen(n, v) ==
    LET rest == n % 3
    IN  4 * (n \div 3) + (IF rest = 0 THEN 0 ELSE IF Padded(v) THEN 4 ELSE rest + 1) + 1

\* What sodium_bin2base64 leaves in a buffer of that size.
BinToBase64(data, v) ==
    [i \in 1..EncodedLen(Len(data), v) |->
        IF i <= DigitCount(Len(data)) THEN Char(v, Digit(data, i))
        ELSE IF i < EncodedLen(Len(data), v) THEN Equals ELSE Nul]

\* Mutant: the terminator stays.
EncodeBase64Terminated(data, v) == BinToBase64(data, v)

\* Base64::encode drops the terminator.
EncodeBase64(data, v) ==
    LET out == BinToBase64(data, v) IN SubSeq(out, 1, Len(out) - 1)

\* Hex::encode.
EncodeHex(data) ==
    [i \in 1..(2 * Len(data)) |->
        IF i % 2 = 1 THEN data[(i + 1) \div 2] \div 16 ELSE data[i \div 2] % 16]

Encode(data, v) == IF v = "Hex" THEN EncodeHex(data) ELSE EncodeBase64(data, v)

-----------------------------------------------------------------------------
\* Mutant: room for whole groups of four characters only.
RoomOfGroups(n) == 3 * (n \div 4)

\* The buffers decode allocates: max_bin_len_, and half the text's length.
Room(n) == 3 * (n \div 4) + 2
HexRoom(n) == n \div 2

\* How many characters at the start of a text are of the alphabet.
Leading(t, alphabet) ==
    CHOOSE k \in 0..Len(t) : /\ \A i \in 1..k : t[i] \in alphabet
                             /\ k < Len(t) => t[k + 1] \notin alphabet

\* Mutant: sodium_base642bin told where to leave what it did not understand.
DecodeBase64Leading(t, v) ==
    LET k == Leading(t, Alphabet(v))
        digits == [i \in 1..k |-> Value(v, t[i])]
        left == (6 * k) % 8
    IN  IF left > 4 THEN Refused ELSE Got([i \in 1..ByteCount(k) |-> ByteOf(digits, i)])

\* Base64::decode.  sodium_base642bin refuses what does not fit, bits left over
\* that are not zero, padding other than the variant's, and anything after it.
DecodeBase64(t, v) ==
    LET k == Leading(t, Alphabet(v))
        digits == [i \in 1..k |-> Value(v, t[i])]
        left == (6 * k) % 8
        padding == [i \in 1..(IF Padded(v) THEN left \div 2 ELSE 0) |-> Equals]
    IN  IF \/ ByteCount(k) > Room(Len(t))
           \/ left > 4
           \/ ~CleanEnd(digits)
           \/ SubSeq(t, k + 1, Len(t)) # padding
        THEN Refused
        ELSE Got([i \in 1..ByteCount(k) |-> ByteOf(digits, i)])

\* Hex::decode.  sodium_hex2bin takes both cases, whole bytes and nothing else.
HexDigits == (0..15) \cup (UpperA..(UpperA + 5))
HexValue(c) == IF c >= UpperA THEN c - UpperA + 10 ELSE c
DecodeHex(t) ==
    LET k == Leading(t, HexDigits)
    IN  IF k < Len(t) \/ k % 2 = 1 \/ k \div 2 > HexRoom(Len(t))
        THEN Refused
        ELSE Got([i \in 1..(k \div 2) |-> 16 * HexValue(t[2 * i - 1]) + HexValue(t[2 * i])])

Decode(t, v) == IF v = "Hex" THEN DecodeHex(t) ELSE DecodeBase64(t, v)

-----------------------------------------------------------------------------
\* Packer::pack, and Packer::unpack<1, 2, -1>: subspan past the end of the
\* buffer is undefined.
Sizes == <<1, 2>>
Pack(ps) == ps[1] \o ps[2] \o ps[3]

\* Mutant: each part starts where the first one ends.
OffsetOfFirst(i) == IF i = 1 THEN 0 ELSE Sizes[1]

Offset(i) == IF i = 1 THEN 0 ELSE IF i = 2 THEN Sizes[1] ELSE Sizes[1] + Sizes[2]
UnpackDefined(buffer) == Offset(3) <= Len(buffer)
Unpack(buffer) ==
    [i \in 1..3 |-> SubSeq(buffer, Offset(i) + 1,
                           IF i = 3 THEN Len(buffer) ELSE Offset(i) + Sizes[i])]

Parts == {<<a, b, c>> : a \in [1..1 -> Bytes], b \in [1..2 -> Bytes],
                        c \in UNION {[1..n -> Bytes] : n \in 0..MaxRest}}

TypeOK ==
    /\ parts \in Parts /\ variant \in Encodings /\ reader \in Encodings
    /\ \A i \in 1..Len(text) : text[i] \in 0..(UpperA + 5)
    /\ edits \in 0..MaxEdits
    /\ decoded.ok => \A i \in 1..Len(decoded.data) : decoded.data[i] \in 0..255
    /\ phase \in {"packed", "text", "decoded"}

Init ==
    /\ parts \in Parts
    /\ variant \in Encodings
    /\ text = <<>>
    /\ edits = 0
    /\ reader = variant
    /\ decoded = Refused
    /\ phase = "packed"

Send ==
    /\ phase = "packed"
    /\ text' = Encode(Pack(parts), variant)
    /\ phase' = "text"
    /\ UNCHANGED <<parts, variant, edits, reader, decoded>>

\* On its way the text loses, gains or changes a character.
Alter(i, c) ==
    /\ phase = "text"
    /\ edits < MaxEdits
    /\ edits' = edits + 1
    /\ text' \in {SubSeq(text, 1, i - 1) \o SubSeq(text, i + 1, Len(text)),
                  SubSeq(text, 1, i - 1) \o <<c>> \o SubSeq(text, i + 1, Len(text)),
                  SubSeq(text, 1, i) \o <<c>> \o SubSeq(text, i + 1, Len(text))}
    /\ UNCHANGED <<parts, variant, reader, decoded, phase>>

Receive(v) ==
    /\ phase = "text"
    /\ reader' = v
    /\ decoded' = Decode(text, v)
    /\ phase' = "decoded"
    /\ UNCHANGED <<parts, variant, text, edits>>

Next ==
    \/ Send
    \/ \E i \in 1..Len(text), c \in Chars : Alter(i, c)
    \/ \E v \in Encodings : Receive(v)

Spec == Init /\ [][Next]_vars

-----------------------------------------------------------------------------
(***************************************************************************)
(* Properties                                                              *)
(***************************************************************************)

\* A text nobody altered, read as it was written, unpacks to what was packed:
\* the buffers suffice, the terminator is gone and the offsets agree.
RoundTrip ==
    phase = "decoded" /\ edits = 0 /\ reader = variant =>
        decoded.ok /\ UnpackDefined(decoded.data) /\ Unpack(decoded.data) = parts

\* What decode accepts is what encode would have produced, whatever happened to
\* the text: there is one text for each value (two cases apart in hex).
Canonical ==
    phase = "decoded" /\ decoded.ok =>
        Encode(decoded.data, reader) =
            [i \in 1..Len(text) |-> IF reader = "Hex" THEN HexValue(text[i]) ELSE text[i]]

=============================================================================
