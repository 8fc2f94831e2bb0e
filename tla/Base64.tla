------------------------------- MODULE Base64 -------------------------------
(***************************************************************************)
(* Base64 text, in which ids are written.  Three functions walk over such  *)
(* a text, each with a loop and checks of its own: one decodes it, one     *)
(* compares it with bytes, one only says whether it could be decoded.      *)
(*                                                                         *)
(* A character is the number it stands for, from 0 to 63, or Padding, or   *)
(* Other for any further one.                                              *)
(***************************************************************************)
EXTENDS Naturals, SequencesExt

Padding == 64
Other == 65

\* 0xFF, whose upper bits give it away.
FromBase64(ch) == IF ch < 64 THEN ch ELSE 255
Invalid(values) == \E value \in values : value >= 64

\* The loops take 4 characters at a time, until the 4th is missing or padding.
Segments(encoded) ==
  CHOOSE n \in 0..Len(encoded) :
    /\ \A k \in 1..n : 4 * k <= Len(encoded) /\ encoded[4 * k] # Padding
    /\ 4 * (n + 1) > Len(encoded) \/ encoded[4 * (n + 1)] = Padding

Segment(encoded, k) == [i \in 1..4 |-> FromBase64(encoded[4 * (k - 1) + i])]
Left(encoded) == SubSeq(encoded, 4 * Segments(encoded) + 1, Len(encoded))

\* What is left is then a tail of 2 or 3 characters, unless there are fewer.
Triplet(left) == Len(left) > 2 /\ left[3] # Padding
TailLength(left) == IF Len(left) <= 1 THEN 0 ELSE IF Triplet(left) THEN 3 ELSE 2
Tail3(left) == <<FromBase64(left[1]), FromBase64(left[2]), IF Triplet(left) THEN FromBase64(left[3]) ELSE 0>>

\* And after it comes at most 2 characters of padding.
PaddingLeft(left) ==
  LET rest == SubSeq(left, TailLength(left) + 1, Len(left))
  IN  Len(rest) <= 2 /\ \A i \in DOMAIN rest : rest[i] = Padding

Bytes24(s) ==
  <<s[1] * 4 + s[2] \div 16, (s[2] % 16) * 16 + s[3] \div 4, (s[3] % 4) * 64 + s[4]>>
Bytes16(t) == <<t[1] * 4 + t[2] \div 16, (t[2] % 16) * 16 + t[3] \div 4>>

-----------------------------------------------------------------------------
\* Whether fromBase64 throws.
Throws(encoded) ==
  LET left == Left(encoded)
      tail == Tail3(left)
  IN  \/ \E k \in 1..Segments(encoded) : Invalid(ToSet(Segment(encoded, k)))
      \/ TailLength(left) > 0 /\ Invalid(ToSet(tail))
      \/ TailLength(left) = 3 /\ tail[3] % 4 # 0
      \/ TailLength(left) = 2 /\ Bytes16(tail)[2] # 0
      \/ ~PaddingLeft(left)

Decode(encoded) ==
  FlattenSeq([k \in 1..Segments(encoded) |-> Bytes24(Segment(encoded, k))])
    \o (IF TailLength(Left(encoded)) = 0 THEN <<>>
        ELSE SubSeq(Bytes16(Tail3(Left(encoded))), 1, TailLength(Left(encoded)) - 1))

\* toBase64 pads the last segment.
Encode(bytes) ==
  LET count == Len(bytes)
      byte(i) == IF i <= count THEN bytes[i] ELSE 0
      digit(i, k) ==
        CASE k = 1 -> byte(i) \div 4
          [] k = 2 -> ((byte(i) % 4) * 16) + byte(i + 1) \div 16
          [] k = 3 -> IF i + 1 > count THEN Padding ELSE (byte(i + 1) % 16) * 4 + byte(i + 2) \div 64
          [] k = 4 -> IF i + 2 > count THEN Padding ELSE byte(i + 2) % 64
  IN  [p \in 1..(4 * ((count + 2) \div 3)) |-> digit(3 * ((p - 1) \div 4) + 1, ((p - 1) % 4) + 1)]

-----------------------------------------------------------------------------
\* compareBase64 goes on to the end of the text when it knows how the bytes
\* compare, since the text may still turn out to be invalid.
CompareByte(compared, decoded) ==
  IF compared.result # "EqualTo" THEN compared
  ELSE IF compared.bytes = <<>> THEN [compared EXCEPT !.result = "LessThan"]
  ELSE IF Head(compared.bytes) # decoded
       THEN [compared EXCEPT !.result = IF Head(compared.bytes) < decoded THEN "LessThan" ELSE "GreaterThan"]
  ELSE [compared EXCEPT !.bytes = Tail(@)]

\* Mutant of CompareLast: bytes that go on after the end of the text.
CompareNoFurther(compared) == compared.result

CompareLast(compared) ==
  IF compared.result = "EqualTo" /\ compared.bytes # <<>> THEN "GreaterThan" ELSE compared.result

CompareBase64(bytes, encoded) ==
  LET left == Left(encoded)
      tail == Tail3(left)
      start == [result |-> "EqualTo", bytes |-> bytes]
      full == FoldLeft(CompareByte, start,
                       FlattenSeq([k \in 1..Segments(encoded) |-> Bytes24(Segment(encoded, k))]))
  IN  IF encoded = <<>> THEN IF bytes = <<>> THEN "EqualTo" ELSE "GreaterThan"
      ELSE IF \E k \in 1..Segments(encoded) : Invalid(ToSet(Segment(encoded, k))) THEN "InvalidBase64"
      ELSE IF TailLength(left) > 0 /\ (Invalid(ToSet(tail)) \/ tail[3] % 4 # 0) THEN "InvalidBase64"
      ELSE IF TailLength(left) = 2 /\ Bytes16(tail)[2] # 0 THEN "InvalidBase64"
      ELSE IF ~PaddingLeft(left) THEN "InvalidBase64"
      ELSE CompareLast(FoldLeft(CompareByte, full,
             IF TailLength(left) = 0 THEN <<>> ELSE SubSeq(Bytes16(tail), 1, TailLength(left) - 1)))

\* Mutant of ValidateBase64: the bits after the last byte are not looked at.
ValidateCharacters(encoded) ==
  LET left == Left(encoded)
  IN  /\ \A k \in 1..Segments(encoded) : ~Invalid(ToSet(Segment(encoded, k)))
      /\ TailLength(left) > 0 => ~Invalid(ToSet(Tail3(left)))
      /\ PaddingLeft(left)

ValidateBase64(encoded) ==
  LET left == Left(encoded)
      tail == Tail3(left)
  IN  /\ \A k \in 1..Segments(encoded) : ~Invalid(ToSet(Segment(encoded, k)))
      /\ TailLength(left) > 0 => ~Invalid(ToSet(tail)) /\ tail[3] % 4 = 0
      /\ TailLength(left) = 2 => Bytes16(tail)[2] = 0
      /\ PaddingLeft(left)

-----------------------------------------------------------------------------
(* IdType has the bytes, <<"bytes", ...>>, or a text that may be Base64,   *)
(* <<"opaque", ...>>.                                                      *)

\* The order of texts is that of their characters' codes, + / 0 A a and the
\* padding between the digits and the capitals.
Code(ch) ==
  CASE ch < 26 -> ch + 65
    [] ch \in 26..51 -> ch + 71
    [] ch \in 52..61 -> ch - 4
    [] ch = 62 -> 43
    [] ch = 63 -> 47
    [] ch = Padding -> 61
    [] ch = Other -> 33

Lexicographic(s, t) ==
  \/ \E i \in DOMAIN t : (i > Len(s) \/ (i \in DOMAIN s /\ s[i] < t[i]))
                         /\ \A j \in 1..(i - 1) : j \in DOMAIN s /\ s[j] = t[j]

IdEqual(a, b) ==
  IF a[1] = b[1] THEN a[2] = b[2]
  ELSE (IF a[1] = "bytes" THEN CompareBase64(a[2], b[2]) ELSE CompareBase64(b[2], a[2])) = "EqualTo"

\* InvalidBase64 is the least of the comparisons.
IdLess(a, b) ==
  IF a[1] = b[1]
  THEN IF a[1] = "bytes"
       THEN Lexicographic(a[2], b[2])
       ELSE Lexicographic([i \in DOMAIN a[2] |-> Code(a[2][i])], [i \in DOMAIN b[2] |-> Code(b[2][i])])
  ELSE IF a[1] = "bytes" THEN CompareBase64(a[2], b[2]) \in {"InvalidBase64", "LessThan"}
  ELSE CompareBase64(b[2], a[2]) = "GreaterThan"

-----------------------------------------------------------------------------
(* What a text stands for, bit by bit: digits and then padding, as much as *)
(* the code accepts, which wants no more of it than a whole segment has.   *)

Digits(encoded) == SelectSeq(encoded, LAMBDA ch : ch < 64)
Bit(digits, k) == (digits[(k \div 6) + 1] \div 2 ^ (5 - (k % 6))) % 2

WellFormed(encoded) ==
  LET digits == Digits(encoded)
      n == Len(digits)
  IN  /\ \A i \in DOMAIN encoded : i > n => encoded[i] = Padding
      /\ n % 4 # 1
      /\ Len(encoded) - n <= (IF n % 4 = 0 THEN 1 ELSE 2)
      /\ \A k \in (8 * ((6 * n) \div 8))..(6 * n - 1) : Bit(digits, k) = 0

StandsFor(encoded, bytes) ==
  /\ Len(bytes) = (6 * Len(Digits(encoded))) \div 8
  /\ \A k \in 0..(8 * Len(bytes) - 1) :
       Bit(Digits(encoded), k) = (bytes[k \div 8 + 1] \div 2 ^ (7 - (k % 8))) % 2

\* The three walks over a text agree, with each other and with what the text
\* stands for: it decodes to the bytes it stands for or is refused by all.
WalksAgree(encoded) ==
  /\ ~Throws(encoded) <=> WellFormed(encoded)
  /\ ~Throws(encoded) => StandsFor(encoded, Decode(encoded))
  /\ ValidateBase64(encoded) <=> WellFormed(encoded)
  /\ \A n \in 0..3 : CompareBase64([i \in 1..n |-> 0], encoded) = "InvalidBase64" <=> ~WellFormed(encoded)

\* An id is the same id whether it is kept as bytes or as the text toBase64
\* writes for them, and of two ids of different kinds exactly one is less or
\* they are equal.
IdsAgree(bytes, other) ==
  /\ ~Throws(Encode(bytes)) /\ Decode(Encode(bytes)) = bytes
  /\ Len(Encode(bytes)) % 4 = 0
  /\ IdEqual(<<"bytes", other>>, <<"opaque", Encode(bytes)>>) <=> other = bytes
  /\ IdLess(<<"bytes", other>>, <<"opaque", Encode(bytes)>>) <=> IdLess(<<"bytes", other>>, <<"bytes", bytes>>)
  /\ IdLess(<<"opaque", Encode(bytes)>>, <<"bytes", other>>) <=> IdLess(<<"bytes", bytes>>, <<"bytes", other>>)
=============================================================================
