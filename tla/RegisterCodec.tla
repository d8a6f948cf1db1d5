----------------------------- MODULE RegisterCodec -----------------------------
(***************************************************************************)
(* RegisterCodec (lantern-domain/src/codec.rs) and FixedScale (value.rs):  *)
(* what a sequence of registers means in engineering units, and which      *)
(* registers an engineering value is written as.                           *)
(*                                                                         *)
(* A register is a pair of bytes <<high, low>>, a bit pattern the sequence *)
(* of its bytes, most significant first.  The code has Nibble = 16 and     *)
(* Digit = 10; smaller values shrink every range and keep every carry,     *)
(* sign and invalid digit.  Where a byte is no power of two, its flags and *)
(* the fields of a float are the whole bits that fit in it.  A decimal is  *)
(* an integer number of units of 1/Unit, and a quotient is exact where     *)
(* Decimal stops at 28 digits.                                             *)
(***************************************************************************)
EXTENDS Integers, Sequences, SequencesExt, FiniteSets

CONSTANTS Nibble, Digit, Unit

ASSUME CodecAssumption == Digit \in 2 .. Nibble - 1 /\ Unit \in Nat \ {0}

ByteSize == Nibble * Nibble
WordSize == ByteSize * ByteSize
BitsPerByte == CHOOSE b \in 1 .. 8 : 2 ^ b <= ByteSize /\ ByteSize < 2 ^ (b + 1)

Unsigneds == {"Unsigned16", "Unsigned32", "Unsigned64"}
Signeds == {"Signed16", "Signed32", "Signed64"}
Bcds == {"Bcd16", "Bcd32"}
Fixed == Unsigneds \cup Signeds \cup Bcds
Floats == {"Float32", "Float64"}
Enums == {"Enum16", "Enum32"}
Bitfields == {"Bitfield16", "Bitfield32", "Bitfield64"}

RegisterWidth(encoding) ==
    CASE encoding \in {"Unsigned16", "Signed16", "Bcd16", "Enum16", "Bitfield16"} -> 1
      [] encoding \in {"Unsigned32", "Signed32", "Float32", "Bcd32", "Enum32", "Bitfield32"} -> 2
      [] encoding \in {"Unsigned64", "Signed64", "Float64", "Bitfield64"} -> 4

Modulus(encoding) == WordSize ^ RegisterWidth(encoding)

\* An EngineeringValue, or the error of a conversion.
Value(kind, is) == [kind |-> kind, is |-> is]
CodecError == Value("error", 0)

----------------------------------------------------------------------------
(* FixedScale                                                              *)

Scale(multiplier, divisor, offset, places, rounding) ==
    [multiplier |-> multiplier, divisor |-> divisor, offset |-> offset,
     places |-> places, rounding |-> rounding]
Identity == Scale(1, 1, 0, 0, "MidpointNearestEven")

ScaleIsValid(s) == s.multiplier # 0 /\ s.divisor # 0

\* n / d rounded to an integer
RoundQuotient(n, d, rounding) ==
    LET m == IF d < 0 THEN -n ELSE n
        k == IF d < 0 THEN -d ELSE d
        q == m \div k
        r == m % k
        up == CASE rounding = "TowardNegativeInfinity" -> FALSE
                [] rounding = "TowardPositiveInfinity" -> r > 0
                [] rounding = "TowardZero" -> r > 0 /\ m < 0
                [] rounding = "AwayFromZero" -> r > 0 /\ m > 0
                [] rounding = "MidpointNearestEven" -> 2 * r > k \/ (2 * r = k /\ q % 2 = 1)
                [] rounding = "MidpointAwayFromZero" -> 2 * r > k \/ (2 * r = k /\ m > 0)
    IN  IF up THEN q + 1 ELSE q

\* decode_i128: raw * multiplier / divisor + offset, to the scale's places
DecodeScaled(s, raw) ==
    LET unit == 10 ^ s.places
    IN  RoundQuotient((raw * s.multiplier * Unit + s.offset * s.divisor) * unit,
                      s.divisor * Unit, s.rounding) * (Unit \div unit)

\* mutant: the offset is taken off after the division
EncodeScaled_OffsetLast(s, value) ==
    RoundQuotient(value * s.divisor - s.offset * s.multiplier, Unit * s.multiplier, s.rounding)

\* encode_i128: (value - offset) * divisor / multiplier, to an integer
EncodeScaled(s, value) ==
    RoundQuotient((value - s.offset) * s.divisor, Unit * s.multiplier, s.rounding)

----------------------------------------------------------------------------
(* Orders                                                                  *)

Ordered(c, words) == IF c.wordOrder = "LeastSignificantFirst" THEN Reverse(words) ELSE words
BytesOf(c, word) == IF c.byteOrder = "LittleEndian" THEN <<word[2], word[1]>> ELSE word

WordsToBits(c, words) == FlattenSeq([i \in DOMAIN words |-> BytesOf(c, Ordered(c, words)[i])])

BitsToWords(c, bits) ==
    Ordered(c, [i \in 1 .. Len(bits) \div 2 |-> BytesOf(c, <<bits[2 * i - 1], bits[2 * i]>>)])

\* the unsigned integer of a bit pattern, and the bit pattern of an integer
Number(bits) == FoldLeft(LAMBDA n, byte : n * ByteSize + byte, 0, bits)
BitsOf(n, width) ==
    [i \in 1 .. 2 * width |-> (n \div ByteSize ^ (2 * width - i)) % ByteSize]

----------------------------------------------------------------------------
(* Binary coded decimal: two digits a byte                                 *)

DigitsOf(bits) == FlattenSeq([i \in DOMAIN bits |-> <<bits[i] \div Nibble, bits[i] % Nibble>>])

BcdIsValid(bits) == \A i \in DOMAIN DigitsOf(bits) : DigitsOf(bits)[i] < Digit
DecodeBcd(bits) == FoldLeft(LAMBDA n, digit : n * Digit + digit, 0, DigitsOf(bits))

EncodeBcd(raw, width) ==
    LET digit(i) == (raw \div Digit ^ (4 * width - i)) % Digit
    IN  [i \in 1 .. 2 * width |-> digit(2 * i - 1) * Nibble + digit(2 * i)]

----------------------------------------------------------------------------

Signed(n, modulus) == IF 2 * n >= modulus THEN n - modulus ELSE n

\* is_finite: the exponent of a float, the bits after its sign, is not all ones.
\* It is as long as a byte in a Float32 and three bits longer in a Float64.
IsFinite(bits) ==
    LET half == 2 ^ (BitsPerByte - 1)
        exponentEnds == IF Len(bits) = 4 THEN bits[2] >= half ELSE bits[2] \div Nibble = Nibble - 1
    IN  ~(bits[1] % half = half - 1 /\ exponentEnds)

\* decode(): the value of registers
Decode(c, words) ==
    LET bits == WordsToBits(c, words)
        scaled(raw) == Value("Fixed", DecodeScaled(c.scale, raw))
    IN  IF Len(words) # RegisterWidth(c.encoding) THEN CodecError
        ELSE CASE c.encoding \in Unsigneds -> scaled(Number(bits))
               [] c.encoding \in Signeds ->
                      scaled(Signed(Number(bits), Modulus(c.encoding)))
               [] c.encoding \in Bcds ->
                      IF BcdIsValid(bits) THEN scaled(DecodeBcd(bits)) ELSE CodecError
               [] c.encoding \in Floats -> Value("Float", bits)
               [] c.encoding \in Enums -> Value("Enum", Number(bits))
               [] c.encoding \in Bitfields -> Value("Bitfield", bits)

\* The raw integers that the encoding can hold: checked_unsigned, checked_signed
\* and the digits of encode_bcd.
RawRange(encoding) ==
    CASE encoding \in Signeds ->
             -(Modulus(encoding) \div 2) .. (Modulus(encoding) - 1) \div 2
      [] encoding \in Bcds -> 0 .. Digit ^ (4 * RegisterWidth(encoding)) - 1
      [] OTHER -> 0 .. Modulus(encoding) - 1

\* encode(): the registers of a value, or the empty sequence for an error
Encode(c, value) ==
    LET width == RegisterWidth(c.encoding)
        raw == EncodeScaled(c.scale, value.is)
        fits(n) == n \in RawRange(c.encoding)
    IN  CASE value.kind = "Fixed" /\ c.encoding \in Fixed ->
                 IF ~fits(raw) THEN <<>>
                 ELSE BitsToWords(c, IF c.encoding \in Bcds THEN EncodeBcd(raw, width)
                                     ELSE BitsOf(raw % Modulus(c.encoding), width))
          [] value.kind = "Enum" /\ c.encoding \in Enums ->
                 IF fits(value.is) THEN BitsToWords(c, BitsOf(value.is, width)) ELSE <<>>
          [] \/ value.kind = "Float" /\ c.encoding \in Floats
             \/ value.kind = "Bitfield" /\ c.encoding \in Bitfields ->
                 IF Len(value.is) = 2 * width THEN BitsToWords(c, value.is) ELSE <<>>
          [] OTHER -> <<>>
================================================================================
