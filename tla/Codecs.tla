------------------------------- MODULE Codecs -------------------------------
(***************************************************************************)
(* bc_core_format_base64_* and _base32_*.  Both take groups of bytes for   *)
(* groups of digits with the same bits; they differ in the sizes and in    *)
(* what they accept as padding.  A character of a text is the value of a   *)
(* digit, Pad, or another one; capitals and small letters of base32, which *)
(* have the same value, are not told apart.                                *)
(***************************************************************************)
EXTENDS Call, FiniteSetsExt

Pad == 64

Encodes == {"base64_encode", "base32_encode"}
Decodes == {"base64_decode", "base32_decode"}

(* The bits of a digit, the bytes and the digits of a group, and the       *)
(* padding of a last group of 1, 2... bytes.                               *)
Scheme ==
  IF call.op \in {"base64_encode", "base64_decode"}
  THEN [bits |-> 6, bytes |-> 3, digits |-> 4, padding |-> <<2, 1, 0>>]
  ELSE [bits |-> 5, bytes |-> 5, digits |-> 8, padding |-> <<6, 4, 3, 1, 0>>]

Text == call.text

(* Bit i of a row of numbers of so many bits, the first being the highest, *)
(* and 0 after the last.                                                   *)
BitOf(numbers, bits, i) ==
  LET n == i \div bits
  IN IF n >= Len(numbers) THEN 0
     ELSE (numbers[n + 1] \div Power(2, bits - 1 - (i % bits))) % 2

(* The accumulator of a group, shifted and masked: number k of the same    *)
(* bits taken in numbers of another size.                                  *)
Regrouped(numbers, from, to, k) ==
  LET high[i \in 0..to] ==
        IF i = 0 THEN 0 ELSE 2 * high[i - 1] + BitOf(numbers, from, k * to + (i - 1))
  IN high[to]

(* The numbers of a group, of which the last one may have fewer.           *)
GroupAt(numbers, first, size) ==
  SubSeq(numbers, first + 1,
         IF first + size <= Len(numbers) THEN first + size ELSE Len(numbers))

Group(size) == GroupAt(Text, at, size)

(***************************************************************************)
(* Encoding.                                                               *)
(***************************************************************************)
Groups(n) == (n + (Scheme.bytes - 1)) \div Scheme.bytes

EncodedLength(n) == Groups(n) * Scheme.digits

(* A fault: a last group of one byte is cut short of its second digit.     *)
EncodedGroupShort(bytes) ==
  [k \in 1..Scheme.digits |->
     IF k <= Scheme.digits - Scheme.padding[Len(bytes)] - (IF Len(bytes) = 1 THEN 1 ELSE 0)
     THEN Regrouped(bytes, 8, Scheme.bits, k - 1)
     ELSE Pad]

EncodedGroup(bytes) ==
  [k \in 1..Scheme.digits |->
     IF k <= Scheme.digits - Scheme.padding[Len(bytes)]
     THEN Regrouped(bytes, 8, Scheme.bits, k - 1)
     ELSE Pad]

EncodeRefused ==
  /\ Pending(Encodes)
  /\ EncodedLength(Len(Text)) > call.capacity
  /\ Return(FALSE, output)

EncodeGroup ==
  /\ Pending(Encodes)
  /\ EncodedLength(Len(Text)) <= call.capacity
  /\ at < Len(Text)
  /\ Go(at + Scheme.bytes, output \o EncodedGroup(Group(Scheme.bytes)))

EncodeEnd ==
  /\ Pending(Encodes)
  /\ EncodedLength(Len(Text)) <= call.capacity
  /\ at >= Len(Text)
  /\ Return(TRUE, output)

(***************************************************************************)
(* Decoding.                                                               *)
(***************************************************************************)
(* base64 looks for padding in the last two characters, base32 in eight.   *)
Padding ==
  Max({n \in 0..(IF Scheme.digits = 4 THEN 2 ELSE 8) :
         \A i \in 1..n : Text[Len(Text) + 1 - i] = Pad})

(* The bytes in the last group: BC_CORE_BASE32_BYTES_FOR_QUINTET.          *)
LastBytes ==
  IF Scheme.digits = 4 THEN 3 - Padding
  ELSE <<0, 1, 0, 2, 3, 0, 4, 5>>[8 - Padding]

DecodeAccepted ==
  /\ Len(Text) % Scheme.digits = 0
  /\ Text # <<>> =>
       /\ Scheme.digits = 8 => Padding \notin {1, 2, 5, 8}
       /\ (Len(Text) \div Scheme.digits - 1) * Scheme.bytes + LastBytes <= call.capacity

InLastGroup == at + Scheme.digits = Len(Text)

(* What counts as 0 in a group: for base64 padding in the second half, of  *)
(* any group, for base32 what follows the digits of the last one.          *)
CountsAsZero(digit, k) ==
  IF Scheme.digits = 4 THEN k > 2 /\ digit = Pad ELSE InLastGroup /\ k > 8 - Padding

Emitted == IF InLastGroup THEN LastBytes ELSE Scheme.bytes

DecodedGroup(digits) ==
  LET values == [k \in DOMAIN digits |-> IF CountsAsZero(digits[k], k) THEN 0 ELSE digits[k]]
  IN [k \in 1..Emitted |-> Regrouped(values, Scheme.bits, 8, k - 1)]

GroupValid(digits) ==
  \A k \in DOMAIN digits : CountsAsZero(digits[k], k) \/ digits[k] < Power(2, Scheme.bits)

DecodeRefused ==
  /\ Pending(Decodes)
  /\ ~DecodeAccepted
  /\ Return(FALSE, output)

DecodeGroup ==
  /\ Pending(Decodes)
  /\ DecodeAccepted
  /\ at < Len(Text)
  /\ LET digits == Group(Scheme.digits)
     IN IF GroupValid(digits)
        THEN Go(at + Scheme.digits, output \o DecodedGroup(digits))
        ELSE Return(FALSE, output)

DecodeEnd ==
  /\ Pending(Decodes)
  /\ DecodeAccepted
  /\ at >= Len(Text)
  /\ Return(TRUE, output)

(* The caller decodes what it has encoded, with just the room it needs.    *)
DecodeEncoded ==
  /\ Returned(Encodes) /\ result = "true"
  /\ CallNext([op |-> IF Scheme.digits = 4 THEN "base64_decode" ELSE "base32_decode",
               text |-> output, capacity |-> Len(Text), origin |-> Text])

CodecNext ==
  \/ EncodeRefused \/ EncodeGroup \/ EncodeEnd
  \/ DecodeRefused \/ DecodeGroup \/ DecodeEnd \/ DecodeEncoded

-----------------------------------------------------------------------------
DecodesEncoded == Returned(Decodes) /\ "origin" \in DOMAIN call

(* What was encoded is decoded to the same bytes, without room to spare.   *)
(* Base32 does not decode what it encodes of a last group of four bytes.   *)
(* No group is ever written past the room for it, not by an invalid text   *)
(* with padding in odd places either, and a text decodes to no more than   *)
(* _decoded_length_max promises.                                           *)
CodecRoundTrip ==
  /\ DecodesEncoded =>
       \/ result = "true" /\ output = call.origin
       \/ Scheme.digits = 8 /\ Len(call.origin) % 5 = 4 /\ result = "false"
  /\ call.op \in Encodes \cup Decodes =>
       /\ Len(output) <= call.capacity
       /\ call.op \in Decodes =>
            Len(output) <= (Len(Text) \div Scheme.digits) * Scheme.bytes

(* The same of base32 without exception, as the tests of the round trip    *)
(* state it.                                                               *)
Base32RoundTrip == DecodesEncoded => result = "true" /\ output = call.origin

-----------------------------------------------------------------------------
(* What the signatures say of a call; a text that was encoded is decoded   *)
(* with the room that the bytes it was made from take.                     *)
Octets == 0..255

CodecCall(c) ==
  /\ c.op \in Encodes => c.text \in Seq(Octets) /\ c.capacity \in Nat
  /\ c.op \in Decodes =>
       /\ c.text \in Seq(Nat) /\ c.capacity \in Nat
       /\ "origin" \in DOMAIN c => c.origin \in Seq(Octets) /\ c.capacity = Len(c.origin)

(* The first n groups of the bytes have been written, and no more.         *)
EncodesTo(written, bytes, n) ==
  /\ written \in Seq(Nat) /\ Len(written) = n * Scheme.digits
  /\ \A g \in 0..(n - 1) : \A k \in 1..Scheme.digits :
       written[g * Scheme.digits + k]
         = EncodedGroup(GroupAt(bytes, g * Scheme.bytes, Scheme.bytes))[k]

(* The inductive invariant: whole groups have been encoded, or decoded; an *)
(* encoded text is that of its origin, and as much of it has come back.    *)
InvEncode ==
  call.op \in Encodes =>
    /\ Len(output) <= call.capacity
    /\ result = "pending" =>
         \E g \in 0..Groups(Len(Text)) : at = g * Scheme.bytes /\ EncodesTo(output, Text, g)
    /\ result = "true" => EncodesTo(output, Text, Groups(Len(Text)))

InvDecode ==
  call.op \in Decodes =>
    /\ output \in Seq(Nat) /\ Len(output) <= call.capacity
    /\ Len(output) <= (Len(Text) \div Scheme.digits) * Scheme.bytes
    /\ result = "pending" =>
         \E g \in 0..Len(Text) :
           /\ at = g * Scheme.digits /\ at <= Len(Text)
           /\ g > 0 => DecodeAccepted
           /\ Len(output) = IF g > 0 /\ at = Len(Text)
                            THEN (g - 1) * Scheme.bytes + LastBytes ELSE g * Scheme.bytes
           /\ "origin" \in DOMAIN call => output = SubSeq(call.origin, 1, Len(output))
    /\ "origin" \in DOMAIN call => EncodesTo(Text, call.origin, Groups(Len(call.origin)))

InvCodec == InvEncode /\ InvDecode /\ CodecRoundTrip
=============================================================================
