------------------------------ MODULE Numbers -------------------------------
(***************************************************************************)
(* bc_core_format.c and bc_core_parse.c: numbers written as characters and *)
(* read again.  A character is the value of a digit or one of the numbers  *)
(* below.  Integers and doubles are narrower than those of the code.       *)
(***************************************************************************)
EXTENDS Call, SequencesExt

CONSTANTS
  UnsignedMax,   \* UINT64_MAX
  SignedMax,     \* INT64_MAX
  Precision,     \* the bits that count in a double: 53
  Places,        \* the smallest double is 2 ^ -Places: 1074
  HexDigits,     \* the hexadecimal digits of the widest number: 16
  FractionMax,   \* the digits a fraction may have: 18
  Kilo,          \* the bytes of the next larger unit: 1024
  Milli          \* the nanoseconds of the next larger unit: 1000

ASSUME NumbersAssumption ==
  /\ SignedMax \in Nat /\ UnsignedMax = 2 * SignedMax + 1
  /\ HexDigits \in Nat /\ FractionMax \in Nat
  /\ Precision \in Nat /\ Precision >= 3 /\ Places \in Nat /\ Places >= Precision
  /\ Kilo \in Nat /\ Kilo > 1 /\ Milli \in Nat /\ Milli > 1

Minus == 20  Plus == 21  Point == 22  Blank == 23  Other == 24  Escape == 25  Letter == 26
Unit(k) == 30 + k   \* the first letter of a unit

(* The digits of a number, the last first in scratch, then reversed.       *)
Digits(value, base) ==
  LET digits[v \in 0..value] ==
        IF v < base THEN <<v>> ELSE Append(digits[v \div base], v % base)
  IN digits[value]

(* The value of a sequence of digits.                                      *)
ValueOf(digits, base) ==
  LET value[n \in 0..Len(digits)] == IF n = 0 THEN 0 ELSE value[n - 1] * base + digits[n]
  IN value[Len(digits)]

Arg == call.value

Abs(v) == IF v < 0 THEN -v ELSE v

(* Every conversion counts its characters before or while it writes them.  *)
Write(text) ==
  IF Len(text) <= call.capacity THEN Return(TRUE, text) ELSE Return(FALSE, output)

-----------------------------------------------------------------------------
(* Formatting.                                                             *)

FormatUnsigned == Pending({"unsigned"}) /\ Write(Digits(Arg, 10))

FormatHex == Pending({"hex"}) /\ Write(Digits(Arg, 16))

(* The digits above those requested are cut off.                           *)
LastDigits(value, n, base) == [k \in 1..n |-> (value \div Power(base, n - k)) % base]

FormatHexPadded ==
  /\ Pending({"hex_padded"})
  /\ IF call.digits \in 1..HexDigits
     THEN Write(LastDigits(Arg, call.digits, 16))
     ELSE Return(FALSE, output)

(* The magnitude of the smallest number is one more than SignedMax.        *)
Spelled(n) == IF n >= 0 THEN Digits(n, 10) ELSE <<Minus>> \o Digits(-n, 10)

FormatSigned == Pending({"signed"}) /\ Write(Spelled(Arg))

-----------------------------------------------------------------------------
(* Doubles.  A double is so many times the smallest one, and 1 is One of   *)
(* them.  There is no largest: the code refuses what comes near it.        *)
One     == Power(2, Places)
OneHalf == Power(2, Places - 1)

(* The distance of doubles at n / d: it doubles with each further bit.     *)
Spacing(n, d) ==
  LET space[m \in 0..(n \div d)] == IF m < Power(2, Precision) THEN 1 ELSE 2 * space[m \div 2]
  IN space[n \div d]

(* The double nearest to n / d, the even one if there are two.             *)
Rounded(n, d) ==
  LET space == Spacing(n, d)
      below == n \div (d * space)
      rest  == n % (d * space)
      up    == 2 * rest > d * space \/ (2 * rest = d * space /\ below % 2 = 1)
  IN space * IF up THEN below + 1 ELSE below

IsDouble(n) == Rounded(n, 1) = n

(* The powers that the code multiplies up, and the steps it divides by,    *)
(* are doubles: only what follows is rounded.                              *)
ASSUME DoublesAssumption ==
  /\ \A n \in 0..FractionMax : IsDouble(Power(10, n))
  /\ \A k \in 0..3 : IsDouble(Power(Milli, k))
  /\ \E k \in 0..Kilo : Kilo = Power(2, k)

(* An integer as a double, and its quotient by a number of units.          *)
Display(value, unit) == Rounded(Rounded(value, 1) * One, unit)

(* magnitude * scale + 0.5: the compiler may round the product first, or   *)
(* only the sum.                                                           *)
Sums(display, scale) ==
  {Rounded(product + OneHalf, 1) : product \in {display * scale, Rounded(display * scale, 1)}}

(* A fault: the fraction loses its leading zeros.                          *)
DecimalTextBare(scaled, fraction) ==
  LET scale == Power(10, fraction)
  IN Digits(scaled \div scale, 10)
       \o IF fraction = 0 THEN <<>> ELSE <<Point>> \o Digits(scaled % scale, 10)

DecimalText(scaled, fraction) ==
  LET scale == Power(10, fraction)
  IN Digits(scaled \div scale, 10)
       \o IF fraction = 0 THEN <<>> ELSE <<Point>> \o LastDigits(scaled, fraction, 10)

(* A double between a sign and a unit; what is cut off the sum rounds the  *)
(* digits.                                                                 *)
WriteDouble(sign, display, fraction, unit) ==
  \E sum \in Sums(display, Power(10, fraction)) :
    IF sum >= Rounded(UnsignedMax * One, 1) THEN Return(FALSE, output)
    ELSE Write(sign \o (DecimalText(sum \div One, fraction) \o unit))

(* bc_core_format_double; the sign is kept for a zero.  An infinity and    *)
(* what is not a number are words of three letters.                        *)
FormatDouble ==
  /\ Pending({"double"})
  /\ LET sign == IF call.negative THEN <<Minus>> ELSE <<>>
     IN IF call.fraction \notin 0..FractionMax THEN Return(FALSE, output)
        ELSE IF call.kind = "nan" THEN Write(<<Letter, Letter, Letter>>)
        ELSE IF call.kind = "inf" THEN Write(sign \o <<Letter, Letter, Letter>>)
        ELSE WriteDouble(sign, Arg, call.fraction, <<>>)

(* The number of the unit: the largest one that the value reaches.         *)
UnitOf(value, step, last) ==
  CHOOSE k \in 0..last :
    /\ k > 0 => value >= Power(step, k)
    /\ k < last => value < Power(step, k + 1)

(* More digits are shown of smaller numbers, at most the given ones.       *)
FractionOf(display, k, most) ==
  IF k = 0 THEN 0
  ELSE IF display >= 100 * One THEN most - 2
  ELSE IF display >= 10 * One THEN most - 1
  ELSE most

(* The unit of a size is that of the double, of a duration of the integer. *)
FormatHuman ==
  /\ Pending({"human"})
  /\ LET k       == UnitOf(Rounded(Arg, 1), Kilo, 6)
         display == Display(Arg, Power(Kilo, k))
     IN WriteDouble(<<>>, display, FractionOf(display, k, 2),
                    <<Blank, Unit(k)>> \o IF k = 0 THEN <<>> ELSE <<Letter>>)

FormatDuration ==
  /\ Pending({"duration"})
  /\ LET k       == UnitOf(Arg, Milli, 3)
         display == Display(Arg, Power(Milli, k))
     IN WriteDouble(<<>>, display, FractionOf(display, k, 3),
                    <<Unit(k)>> \o IF k = 3 THEN <<>> ELSE <<Letter>>)

FourHex(value) == LastDigits(value, 4, 16)

(* A code point outside the basic plane takes a pair of surrogates, which  *)
(* are no code points themselves.                                          *)
LastCodePoint == 1114111
LastBasic     == 65535
HighSurrogate == 55296
LowSurrogate  == 56320
Surrogates    == HighSurrogate..(LowSurrogate + 1023)

FormatEscape ==
  /\ Pending({"escape"})
  /\ IF Arg > LastCodePoint \/ Arg \in Surrogates THEN Return(FALSE, output)
     ELSE IF Arg <= LastBasic THEN Write(<<Escape, Letter>> \o FourHex(Arg))
     ELSE LET adjusted == Arg - (LastBasic + 1)
          IN Write(<<Escape, Letter>> \o FourHex(((adjusted \div 1024) % 1024) + HighSurrogate)
                     \o <<Escape, Letter>> \o FourHex((adjusted % 1024) + LowSurrogate))

-----------------------------------------------------------------------------
(* Parsing.                                                                *)

IsDigit(c) == c \in 0..9

(* A fault: the last digit is not counted when overflow is looked for.     *)
OverflowsLate(value, digit) == value > UnsignedMax \div 10

Overflows(value, digit) == value > (UnsignedMax - digit) \div 10

Failed == Return(FALSE, [value |-> 0, consumed |-> 0])

(* The value so far, from the character after a sign on.                   *)
Value  == IF output = <<>> THEN 0 ELSE output[1]
Prefix ==
  IF call.op = "parse_signed" /\ call.text # <<>> /\ Head(call.text) \in {Minus, Plus}
  THEN 1 ELSE 0

ParseNothing ==
  /\ Pending({"parse_unsigned", "parse_signed"})
  /\ call.text = <<>> \/ Prefix = Len(call.text)
  /\ Failed

NextDigit == call.text[Prefix + at + 1]

MoreDigits == Prefix + at < Len(call.text) /\ IsDigit(NextDigit)

ParseDigit ==
  /\ Pending({"parse_unsigned", "parse_signed"})
  /\ MoreDigits
  /\ IF Overflows(Value, NextDigit) THEN Failed
     ELSE Go(at + 1, <<(Value * 10 + NextDigit) % (UnsignedMax + 1)>>)

ParseUnsignedEnd ==
  /\ Pending({"parse_unsigned"})
  /\ call.text # <<>> /\ ~MoreDigits
  /\ IF at = 0 THEN Failed ELSE Return(TRUE, [value |-> Value, consumed |-> at])

ParseSignedEnd ==
  /\ Pending({"parse_signed"})
  /\ call.text # <<>> /\ Prefix < Len(call.text) /\ ~MoreDigits
  /\ LET negative == Head(call.text) = Minus
     IN IF at = 0 \/ Value > (IF negative THEN SignedMax + 1 ELSE SignedMax)
        THEN Failed
        ELSE Return(TRUE, [value |-> IF negative THEN -Value ELSE Value,
                           consumed |-> Prefix + at])

(* The caller parses the number it has formatted.                          *)
ParseFormatted ==
  /\ Returned({"unsigned", "signed"}) /\ result = "true"
  /\ CallNext([op |-> IF call.op = "unsigned" THEN "parse_unsigned" ELSE "parse_signed",
               text |-> output, origin |-> Arg])

NumberNext ==
  \/ FormatUnsigned \/ FormatHex \/ FormatHexPadded \/ FormatSigned \/ FormatDouble
  \/ FormatHuman \/ FormatDuration \/ FormatEscape
  \/ ParseNothing \/ ParseDigit \/ ParseUnsignedEnd \/ ParseSignedEnd \/ ParseFormatted

-----------------------------------------------------------------------------
(* What a reader makes of the digits before and after the point.           *)
DigitsIn(chars) ==
  LET digits[n \in 0..Len(chars)] ==
        IF n = 0 THEN <<>>
        ELSE IF IsDigit(chars[n]) THEN Append(digits[n - 1], chars[n]) ELSE digits[n - 1]
  IN digits[Len(chars)]

FractionIn(chars) ==
  LET points == {k \in DOMAIN chars : chars[k] = Point}
  IN IF points = {} THEN 0
     ELSE Len(DigitsIn(SubSeq(chars, CHOOSE k \in points : TRUE, Len(chars))))

(* How far the number shown is from value / unit, in halves of its last    *)
(* digit and of a unit.                                                    *)
Off(chars, value, unit) ==
  2 * Abs(ValueOf(DigitsIn(chars), 10) * unit - value * Power(10, FractionIn(chars)))

(* It is as near as so many digits allow, but for four roundings, which    *)
(* make less than five of the parts that Precision bits tell apart.        *)
Near(chars, value, unit) ==
  Off(chars, value, unit) <=
    unit + (5 * (2 * value * Power(10, FractionIn(chars)) + unit)) \div Power(2, Precision)

(* No number is nearer that has so many digits.                            *)
Nearest(chars, value, unit) == Off(chars, value, unit) <= unit

(* None of the numbers on the way to so many digits has to be rounded.     *)
Exact(display, fraction) ==
  LET scaled == display * Power(10, fraction)
  IN IsDouble(scaled) /\ IsDouble(scaled + OneHalf)

ExactIn(value, unit, fraction) ==
  LET display == (value * One) \div unit
  IN /\ IsDouble(value) /\ display * unit = value * One /\ IsDouble(display)
     /\ Exact(display, fraction)

ReadsAs(chars, value, unit) ==
  /\ Near(chars, value, unit)
  /\ ExactIn(value, unit, FractionIn(chars)) => Nearest(chars, value, unit)

UnitIn(chars, step) == Power(step, CHOOSE k \in 0..6 : \E n \in DOMAIN chars : chars[n] = Unit(k))

(* The code points that a text of escapes stands for.                      *)
HexIn(chars, first) == ValueOf(SubSeq(chars, first, first + 3), 16)

CodePointIn(chars) ==
  IF Len(chars) = 6 THEN HexIn(chars, 3)
  ELSE 65536 + (HexIn(chars, 3) - 55296) * 1024 + (HexIn(chars, 9) - 56320)

(* An integer that was formatted is parsed to the same value.              *)
IntegersReadBack ==
  Returned({"parse_unsigned", "parse_signed"}) /\ "origin" \in DOMAIN call =>
    result = "true" /\ output = [value |-> call.origin, consumed |-> Len(call.text)]

(* Hexadecimal digits have the value, as far as they were requested; a     *)
(* double, a size and a duration are within half of the last digit shown,  *)
(* in the unit shown, and the rounding of doubles, and the nearest where   *)
(* nothing is rounded; an escape stands for its code point; and no text is *)
(* longer than the room for it.                                            *)
TextReads ==
  call.op \in {"hex", "hex_padded", "double", "human", "duration", "escape"}
    /\ result = "true" =>
    /\ Len(output) <= call.capacity
    /\ call.op = "hex" => ValueOf(output, 16) = Arg
    /\ call.op = "hex_padded" =>
         ValueOf(output, 16) = Arg % Power(16, call.digits) /\ Len(output) = call.digits
    /\ call.op = "double" /\ call.kind = "finite" =>
         /\ Near(output, Arg, One)
         /\ Exact(Arg, call.fraction) => Nearest(output, Arg, One)
    /\ call.op = "human" => ReadsAs(output, Arg, UnitIn(output, Kilo))
    /\ call.op = "duration" => ReadsAs(output, Arg, UnitIn(output, Milli))
    /\ call.op = "escape" => CodePointIn(output) = Arg

(* What is formatted can be read again: an integer is parsed to the same   *)
(* value, and every other text says what TextReads says of it.             *)
FormattedReads == IntegersReadBack /\ TextReads

(* The digits that a number to be parsed begins with, after its sign.      *)
LeadingDigits ==
  LET start  == Prefix + 1
      ends   == {n \in Prefix..Len(call.text) : \A k \in start..n : IsDigit(call.text[k])}
  IN SubSeq(call.text, start, CHOOSE n \in ends : \A m \in ends : m <= n)

(* A number is parsed to its value, of however many digits, and refused,   *)
(* with a value of 0, if and only if it has no digits or does not fit its  *)
(* type; no product or sum wraps around on the way.                        *)
ParsedIsValue ==
  Returned({"parse_unsigned", "parse_signed"}) =>
    LET negative == Prefix = 1 /\ Head(call.text) = Minus
        value    == ValueOf(LeadingDigits, 10)
        largest  == IF call.op = "parse_unsigned" THEN UnsignedMax
                    ELSE IF negative THEN SignedMax + 1 ELSE SignedMax
    IN IF LeadingDigits = <<>> \/ value > largest
       THEN result = "false" /\ output = [value |-> 0, consumed |-> 0]
       ELSE /\ result = "true"
            /\ output = [value |-> IF negative THEN -value ELSE value,
                         consumed |-> Prefix + Len(LeadingDigits)]

-----------------------------------------------------------------------------
(* What the signatures say of a call: integers have their width; a text    *)
(* that was formatted is handed on as it is.                               *)
Parses == {"parse_unsigned", "parse_signed"}

UnsignedIntegers == 0..UnsignedMax
SignedIntegers == (-(SignedMax + 1))..SignedMax

NumberCall(c) ==
  /\ c.op = "unsigned" => c.value \in UnsignedIntegers
  /\ c.op = "signed" => c.value \in SignedIntegers
  /\ c.op \in Parses =>
       /\ c.text \in Seq(Nat)
       /\ "origin" \in DOMAIN c =>
            /\ c.text = Spelled(c.origin)
            /\ c.origin \in (IF c.op = "parse_unsigned" THEN UnsignedIntegers ELSE SignedIntegers)
  /\ c.op \in {"hex", "hex_padded", "human", "duration", "escape"} => c.value \in Nat
  /\ c.op = "double" /\ c.kind = "finite" => c.value \in Nat /\ IsDouble(c.value)

(* The inductive invariant: a number written is spelled, and the value so  *)
(* far is that of the digits passed, all of which it had room for.         *)
InvWritten == Returned({"unsigned", "signed"}) /\ result = "true" => output = Spelled(Arg)

DigitsPassed == SubSeq(call.text, Prefix + 1, Prefix + at)

InvParse ==
  Pending(Parses) =>
    /\ at \in 0..(Len(call.text) - Prefix)
    /\ \A k \in (Prefix + 1)..(Prefix + at) : IsDigit(call.text[k])
    /\ Value = ValueOf(DigitsPassed, 10) /\ Value \in UnsignedIntegers

InvNumbers == InvWritten /\ InvParse /\ ParsedIsValue /\ FormattedReads
=============================================================================
