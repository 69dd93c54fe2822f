------------------------------- MODULE Crc32c -------------------------------
(***************************************************************************)
(* bc_core_crc32c and bc_core_crc32c_update.  A register is the set of its *)
(* bits that are 1, a polynomial over two elements the set of its          *)
(* exponents; exclusive or is the symmetric difference of either.  Bit 0   *)
(* of the register of a checksum is its highest coefficient.  Three        *)
(* streams of the code have 1024 bytes each, here 2 ^ StreamLog.           *)
(***************************************************************************)
EXTENDS Call, FiniteSetsExt, SequencesExt

CONSTANT StreamLog

Stream == Power(2, StreamLog)

Crcs == {"crc32c", "crc32c_update"}

Shift(a, n)    == {e + n : e \in a}
LowBits(a, n)  == {e \in a : e < n}
HighBits(a, n) == {e - n : e \in {f \in a : f >= n}}
Inverted(r)    == (0..31) \ r

(* The bits of a number given by its hexadecimal digits.                   *)
Bits(hex) ==
  {b \in 0..(4 * Len(hex) - 1) :
     (hex[Len(hex) - (b \div 4)] \div 2 ^ (b % 4)) % 2 = 1}

PolynomialP == Bits(<<1, 1, 14, 13, 12, 6, 15, 4, 1>>)   \* BC_CRC32C_PCLMUL_P_NORMAL
Mu          == Bits(<<1, 1, 15, 9, 1, 12, 10, 15, 6>>)   \* BC_CRC32C_PCLMUL_MU

(* Long division by P of a polynomial of a degree of at most n, after so   *)
(* many of its coefficients.                                               *)
Cancelled(r, e) == IF e \in r THEN SymDiff(r, Shift(PolynomialP, e - 32)) ELSE r

Remainder(a, n) ==
  LET divided[m \in 0..(n - 31)] ==
        IF m = 0 THEN a ELSE Cancelled(divided[m - 1], (n - m) + 1)
  IN divided[n - 31]

(* x ^ (2 ^ n) modulo P: squaring doubles the exponents.                   *)
PowerOfX(n) ==
  LET power[k \in 0..n] == IF k = 0 THEN {1} ELSE Remainder({2 * e : e \in power[k - 1]}, 62)
  IN power[n]

(* A register is multiplied by these to let it pass two streams, or one.   *)
K1 == PowerOfX(StreamLog + 4)
K2 == PowerOfX(StreamLog + 3)

(* With streams of 1024 bytes they are the constants of the code.          *)
ASSUME KeysAssumption ==
  /\ StreamLog \in Nat
  /\ PowerOfX(14) = Bits(<<5, 4, 6, 14, 10, 6, 11, 0>>)   \* BC_CRC32C_PCLMUL_K1
  /\ PowerOfX(13) = Bits(<<6, 8, 13, 4, 14, 8, 2, 7>>)    \* BC_CRC32C_PCLMUL_K2

(* The product of two polynomials, of which the code takes the lower half. *)
Clmul(a, b) ==
  {e \in 0..63 : Cardinality({i \in a : e - i \in b}) % 2 = 1}

(* The constants of the reduction: P is of degree 32, and Mu is the        *)
(* quotient of x ^ 64 by it.                                               *)
ASSUME ReductionAssumption ==
  /\ PolynomialP \subseteq 0..32 /\ 32 \in PolynomialP
  /\ Mu \subseteq 0..32 /\ 32 \in Mu
  /\ Clmul(Mu, PolynomialP) \subseteq 0..31

-----------------------------------------------------------------------------
(* The instructions: a register that takes in bytes, whose lowest bits     *)
(* come first.                                                             *)
Reversed(r) == {31 - b : b \in r}

TakeBit(r) ==
  IF 0 \in r THEN SymDiff(HighBits(r, 1), Reversed(LowBits(PolynomialP, 32))) ELSE HighBits(r, 1)

TakeByte(register, byte) ==
  LET taken[n \in 0..8] ==
        IF n = 0 THEN SymDiff(register, byte) ELSE TakeBit(taken[n - 1])
  IN taken[8]

(* The register that follows each, once a byte is taken in.                *)
Following(byte) == [register \in SUBSET (0..31) |-> TakeByte(register, byte)]

Taken(register, bytes) ==
  LET taken[n \in 0..Len(bytes)] ==
        IF n = 0 THEN register ELSE Following(bytes[n])[taken[n - 1]]
  IN taken[Len(bytes)]

(* bc_core_barrett_reduce: a modulo P, of a product of two registers.      *)
BarrettReduced(a) ==
  LET quotient == HighBits(Clmul(HighBits(a, 32), Mu), 32)
  IN SymDiff(LowBits(a, 32), LowBits(Clmul(quotient, PolynomialP), 32))

(* A fault: the streams are combined in the wrong order.                   *)
CombinedSwapped(r0, r1, r2) ==
  LET product == SymDiff(Clmul(Reversed(r0), K2), Clmul(Reversed(r1), K1))
  IN SymDiff(Reversed(BarrettReduced(product)), r2)

(* The registers of three streams, each of which follows the one before.   *)
Combined(r0, r1, r2) ==
  LET product == SymDiff(Clmul(Reversed(r0), K1), Clmul(Reversed(r1), K2))
  IN SymDiff(Reversed(BarrettReduced(product)), r2)

-----------------------------------------------------------------------------
Data == call.data
Rest == Len(Data) - at

(* bc_core_crc32c_dispatch_init.                                           *)
Level ==
  IF ~call.features.sse42 THEN "none" ELSE IF call.features.pclmul THEN "pclmul" ELSE "sse42"

(* The register: at first the inverse of the checksum of what precedes.    *)
Register ==
  IF output # <<>> THEN output[1]
  ELSE Inverted(IF call.op = "crc32c" THEN {} ELSE call.prev)

(* The next bytes of a stream, from some bytes ahead on.                   *)
Bytes(ahead, n) == SubSeq(Data, at + ahead + 1, at + ahead + n)

CrcOfNothing ==
  /\ Pending(Crcs)
  /\ Data = <<>>
  /\ Return(TRUE, << IF call.op = "crc32c" THEN {} ELSE call.prev >>)

CrcUnsupported ==
  /\ Pending(Crcs)
  /\ Data # <<>> /\ Level = "none"
  /\ Return(FALSE, output)

(* The long input is left to the multiplication only as long as three      *)
(* streams can be filled; the rest is handed on with the register.         *)
ByStreams == Level = "pclmul" /\ Rest >= 3 * Stream

PclmulStep ==
  /\ Pending(Crcs)
  /\ ByStreams
  /\ Go(at + 3 * Stream,
        << Combined(Taken(Register, Bytes(0, Stream)),
                    Taken({}, Bytes(Stream, Stream)),
                    Taken({}, Bytes(2 * Stream, Stream))) >>)

Sse42Step ==
  /\ Pending(Crcs)
  /\ Level # "none" /\ ~ByStreams
  /\ Rest > 0
  /\ LET step == IF Rest >= 32 THEN 32 ELSE IF Rest >= 8 THEN 8 ELSE 1
     IN Go(at + step, << Taken(Register, Bytes(0, step)) >>)

CrcEnd ==
  /\ Pending(Crcs)
  /\ Data # <<>> /\ Level # "none"
  /\ Rest = 0
  /\ Return(TRUE, << Inverted(Register) >>)

(* The caller continues a checksum with the next piece of the message.     *)
CrcNextPiece ==
  /\ Returned(Crcs) /\ result = "true"
  /\ call.pieces # <<>>
  /\ CallNext([call EXCEPT !.op = "crc32c_update", !.prev = output[1],
                           !.data = Head(call.pieces), !.pieces = Tail(call.pieces),
                           !.before = call.before \o Data])

CrcNext ==
  \/ CrcOfNothing \/ CrcUnsupported \/ PclmulStep \/ Sse42Step \/ CrcEnd \/ CrcNextPiece

-----------------------------------------------------------------------------
(* The remainder that follows each, for a message that has one byte more.  *)
Extended(byte) ==
  [rest \in SUBSET (0..31) |-> Remainder(SymDiff(Shift(rest, 8), {39 - b : b \in byte}), 39)]

(* The checksum by its definition: the message and 32 zeros, its first 32  *)
(* bits inverted, modulo P; the remainder is reversed and inverted.        *)
CrcOf(message) ==
  LET rest[n \in 0..Len(message)] ==
        IF n = 0 THEN 0..31 ELSE Extended(message[n])[rest[n - 1]]
  IN Inverted(Reversed(rest[Len(message)]))

(* However the message is cut into pieces, and whichever instructions take *)
(* its bytes, by three streams at once, by words or one by one, the result *)
(* is the checksum of the whole message; nothing is made up without the    *)
(* instructions.                                                           *)
CrcIsOfMessage ==
  Returned(Crcs) =>
    IF Data # <<>> /\ Level = "none" THEN result = "false"
    ELSE result = "true" /\ output = << CrcOf(call.before \o Data) >>

-----------------------------------------------------------------------------
(* What a caller passes: bytes, and what the pieces before them gave.      *)
Octet == SUBSET (0..7)

CrcCall(c) ==
  c.op \in Crcs =>
    /\ {"op", "prev", "data", "before", "pieces"} \subseteq DOMAIN c
    /\ c.data \in Seq(Octet) /\ c.before \in Seq(Octet) /\ c.pieces \in Seq(Seq(Octet))
    /\ IF c.op = "crc32c" THEN c.before = <<>> ELSE c.prev = CrcOf(c.before)

(* While the code runs, the register has taken in the message so far.      *)
InvRegister ==
  Pending(Crcs) =>
    /\ at \in 0..Len(Data) /\ (output = <<>> => at = 0)
    /\ Register = Taken(0..31, call.before \o SubSeq(Data, 1, at))

InvCrc == InvRegister /\ CrcIsOfMessage
=============================================================================
