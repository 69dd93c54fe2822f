-------------------------------- MODULE Time --------------------------------
(***************************************************************************)
(* bc_core_time.c: times of seconds and nanoseconds, sleeping, and the     *)
(* texts of ISO 8601.  The calendar is that of the C library: a text is    *)
(* modelled by the second it stands for and by its length, which depends   *)
(* on the digits of the year.                                              *)
(***************************************************************************)
EXTENDS Call

CONSTANTS
  MsPerSec,       \* BC_CORE_TIME_MILLISECONDS_PER_SECOND
  NsPerMs,        \* BC_CORE_TIME_NANOSECONDS_PER_MILLISECOND
  NsMax,          \* the largest int32_t: a little more than two seconds
  SecMax,         \* the largest int64_t
  CountMax,       \* the largest uint64_t
  FirstIso,       \* the first second of a year of four digits
  LastIso,        \* the last one
  CalendarMax,    \* the last second of a year that fits the C library's int
  Zone,           \* the local time less that of UTC, in seconds
  BufferSize      \* of the copy that parse_utc makes: 128

NsPerSec == MsPerSec * NsPerMs

ASSUME TimeAssumption ==
  /\ MsPerSec \in Nat \ {0} /\ NsPerMs \in Nat \ {0}
  /\ NsMax \in Nat /\ 2 * NsPerSec <= NsMax /\ NsMax < 3 * NsPerSec - 1
  /\ SecMax \in Nat /\ CountMax = 2 * SecMax + 1
  /\ FirstIso \in Int /\ LastIso \in Int /\ FirstIso <= LastIso
  /\ CalendarMax \in Nat /\ Zone \in (-CalendarMax)..CalendarMax
  /\ CalendarMax + Zone + 3 <= SecMax /\ CalendarMax - Zone + 3 <= SecMax
  /\ BufferSize \in Nat /\ 20 < BufferSize

(* Two's complement.                                                       *)
Wrap(n, max) == ((n + max + 1) % (2 * max + 2)) - (max + 1)

Total(t) == t.sec * NsPerSec + t.ns

-----------------------------------------------------------------------------
(* Arithmetic.                                                             *)

Carry(t) == [sec |-> Wrap(t.sec + t.ns \div NsPerSec, SecMax), ns |-> t.ns % NsPerSec]

(* A fault: what is borrowed is rounded down.                              *)
BorrowShort(t) ==
  LET seconds == (-t.ns) \div NsPerSec
  IN [sec |-> Wrap(t.sec - seconds, SecMax),
      ns  |-> Wrap(t.ns + Wrap(seconds * NsPerSec, NsMax), NsMax)]

(* Borrowing three seconds overflows 32 bits, in the product and again in  *)
(* the sum; the build computes both in two's complement.                   *)
Borrow(t) ==
  LET seconds == (-t.ns + (NsPerSec - 1)) \div NsPerSec
  IN [sec |-> Wrap(t.sec - seconds, SecMax),
      ns  |-> Wrap(t.ns + Wrap(seconds * NsPerSec, NsMax), NsMax)]

Normalized(t) ==
  IF t.ns >= NsPerSec THEN Carry(t) ELSE IF t.ns < 0 THEN Borrow(t) ELSE t

Sum(t, u, sign) ==
  Normalized([sec |-> Wrap(t.sec + sign * u.sec, SecMax), ns |-> Wrap(t.ns + sign * u.ns, NsMax)])

Order(t, u) ==
  IF t.sec < u.sec \/ (t.sec = u.sec /\ t.ns < u.ns) THEN -1 ELSE IF t = u THEN 0 ELSE 1

Normalize == Pending({"normalize"}) /\ Return(TRUE, Normalized(call.time))
Add       == Pending({"add"}) /\ Return(TRUE, Sum(call.time, call.other, 1))
Subtract  == Pending({"subtract"}) /\ Return(TRUE, Sum(call.time, call.other, -1))
Compare ==
  Pending({"compare_times"}) /\ Return(TRUE, Order(Normalized(call.time), Normalized(call.other)))

(* To units of which there are so many in a second, each so many ns long.  *)
ToUnits(perSec, length) ==
  LET t      == Normalized(call.time)
      scaled == (t.sec * perSec) % (CountMax + 1)
      part   == t.ns \div length
  IN IF t.sec < 0 \/ t.sec > CountMax \div perSec \/ CountMax - scaled < part
     THEN Return(FALSE, output)
     ELSE Return(TRUE, scaled + part)

ToNanoseconds  == Pending({"to_nanoseconds"}) /\ ToUnits(NsPerSec, 1)
ToMilliseconds == Pending({"to_milliseconds"}) /\ ToUnits(MsPerSec, NsPerMs)

FromUnits(n, perSec, length) == [sec |-> n \div perSec, ns |-> (n % perSec) * length]

FromNanoseconds  == Pending({"from_nanoseconds"}) /\ Return(TRUE, FromUnits(call.count, NsPerSec, 1))
FromMilliseconds ==
  Pending({"from_milliseconds"}) /\ Return(TRUE, FromUnits(call.count, MsPerSec, NsPerMs))

-----------------------------------------------------------------------------
(* Sleeping: output is the time still requested, at what has passed.       *)
Sleeps == {"sleep_nanoseconds", "sleep_milliseconds"}

Asleep == Pending(Sleeps) /\ output # <<>>

StartSleep ==
  /\ Pending(Sleeps)
  /\ output = <<>>
  /\ Go(0, << IF call.op = "sleep_nanoseconds"
              THEN FromUnits(call.count, NsPerSec, 1)
              ELSE FromUnits(call.count, MsPerSec, NsPerMs) >>)

(* nanosleep(2) sleeps as long as it was requested to,                     *)
SleepWhole ==
  /\ Asleep
  /\ result' = "true"
  /\ at' = at + Total(output[1])
  /\ UNCHANGED <<call, output>>

(* A fault: an interrupted sleep is started again from its beginning.      *)
RemainingAll(requested, passed) == requested

Remaining(requested, passed) == FromUnits(Total(requested) - passed, NsPerSec, 1)

(* or is interrupted after a part of it and says what remains,             *)
SleepInterrupted ==
  /\ Asleep
  /\ call.signals > 0
  /\ \E passed \in 0..Total(output[1]) :
       /\ at' = at + passed
       /\ output' = << Remaining(output[1], passed) >>
  /\ call' = [call EXCEPT !.signals = @ - 1]
  /\ UNCHANGED result

(* or fails, for another reason than a signal.                             *)
SleepFailed ==
  /\ Asleep
  /\ Return(FALSE, output)

-----------------------------------------------------------------------------
(* Texts of the form %Y-%m-%dT%H:%M:%SZ, with some characters after them.  *)

(* The years modelled have three digits, four or five.                     *)
IsoLength(second) == IF second < FirstIso THEN 19 ELSE IF second <= LastIso THEN 20 ELSE 21

IsoOf(second) == [second |-> second, length |-> IsoLength(second), tail |-> 0]

(* gmtime_r has no year for some times, and strftime writes its 0 as well. *)
Formatted(zone) ==
  LET second == Normalized(call.time).sec + zone
  IN IF second \notin (-CalendarMax)..CalendarMax \/ IsoLength(second) + 1 > call.capacity
     THEN Return(FALSE, output)
     ELSE Return(TRUE, IsoOf(second))

FormatIso   == Pending({"format_iso"}) /\ Formatted(0)
FormatUtc   == Pending({"format_utc"}) /\ Formatted(0)
FormatLocal == Pending({"format_local"}) /\ Formatted(Zone)

(* A fault: an error of timegm is taken for a time.                        *)
TimegmAny(second) == TRUE

(* The answer -1 of timegm is taken for an error.                          *)
Timegm(second) == second # -1

Parsed(consumed) ==
  LET second == call.iso.second
  IN IF Timegm(second)
     THEN Return(TRUE, [sec |-> second, ns |-> 0, consumed |-> consumed])
     ELSE Return(FALSE, output)

(* The text must end at its twentieth character, whatever follows it.      *)
ParseIso ==
  /\ Pending({"parse_iso"})
  /\ IF call.iso.length = 20 THEN Parsed(20) ELSE Return(FALSE, output)

(* The whole text is copied into a buffer; strptime, which reads years of  *)
(* up to four digits, stops behind the time.                               *)
ParseUtc ==
  /\ Pending({"parse_utc"})
  /\ IF call.iso.length + call.iso.tail < BufferSize /\ call.iso.length <= 20
     THEN Parsed(call.iso.length)
     ELSE Return(FALSE, output)

(* The caller parses what it has formatted.                                *)
ParseFormattedTime ==
  /\ Returned({"format_iso", "format_utc", "format_local"}) /\ result = "true"
  /\ CallNext([op |-> IF call.op = "format_iso" THEN "parse_iso" ELSE "parse_utc",
               iso |-> output,
               origin |-> Total(call.time) \div NsPerSec
                            + (IF call.op = "format_local" THEN Zone ELSE 0)])

TimeNext ==
  \/ Normalize \/ Add \/ Subtract \/ Compare
  \/ ToNanoseconds \/ ToMilliseconds \/ FromNanoseconds \/ FromMilliseconds
  \/ StartSleep \/ SleepWhole \/ SleepInterrupted \/ SleepFailed
  \/ FormatIso \/ FormatUtc \/ FormatLocal \/ ParseIso \/ ParseUtc \/ ParseFormattedTime

-----------------------------------------------------------------------------
Sign(n) == IF n < 0 THEN -1 ELSE IF n = 0 THEN 0 ELSE 1

(* A call whose result in seconds does not fit is outside of what the      *)
(* functions promise.                                                      *)
SecondsFit(total) == total \div NsPerSec \in (-(SecMax + 1))..SecMax

NormalTime(t) == t.ns \in 0..(NsPerSec - 1)

Exactly(total) == output = [sec |-> total \div NsPerSec, ns |-> total % NsPerSec]

(* Times are calculated with as the numbers they stand for: normalizing    *)
(* keeps the number, even of the smallest nanoseconds of 32 bits, sums and *)
(* differences of normal times are exact, the order is that of the numbers,*)
(* and a conversion is exact or refused because it does not fit.           *)
TimeIsExact ==
  /\ Returned({"normalize"}) /\ SecondsFit(Total(call.time)) => Exactly(Total(call.time))
  /\ Returned({"add", "subtract"}) /\ NormalTime(call.time) /\ NormalTime(call.other) =>
       LET total == IF call.op = "add" THEN Total(call.time) + Total(call.other)
                                       ELSE Total(call.time) - Total(call.other)
       IN SecondsFit(total) => Exactly(total)
  /\ Returned({"compare_times"}) /\ SecondsFit(Total(call.time)) /\ SecondsFit(Total(call.other)) =>
       output = Sign(Total(call.time) - Total(call.other))
  /\ Returned({"to_nanoseconds", "to_milliseconds"}) /\ SecondsFit(Total(call.time)) =>
       LET n == IF call.op = "to_nanoseconds" THEN Total(call.time)
                                              ELSE Total(call.time) \div NsPerMs
       IN IF n \in 0..CountMax THEN result = "true" /\ output = n ELSE result = "false"
  /\ Returned({"from_nanoseconds"}) => Exactly(call.count)
  /\ Returned({"from_milliseconds"}) => Exactly(call.count * NsPerMs)

(* A sleep that reports success has lasted exactly as long as requested:   *)
(* no interruption shortens it, and none makes it start again.             *)
SleptAsRequested ==
  call.op \in Sleeps =>
    LET requested == IF call.op = "sleep_nanoseconds" THEN call.count ELSE call.count * NsPerMs
    IN at <= requested /\ (result = "true" => at = requested)

(* A time formatted is parsed to its second, rounded down, if its year has *)
(* four digits or the pattern does not fix the length, but for the last    *)
(* second of 1969.                                                         *)
TimeReadsBack ==
  Returned({"parse_iso", "parse_utc"}) /\ "origin" \in DOMAIN call =>
    IF call.origin = -1 \/ call.origin > LastIso
         \/ (call.op = "parse_iso" /\ call.origin < FirstIso)
    THEN result = "false"
    ELSE result = "true" /\ output = [sec |-> call.origin, ns |-> 0,
                                      consumed |-> IsoLength(call.origin)]

-----------------------------------------------------------------------------
(* What the signatures say of a call: the fields of a time have 64 and 32  *)
(* bits; a text that was formatted is handed on as it is.                  *)
Timespec == [sec : (-(SecMax + 1))..SecMax, ns : (-(NsMax + 1))..NsMax]

Pairwise == {"add", "subtract", "compare_times"}
Formats  == {"format_iso", "format_utc", "format_local"}
Readings == {"parse_iso", "parse_utc"}
OfTime   == {"normalize", "to_nanoseconds", "to_milliseconds"} \cup Pairwise \cup Formats
OfCount  == {"from_nanoseconds", "from_milliseconds"} \cup Sleeps

TimeCall(c) ==
  /\ c.op \in OfTime => c.time \in Timespec
  /\ c.op \in Pairwise => c.other \in Timespec
  /\ c.op \in OfCount => c.count \in 0..CountMax
  /\ c.op \in Sleeps => c \in [op : Sleeps, count : 0..CountMax, signals : Nat]
  /\ c.op \in Readings /\ "origin" \in DOMAIN c => c.origin \in Int /\ c.iso = IsoOf(c.origin)

(* The inductive invariant: what has passed of a sleep and what is still   *)
(* requested of it make up the request.                                    *)
Requested == IF call.op = "sleep_nanoseconds" THEN call.count ELSE call.count * NsPerMs

InvSleep ==
  call.op \in Sleeps =>
    /\ at \in 0..Requested
    /\ result = "true" => at = Requested
    /\ result = "pending" =>
         \/ output = <<>> /\ at = 0
         \/ /\ output # <<>> /\ output[1] \in [sec : Nat, ns : Nat]
            /\ Total(output[1]) = Requested - at

InvFormatted ==
  Returned(Formats) /\ result = "true" =>
    output = IsoOf(Total(call.time) \div NsPerSec + (IF call.op = "format_local" THEN Zone ELSE 0))

InvTime == InvSleep /\ InvFormatted /\ TimeIsExact /\ TimeReadsBack
=============================================================================
