--------------------------- MODULE MCConversions ----------------------------
(***************************************************************************)
(* Arguments on either side of every boundary of the functions.            *)
(***************************************************************************)
EXTENDS Conversions

Upto(n, S) == UNION {[1..m -> S] : m \in 0..n}

(* Codecs: last groups of every length, with too little room and with just *)
(* enough; texts with padding and other characters anywhere.               *)
Base64Calls ==
  [op : {"base64_encode"}, text : Upto(4, {0, 129, 255}), capacity : {7, 8, 16}]
    \cup [op : {"base64_decode"}, text : Upto(4, {17, 62, Pad, 65}) \cup [1..8 -> {17, Pad}],
          capacity : {1, 3, 6}]

Base32Encodes ==
  [op : {"base32_encode"}, text : Upto(5, {0, 165, 255}) \cup [1..6 -> {165, 0}],
   capacity : {7, 8, 16}]

Base32Ends  == [1..8 -> {21, Pad}] \cup {[k \in 1..8 |-> IF k = b THEN 65 ELSE 21] : b \in 1..8}
Base32Calls ==
  Base32Encodes
    \cup [op : {"base32_decode"}, capacity : {1, 5, 10},
          text : Upto(7, {21}) \cup Base32Ends
                   \cup {<<21, 21, 21, 21, 21, 21, 21, c>> \o t : c \in {21, Pad}, t \in Base32Ends}]

(* Dumps of up to five bytes in lines of up to three, in every capacity up *)
(* to more than the longest needs, with an offset that wraps around.       *)
DumpCalls ==
  [op : {"hex_dump"}, text : {[k \in 1..n |-> k] : n \in {0, 1, 2, 3, 5}}, offset : {14},
   options : [bytes_per_line : 0..3, show_offset : BOOLEAN, show_ascii : BOOLEAN],
   capacity : 0..91]

(* Integers of 18 bits, doubles of 8 bits, the smallest 1/512; units of    *)
(* 128 bytes and of 12 nanoseconds.  Doubles that end in a half or that    *)
(* lose one, and sums around the largest integer.                          *)
Around(n) == (n - 1)..(n + 1)

Sizes ==
  0..11 \cup Around(99) \cup Around(127) \cup Around(1279) \cup Around(12799)
    \cup Around(16255) \cup Around(16383) \cup Around(131071) \cup {UnsignedMax}

Nanoseconds ==
  (Sizes \ {UnsignedMax}) \cup Around(119) \cup Around(143) \cup Around(1439) \cup Around(1727)
    \cup Around(17279) \cup Around(172799) \cup 500..520

Doubles ==
  {n \in 0..20 \cup 500..520 \cup {256 * m : m \in 0..8 \cup 250..270}
        \cup {2 ^ b * m : b \in 0..18, m \in {129, 141, 255}} : IsDouble(n)}

FormatCalls ==
  [op : {"unsigned", "hex", "human"}, value : Sizes, capacity : {0, 3, 6, 7, 12}]
    \cup [op : {"duration"}, capacity : {3, 6, 7, 12}, value : Nanoseconds]
    \cup [op : {"hex_padded"}, value : Sizes, digits : 0..(HexDigits + 1), capacity : {4, 6}]
    \cup [op : {"signed"}, value : {n \in Sizes \cup {-m : m \in Sizes} : n \in -(SignedMax + 1)..SignedMax},
          capacity : {0, 1, 4, 8}]
    \cup [op : {"double"}, kind : {"inf", "nan"}, negative : BOOLEAN, fraction : {0, 2, 4},
          capacity : {2, 3, 4}]
    \cup {c \in [op : {"double"}, kind : {"finite"}, negative : BOOLEAN, value : Doubles, fraction : -1..4,
                capacity : {2, 12}] : c.value < 2 ^ 29 \div Power(10, Abs(c.fraction))}
    \cup [op : {"escape"}, capacity : {5, 6, 11, 12},
          value : {0, 65} \cup Around(55296) \cup Around(57343) \cup Around(65535)
                    \cup Around(66559) \cup Around(1114111)]

Signs   == {<<>>, <<Minus>>, <<Plus>>}
Texts == {Digits(n, 10) : n \in Around(UnsignedMax) \cup Around(SignedMax) \cup Around(10 * UnsignedMax)
                                      \cup {UnsignedMax + 7, 26213, 26215, 26220, 999999}}

ParseCalls ==
  [op : {"parse_unsigned", "parse_signed"},
   text : Upto(3, {0, 7, Minus, Plus, Other})
            \cup {s \o zeros \o n \o tail : s \in Signs, zeros \in {<<>>, <<0, 0>>}, n \in Texts,
                                            tail \in {<<>>, <<Other>>}}]

(* Seconds of six nanoseconds; the years of four digits begin before 1970. *)
MCFirstIso == -8

Times(secs, nss) == [sec : secs, ns : nss]

TimeCalls ==
  [op : {"normalize", "to_nanoseconds", "to_milliseconds"},
   time : Times({-21, -20, -1, 0, 1, 5, 6, 7, 12, 13, 14, 19, 20}, (-14)..13)]
    \cup [op : {"add", "subtract"}, time : Times({-20, -1, 0, 5, 20}, 0..5),
          other : Times({-20, -1, 0, 5, 20}, 0..5)]
    \cup [op : {"compare_times"}, time : Times({0, 1}, {-14, -7, -6, -1, 0, 5, 6, 7, 13}),
          other : Times({0, 1}, {-14, -7, -6, -1, 0, 5, 6, 7, 13})]
    \cup [op : {"from_nanoseconds", "from_milliseconds"}, count : 0..CountMax]
    \cup [op : Sleeps, count : {0, 1, 5, 6, 7, 13}, signals : 0..2]
    \cup [op : {"format_iso", "format_utc", "format_local"},
          time : Times((-SecMax)..SecMax, {-1, 0, 13}), capacity : 19..22]
    \cup [op : {"parse_iso", "parse_utc"},
          iso : {[second |-> s, length |-> IsoLength(s), tail |-> n] : s \in (-10)..12, n \in 0..5}]

(* Patterns of stars, slashes and letters; classes; escapes; in all modes. *)
A == 97
PathCalls ==
  [op : {"glob_match", "glob_match_path"}, pattern : Upto(4, {Star, Slash, A}),
   text : Upto(4, {Slash, A})]
    \cup [op : {"glob_match", "glob_match_path"}, text : Upto(4, {Slash, A}),
          pattern : {<<A, Slash, Star, Star, Slash, A>>, <<Star, A, Star, A, Star>>,
                     <<Star, Star, Slash, Star, A>>, <<Question, Star, Question, Star>>}]

ClassCalls ==
  [op : {"glob_match_with_options"},
   pattern : {<<Open>> \o p : p \in Upto(3, {Bang, Close, Dash, A, 99})
                                      \cup {<<A, Dash, 99, Close>>, <<Bang, A, Dash, 99, Close>>,
                                            <<Bang, Close, Close>>, <<65, Dash, 67, Close>>}},
   text : {<<c>> : c \in {A, 98, 66, Bang, Close, Dash}},
   options : [fold : BOOLEAN, path : {FALSE}, double : {FALSE}, escape : {TRUE}]]

OptionCalls ==
  [op : {"glob_match_with_options"}, pattern : Upto(3, {Backslash, Star, Question, Slash, A}),
   text : Upto(2, {Backslash, Star, Slash, 65}),
   options : [fold : {TRUE}, path : BOOLEAN, double : BOOLEAN, escape : BOOLEAN]]

(* Vectors of four bytes: lengths around one, around four, and one more of *)
(* each.  Two regions differ nowhere, in one byte, or in that and another. *)
Sample == <<65, 97, 90, 200, 64, 91, 123, 232>>
Region(n) == [k \in 1..n |-> Sample[(k % 8) + 1]]

Pairs ==
  UNION {{<<Region(n), [Region(n) EXCEPT ![p] = b, ![q] = c]>> :
            p \in 1..n, q \in {1, n}, b \in {97, 0, 232}, c \in {97, 255}}
         : n \in {1, 3, 4, 5, 15, 16, 17, 22, 37}}
    \cup {<<Region(n), Region(m)>> : n \in {0, 5, 21}, m \in {0, 5, 20, 21}}

ScanCalls ==
  UNION {[op : Comparisons, left : {p[i]}, right : {p[3 - i]}, wide : BOOLEAN] :
           p \in {q \in Pairs : Len(q[1]) = Len(q[2])}, i \in 1..2}
    \cup UNION {[op : Comparisons \ {"compare", "equal"}, left : {p[1]}, right : {p[2]}, wide : BOOLEAN] :
                  p \in {q \in Pairs : Len(q[1]) # Len(q[2])}}
    \cup UNION {[op : {"ends_with", "starts_with"}, left : {Region(40) \o p[1]}, right : {p[2]}, wide : BOOLEAN] :
                  p \in Pairs}
    \cup [op : {"length"}, start : 32..63, wide : BOOLEAN,
          terminators : {{t, before} : t \in 63..95, before \in {0, 31, 40}}]
    \cup UNION {[op : InPlace, left : {Region(n)}, right : {Reverse(Region(n))}, wide : {FALSE}] : n \in 0..13}

(* Streams of 16 bytes; messages of one or more pieces with few bits set.  *)
Message(n, p) == [k \in 1..n |-> IF k = p THEN {0, 7} ELSE IF k % 7 = 0 THEN {2} ELSE {}]

Cuts == {<<0, 5>>, <<1>>, <<31>>, <<33>>, <<47>>, <<48>>, <<60>>, <<96>>, <<105>>, <<5, 49>>,
         <<48, 0, 3>>, <<50, 0, 51>>, <<144, 144>>}

CrcCalls ==
  {[op |-> "crc32c", features |-> f, prev |-> {}, before |-> <<>>,
    data |-> Message(cut[1], p), pieces |-> [i \in 1..(Len(cut) - 1) |-> Message(cut[i + 1], p)]] :
     f \in [sse42 : BOOLEAN, pclmul : BOOLEAN], cut \in Cuts, p \in {1, 17, 33, 49, 97, 104}}

MCCalls ==
  Base64Calls \cup Base32Calls \cup DumpCalls \cup FormatCalls \cup ParseCalls \cup TimeCalls
    \cup PathCalls \cup ClassCalls \cup OptionCalls \cup ScanCalls \cup CrcCalls
=============================================================================
