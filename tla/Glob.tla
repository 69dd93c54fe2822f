-------------------------------- MODULE Glob --------------------------------
(***************************************************************************)
(* bc_core_glob_match, _match_path and _match_with_options.  A character   *)
(* is its ASCII code.  Indices count from 0, as in the code.               *)
(***************************************************************************)
EXTENDS Call, SequencesExt

Bang == 33  Star == 42  Dash == 45  Slash == 47  Question == 63
Open == 91  Backslash == 92  Close == 93

GlobOptions ==
  CASE call.op = "glob_match"      -> [fold |-> FALSE, path |-> FALSE, double |-> FALSE, escape |-> TRUE]
    [] call.op = "glob_match_path" -> [fold |-> FALSE, path |-> TRUE, double |-> TRUE, escape |-> TRUE]
    [] OTHER                       -> call.options

Globs == {"glob_match", "glob_match_path", "glob_match_with_options"}

ToLower(c) == IF c \in 65..90 THEN c + 32 ELSE c
Fold(c)    == IF GlobOptions.fold THEN ToLower(c) ELSE c
Same(c, d) == Fold(c) = Fold(d)

Pattern   == call.pattern
Subject   == call.text
PatternChar(i) == Pattern[i + 1]
SubjectChar(j) == Subject[j + 1]
PatternHas(i, c) == i < Len(Pattern) /\ PatternChar(i) = c

(* bc_core_glob_parse_class takes a class item by item: a range, unless    *)
(* its last character would be the one that closes the class, or one       *)
(* character.                                                              *)
IsRange(k) ==
  k + 2 < Len(Pattern) /\ PatternChar(k + 1) = Dash /\ PatternChar(k + 2) # Close

ItemMatches(k, target) ==
  IF IsRange(k) THEN Fold(target) \in Fold(PatternChar(k))..Fold(PatternChar(k + 2))
                ELSE Same(PatternChar(k), target)

(* Of the class whose first character is at i: whether it is closed, where,*)
(* and whether it matches the target.                                      *)
ParseClass(i, target) ==
  LET negate == PatternHas(i, Bang)
      begin  == IF negate THEN i + 1 ELSE i
      scan[k \in Nat] ==
        IF k >= Len(Pattern) THEN [closed |-> FALSE, end |-> k, matched |-> FALSE]
        ELSE IF PatternChar(k) = Close /\ k # begin
          THEN [closed |-> TRUE, end |-> k, matched |-> FALSE]
        ELSE LET rest == scan[IF IsRange(k) THEN k + 3 ELSE k + 1]
             IN [closed |-> rest.closed, end |-> rest.end,
                 matched |-> ItemMatches(k, target) \/ rest.matched]
  IN [closed |-> scan[begin].closed, end |-> scan[begin].end,
      match |-> scan[begin].matched # negate]

(* A fault: the second of two stars cannot stand for no directory.         *)
NoDirectoryNever(double, after) == FALSE

(* A double star and a slash may stand for nothing.                        *)
NoDirectory(double, after) == double /\ PatternHas(after, Slash)

(* How far a star may reach from j: up to a slash, if it is a single one   *)
(* in a path.                                                              *)
Reach(double, j) ==
  {k \in j..Len(Subject) :
     double \/ ~GlobOptions.path \/ \A n \in j..(k - 1) : SubjectChar(n) # Slash}

(* bc_core_glob_match_recursive: the indices of the subject from which the *)
(* rest of it matches the pattern from i on, given those for later i.      *)
MatchingFrom(i, matching) ==
  IF i = Len(Pattern) THEN {Len(Subject)}
  ELSE IF PatternChar(i) = Star THEN
    LET double == GlobOptions.double /\ PatternHas(i + 1, Star)
        after  == IF double THEN i + 2 ELSE i + 1
    IN {j \in 0..Len(Subject) :
          \/ NoDirectory(double, after) /\ j \in matching[after + 1]
          \/ Reach(double, j) \cap matching[after] # {}}
  ELSE {j \in 0..(Len(Subject) - 1) :
    IF PatternChar(i) = Backslash /\ GlobOptions.escape /\ i + 1 < Len(Pattern) THEN
      Same(PatternChar(i + 1), SubjectChar(j)) /\ j + 1 \in matching[i + 2]
    ELSE IF PatternChar(i) = Question THEN
      ~(GlobOptions.path /\ SubjectChar(j) = Slash) /\ j + 1 \in matching[i + 1]
    ELSE IF PatternChar(i) = Open THEN
      LET class == ParseClass(i + 1, SubjectChar(j))
      IN class.closed /\ class.match /\ j + 1 \in matching[class.end + 1]
    ELSE Same(PatternChar(i), SubjectChar(j)) /\ j + 1 \in matching[i + 1]}

GlobMatches ==
  LET matching[i \in 0..Len(Pattern)] == MatchingFrom(i, matching)
  IN 0 \in matching[0]

GlobMatch == Pending(Globs) /\ Return(TRUE, GlobMatches)

-----------------------------------------------------------------------------
(* What a pattern means, said without backtracking: a sequence of tokens,  *)
(* each with the pieces of text that it stands for.                        *)
DoubleStar(i) == PatternChar(i) = Star /\ GlobOptions.double /\ PatternHas(i + 1, Star)
Escaped(i)    == PatternChar(i) = Backslash /\ GlobOptions.escape /\ i + 1 < Len(Pattern)

(* A class begins after its bracket, or after the sign that negates it, and*)
(* is closed by the first bracket behind its first character.              *)
ClassBegin(i) == IF PatternHas(i + 1, Bang) THEN i + 2 ELSE i + 1

Closings(i) == {n \in (ClassBegin(i) + 1)..(Len(Pattern) - 1) : PatternChar(n) = Close}

ClassEnd(i) == CHOOSE n \in Closings(i) : \A m \in Closings(i) : n <= m

(* The characters that a class between two indices names, range by range.  *)
ClassNames(first, last, c) ==
  LET names[k \in Nat] ==
        /\ k <= last
        /\ IF k + 2 <= last /\ PatternChar(k + 1) = Dash
           THEN Fold(c) \in Fold(PatternChar(k))..Fold(PatternChar(k + 2)) \/ names[k + 3]
           ELSE Same(PatternChar(k), c) \/ names[k + 1]
  IN names[first]

(* Where the token after the one at i begins.                              *)
NextToken(i) ==
  IF DoubleStar(i) \/ Escaped(i) THEN i + 2
  ELSE IF PatternChar(i) = Open /\ Closings(i) # {} THEN ClassEnd(i) + 1
  ELSE i + 1

(* The token at i stands for the piece of the subject from j up to but not *)
(* including k.                                                            *)
StandsFor(i, j, k) ==
  IF PatternChar(i) = Star
  THEN /\ j <= k
       /\ GlobOptions.path /\ ~DoubleStar(i) => \A n \in j..(k - 1) : SubjectChar(n) # Slash
  ELSE /\ k = j + 1
       /\ LET c == SubjectChar(j)
          IN CASE Escaped(i) -> Same(PatternChar(i + 1), c)
               [] PatternChar(i) = Question -> GlobOptions.path => c # Slash
               [] PatternChar(i) = Open ->
                    /\ Closings(i) # {}
                    /\ ClassNames(ClassBegin(i), ClassEnd(i) - 1, c) <=> ~PatternHas(i + 1, Bang)
               [] OTHER -> Same(PatternChar(i), c)

(* Where the pieces end that the tokens before i may stand for; two stars  *)
(* and a slash may stand for nothing.                                      *)
PieceEnds(i, from) == {k \in 0..Len(Subject) : \E j \in from : StandsFor(i, j, k)}

Ends ==
  LET ends[i \in 0..Len(Pattern)] ==
        IF i = 0 THEN {0}
        ELSE (UNION {PieceEnds(p, ends[p]) : p \in {q \in 0..(i - 1) : NextToken(q) = i}})
               \cup (UNION {ends[p] : p \in {q \in 0..(i - 1) : /\ i = q + 3 /\ DoubleStar(q)
                                                                /\ PatternHas(q + 2, Slash)}})
  IN ends[Len(Pattern)]

(* A text matches if and only if it is made of pieces that the tokens of   *)
(* the pattern stand for, whatever the stars have to try; a star or a      *)
(* question mark of a path stands for no slash, two stars and a slash for  *)
(* any directories or none, and a class that is not closed for nothing.    *)
GlobIsLanguage == Returned(Globs) => output = (Len(Subject) \in Ends)

-----------------------------------------------------------------------------
(* What the signatures say of a call.                                      *)
GlobCall(c) == c.op \in Globs => c.pattern \in Seq(Int) /\ c.text \in Seq(Int)
=============================================================================
