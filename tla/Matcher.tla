------------------------------- MODULE Matcher -------------------------------
(***************************************************************************)
(* Pattern lists of internal/matcher: what NewRegexMatcher and             *)
(* UpdatePatterns make of the strings they are given, and what Match and   *)
(* MatchingPattern answer for a name.  A matcher's state is one value, its *)
(* compiled list: the slices patterns and raw are only ever replaced       *)
(* together, under the write lock.  Each reading method takes the read     *)
(* lock once, so one call is one evaluation on one list; two calls are     *)
(* not.  NoOpMatcher behaves as a matcher whose list is always <<>>.       *)
(*                                                                         *)
(* Names are model values without their trailing dot: the code trims it    *)
(* before every match, and a name in a DNS message has exactly one.        *)
(***************************************************************************)
EXTENDS Naturals, Sequences

CONSTANTS
  Expr,     \* regular expressions that regexp.Compile accepts
  Broken,   \* strings that it rejects
  Blank,    \* the empty string: a blank input after trimming, "no pattern"
  Text,     \* the strings a flag, a variable or a client may supply
  TrimSpace,\* the function strings.TrimSpace on Text
  Name,     \* domain names
  Accepts   \* Accepts[e]: the names that the expression e matches

ASSUME MatcherAssumption ==
  /\ Blank \notin Expr \cup Broken
  /\ Expr \cap Broken = {}
  /\ TrimSpace \in [Text -> Expr \cup Broken \cup {Blank}]
  /\ Accepts \in [Expr -> SUBSET Name]

\* No input is an error: the first one that does not compile would abort.
Compiles(inputs) == \A i \in DOMAIN inputs : TrimSpace[inputs[i]] \notin Broken

\* The list that inputs compile to: the loop trims each and drops blanks.
Compile(inputs) ==
  LET list[i \in 0 .. Len(inputs)] ==
        IF i = 0 THEN <<>>
        ELSE IF TrimSpace[inputs[i]] = Blank THEN list[i - 1]
        ELSE Append(list[i - 1], TrimSpace[inputs[i]])
  IN  list[Len(inputs)]

\* The positions of a list whose expression matches a name.
Hits(list, name) == {i \in DOMAIN list : name \in Accepts[list[i]]}

Match(list, name) == Hits(list, name) # {}

\* Mutant of MatchingPattern: only the first expression is tried.
MatchingPatternOfFirst(list, name) ==
  IF 1 \in Hits(list, name) THEN list[1] ELSE Blank

\* The source text of the first expression that matches, Blank for none.
MatchingPattern(list, name) ==
  IF Match(list, name)
  THEN list[CHOOSE i \in Hits(list, name) : \A j \in Hits(list, name) : i <= j]
  ELSE Blank
=============================================================================
