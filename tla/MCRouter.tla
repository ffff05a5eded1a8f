------------------------------- MODULE MCRouter -------------------------------
(***************************************************************************)
(* Small instances of Router.  Both expressions accept the question q1,    *)
(* only e1 accepts q2, and they part on the aliases c1 and c2, so that the *)
(* order of a list and a change between two reads both show.               *)
(***************************************************************************)
EXTENDS RouterCorrect

CONSTANTS e1, e2, bad, t1, t2, tBlank, tBad, q1, q2, c1, c2

MCTrimSpace ==
  [t \in {t1, t2, tBlank, tBad} |->
     CASE t = t1 -> e1 [] t = t2 -> e2 [] t = tBlank -> Blank [] t = tBad -> bad]

MCAccepts == [e \in {e1, e2} |-> IF e = e1 THEN {q1, q2, c1} ELSE {q1, c2}]

\* Lists of length 0, 1 and 2; a blank that is dropped, an input that is refused.
MCUpdates == {<<>>, <<t2>>, <<tBlank, t2, t1>>, <<t2, tBad>>}

A == [type |-> "A", target |-> q1]
C(name) == [type |-> "CNAME", target |-> name]

MCAnswers == {<<>>, <<C(c1), A>>, <<C(c1), C(c2)>>}

\* The program's wirings: nothing configured, the explicit server only, all.
AppConfigs == {AppConfig({}), AppConfig({"explicit"}), AppConfig(ResolverFlags)}
AppExplicit == {AppConfig({"explicit"})}

\* Wirings that only a user of the package can build: nil matchers, and roles
\* left to a system resolver that is there or nil.
LibraryConfigs ==
  {[requestMatcher |-> rm, cnameMatcher |-> cm, explicit |-> x,
    passthrough |-> Nil, noCnameResponse |-> Nil, noCnameMatch |-> Nil,
    system |-> s] :
      rm \in BOOLEAN, cm \in BOOLEAN,
      x \in {Nil, NewDNSResolver(FALSE, "explicit")},
      s \in {Nil, NewSystemResolver}}

AllConfigs == AppConfigs \cup LibraryConfigs
=============================================================================
