----------------------------- MODULE RouterProofs -----------------------------
(***************************************************************************)
(* Proofs about Router for every value of its constants: what the loop of  *)
(* UpdatePatterns computes (by induction on the inputs), the type          *)
(* invariant, the inductive invariant Inv, that Router implements          *)
(* RoutingContract, that every step of a call brings it nearer to its end, *)
(* and, for the routers that NewApp builds, why a call fails.              *)
(***************************************************************************)
EXTENDS RouterCorrect, SequenceTheorems, WellFoundedInduction, TLAPS

\* Induction on the natural numbers, for a set: a least number outside it
\* would be neither 0 nor a successor.
LEMMA NatInduct ==
  ASSUME NEW S, 0 \in S, \A n \in Nat : n \in S => n + 1 \in S
  PROVE  Nat \subseteq S
<1> DEFINE R == OpToRel(<, Nat)
           T == Nat \ S
<1>1. IsWellFoundedOn(R, Nat)
  BY NatLessThanWellFounded
<1>2. SUFFICES ASSUME T # {} PROVE FALSE
  OBVIOUS
<1>3. T \subseteq Nat
  OBVIOUS
<1> HIDE DEF R
<1>4. PICK x \in T : \A y \in T : ~ (<<y, x>> \in R)
  BY <1>1, <1>2, <1>3, WFMin
<1>5. x \in Nat /\ x # 0 /\ x - 1 \in Nat /\ x - 1 + 1 = x
  BY <1>4
<1>6. x - 1 \in T
  BY <1>4, <1>5
<1>7. <<x - 1, x>> \in R
  BY <1>5 DEF R, OpToRel
<1>8. QED
  BY <1>4, <1>6, <1>7

\* The lists that the loop of UpdatePatterns has after each input.
Prefixes(inputs, n) ==
  {g \in [0 .. n -> Seq(Expr)] :
     /\ g[0] = <<>>
     /\ \A i \in 1 .. n : g[i] = IF TrimSpace[inputs[i]] = Blank THEN g[i - 1]
                              ELSE Append(g[i - 1], TrimSpace[inputs[i]])}

LEMMA TrimShape ==
  ASSUME NEW inputs \in Seq(Text), Compiles(inputs), NEW i \in 1 .. Len(inputs)
  PROVE  TrimSpace[inputs[i]] \in Expr \/ TrimSpace[inputs[i]] = Blank
<1>1. i \in DOMAIN inputs /\ inputs[i] \in Text
  OBVIOUS
<1>2. TrimSpace[inputs[i]] \in Expr \cup Broken \cup {Blank}
  BY <1>1, MatcherAssumption
<1>3. QED
  BY <1>1, <1>2 DEF Compiles

LEMMA PrefixesExist ==
  ASSUME NEW inputs \in Seq(Text), Compiles(inputs)
  PROVE  Prefixes(inputs, Len(inputs)) # {}
<1> DEFINE S == {n \in Nat : n <= Len(inputs) => Prefixes(inputs, n) # {}}
<1>1. 0 \in S
  <2>1. [i \in 0 .. 0 |-> <<>>] \in Prefixes(inputs, 0)
    BY DEF Prefixes
  <2>2. QED
    BY <2>1
<1>2. ASSUME NEW n \in Nat, n \in S PROVE n + 1 \in S
  <2>1. SUFFICES ASSUME n + 1 <= Len(inputs) PROVE Prefixes(inputs, n + 1) # {}
    OBVIOUS
  <2>2. PICK g : g \in Prefixes(inputs, n)
    BY <1>2, <2>1
  <2> DEFINE e == TrimSpace[inputs[n + 1]]
             new == IF e = Blank THEN g[n] ELSE Append(g[n], e)
             h == [i \in 0 .. n + 1 |-> IF i = n + 1 THEN new ELSE g[i]]
  <2>3. e \in Expr \/ e = Blank
    BY <2>1, TrimShape
  <2>4. \A i \in 0 .. n : g[i] \in Seq(Expr)
    BY <2>2 DEF Prefixes
  <2> HIDE DEF e
  <2>5. new \in Seq(Expr)
    BY <2>3, <2>4
  <2> HIDE DEF new
  <2>6. h \in [0 .. n + 1 -> Seq(Expr)] /\ h[n + 1] = new /\ \A i \in 0 .. n : h[i] = g[i]
    BY <2>4, <2>5
  <2>7. h[0] = <<>>
    BY <2>2, <2>6 DEF Prefixes
  <2> HIDE DEF h
  <2>8. ASSUME NEW i \in 1 .. n + 1
        PROVE  h[i] = IF TrimSpace[inputs[i]] = Blank THEN h[i - 1]
                      ELSE Append(h[i - 1], TrimSpace[inputs[i]])
    <3>1. CASE i = n + 1
      BY <2>6, <3>1 DEF new, e
    <3>2. CASE i # n + 1
      <4>1. i \in 1 .. n /\ i - 1 \in 0 .. n /\ i \in 0 .. n
        BY <3>2
      <4>2. QED
        BY <2>2, <2>6, <4>1 DEF Prefixes
    <3>3. QED
      BY <3>1, <3>2
  <2>9. h \in Prefixes(inputs, n + 1)
    BY <2>6, <2>7, <2>8 DEF Prefixes
  <2>10. QED
    BY <2>9
<1>3. Len(inputs) \in S
  <2> HIDE DEF S
  <2>1. Nat \subseteq S
    BY <1>1, <1>2, NatInduct
  <2>2. QED
    BY <2>1
<1>4. QED
  BY <1>3

\* The last of them is what Compile returns.
LEMMA CompileIsLast ==
  ASSUME NEW inputs \in Seq(Text), Compiles(inputs)
  PROVE  \E g \in Prefixes(inputs, Len(inputs)) : Compile(inputs) = g[Len(inputs)]
<1> DEFINE Turn(g, i) == IF i = 0 THEN <<>>
                         ELSE IF TrimSpace[inputs[i]] = Blank THEN g[i - 1]
                         ELSE Append(g[i - 1], TrimSpace[inputs[i]])
           list == CHOOSE g : g = [i \in 0 .. Len(inputs) |-> Turn(g, i)]
<1>1. Compile(inputs) = list[Len(inputs)]
  BY DEF Compile
<1>2. PICK g : g \in Prefixes(inputs, Len(inputs))
  BY PrefixesExist
<1>3. g = [i \in 0 .. Len(inputs) |-> Turn(g, i)]
  <2>1. /\ g = [i \in 0 .. Len(inputs) |-> g[i]] /\ g[0] = <<>>
        /\ \A i \in 1 .. Len(inputs) :
             g[i] = IF TrimSpace[inputs[i]] = Blank THEN g[i - 1]
                    ELSE Append(g[i - 1], TrimSpace[inputs[i]])
    BY <1>2 DEF Prefixes
  <2>2. \A i \in 0 .. Len(inputs) : i = 0 \/ i \in 1 .. Len(inputs)
    OBVIOUS
  <2>3. \A i \in 0 .. Len(inputs) : g[i] = Turn(g, i)
    BY <2>1, <2>2
  <2> HIDE DEF Turn
  <2>4. QED
    BY <2>1, <2>3
<1> HIDE DEF Turn
<1>4. list = [i \in 0 .. Len(inputs) |-> Turn(list, i)]
  BY <1>3
<1> HIDE DEF list
<1>5. /\ list[0] = <<>>
      /\ \A i \in 1 .. Len(inputs) :
           IF TrimSpace[inputs[i]] = Blank THEN list[i] = list[i - 1]
           ELSE list[i] = Append(list[i - 1], TrimSpace[inputs[i]])
  <2>1. \A i \in 0 .. Len(inputs) : list[i] = Turn(list, i)
    BY <1>4
  <2>2. 0 \in 0 .. Len(inputs) /\ \A i \in 1 .. Len(inputs) : i \in 0 .. Len(inputs) /\ i # 0
    OBVIOUS
  <2>3. QED
    BY <2>1, <2>2 DEF Turn
<1>6. \A i \in 0 .. Len(inputs) : list[i] \in Seq(Expr)
  <2> DEFINE S == {n \in Nat : n <= Len(inputs) => list[n] \in Seq(Expr)}
  <2>1. 0 \in S
    <3>1. list[0] = <<>> /\ <<>> \in Seq(Expr)
      BY <1>5
    <3>2. QED
      BY <3>1
  <2>2. ASSUME NEW n \in Nat, n \in S PROVE n + 1 \in S
    <3>1. SUFFICES ASSUME n + 1 <= Len(inputs) PROVE list[n + 1] \in Seq(Expr)
      OBVIOUS
    <3>2. n + 1 \in 1 .. Len(inputs) /\ n + 1 - 1 = n /\ list[n] \in Seq(Expr)
      BY <2>2, <3>1
    <3>3. TrimSpace[inputs[n + 1]] \in Expr \/ TrimSpace[inputs[n + 1]] = Blank
      BY <3>2, TrimShape
    <3> HIDE DEF S
    <3>4. IF TrimSpace[inputs[n + 1]] = Blank THEN list[n + 1] = list[n]
          ELSE list[n + 1] = Append(list[n], TrimSpace[inputs[n + 1]])
      <4>1. IF TrimSpace[inputs[n + 1]] = Blank THEN list[n + 1] = list[n + 1 - 1]
            ELSE list[n + 1] = Append(list[n + 1 - 1], TrimSpace[inputs[n + 1]])
        BY <1>5, <3>2
      <4>2. QED
        BY <3>2, <4>1
    <3>5. \A front \in Seq(Expr), e \in Expr : Append(front, e) \in Seq(Expr)
      OBVIOUS
    <3>6. QED
      BY <3>2, <3>3, <3>4, <3>5, Zenon
  <2>3. Nat \subseteq S
    <3> HIDE DEF S
    <3>1. QED
      BY <2>1, <2>2, NatInduct
  <2>4. QED
    BY <2>3
<1>7. list = [i \in 0 .. Len(inputs) |-> list[i]]
  BY <1>4
<1>8. list \in [0 .. Len(inputs) -> Seq(Expr)]
  BY <1>6, <1>7
<1>9. list \in Prefixes(inputs, Len(inputs))
  BY <1>5, <1>8 DEF Prefixes
<1>10. QED
  BY <1>1, <1>9

\* A list that compiles is a list of expressions.
LEMMA ListShape == Lists \subseteq Seq(Expr)
<1>1. ASSUME NEW u \in Updates, Compiles(u) PROVE Compile(u) \in Seq(Expr)
  <2>1. u \in Seq(Text) /\ Len(u) \in 0 .. Len(u)
    BY RouterAssumption
  <2>2. QED
    BY <1>1, <2>1, CompileIsLast DEF Prefixes
<1>2. QED
  BY <1>1 DEF Lists
-----------------------------------------------------------------------------
\* The first of the expressions that match is the one that is named.
LEMMA FirstIsNamed ==
  ASSUME NEW list \in Seq(Expr), NEW name, NEW i \in Hits(list, name),
         \A j \in Hits(list, name) : i <= j
  PROVE  MatchingPattern(list, name) = list[i]
<1>1. Hits(list, name) \subseteq Nat /\ Match(list, name)
  BY DEF Hits, Match
<1>2. \A k \in Hits(list, name) : (\A j \in Hits(list, name) : k <= j) => k = i
  BY <1>1
<1>3. (CHOOSE k \in Hits(list, name) : \A j \in Hits(list, name) : k <= j) = i
  BY <1>2
<1>4. QED
  BY <1>1, <1>3 DEF MatchingPattern

\* A list that matches a name names its first expression that does.
LEMMA LabelOfMatch ==
  ASSUME NEW list \in Seq(Expr), NEW name, Match(list, name)
  PROVE  \E i \in Hits(list, name) : /\ \A j \in Hits(list, name) : i <= j
                                    /\ MatchingPattern(list, name) = list[i]
                                    /\ MatchingPattern(list, name) \in Expr
<1>1. Hits(list, name) \subseteq DOMAIN list /\ DOMAIN list \subseteq Nat
      /\ Hits(list, name) # {}
  BY DEF Hits, Match
<1> DEFINE less == OpToRel(<, Nat)
<1>2. \A i, j \in Nat : i < j => <<i, j>> \in less
  BY Zenon DEF OpToRel
<1>3. \E i \in Hits(list, name) : \A j \in Hits(list, name) : i <= j
  <2>1. IsWellFoundedOn(less, Nat)
    BY NatLessThanWellFounded
  <2> HIDE DEF less
  <2>2. PICK i \in Hits(list, name) : \A j \in Hits(list, name) : ~ (<<j, i>> \in less)
    BY <1>1, <2>1, WFMin
  <2>3. \A j \in Hits(list, name) : ~ (j < i)
    BY <1>1, <1>2, <2>2
  <2>4. QED
    BY <1>1, <2>3
<1>4. \A i \in DOMAIN list : list[i] \in Expr
  OBVIOUS
<1>5. QED
  BY <1>1, <1>3, <1>4, FirstIsNamed

\* What another expression at the end changes: nothing that matched before.
LEMMA HitsOfAppend ==
  ASSUME NEW list \in Seq(Expr), NEW e \in Expr, NEW name
  PROVE  LET longer == Append(list, e)
         IN  /\ Match(longer, name) <=> Match(list, name) \/ name \in Accepts[e]
             /\ Match(list, name) =>
                  MatchingPattern(longer, name) = MatchingPattern(list, name)
             /\ ~ Match(list, name) /\ name \in Accepts[e] =>
                  MatchingPattern(longer, name) = e
<1> DEFINE longer == Append(list, e)
<1>1. /\ longer \in Seq(Expr) /\ Len(list) \in Nat
      /\ DOMAIN list = 1 .. Len(list) /\ DOMAIN longer = 1 .. Len(list) + 1
      /\ \A i \in 1 .. Len(list) : longer[i] = list[i]
      /\ longer[Len(list) + 1] = e
  OBVIOUS
<1> HIDE DEF longer
<1>2. Hits(list, name) \subseteq 1 .. Len(list)
  BY <1>1 DEF Hits
<1>3. \A i : i \in Hits(longer, name)
              <=> i \in Hits(list, name) \/ (i = Len(list) + 1 /\ name \in Accepts[e])
  BY <1>1 DEF Hits
<1>4. Match(longer, name) <=> Match(list, name) \/ name \in Accepts[e]
  BY <1>3 DEF Match
<1>5. ASSUME Match(list, name)
      PROVE  MatchingPattern(longer, name) = MatchingPattern(list, name)
  <2>1. PICK i \in Hits(list, name) :
          (\A j \in Hits(list, name) : i <= j) /\ MatchingPattern(list, name) = list[i]
    BY <1>5, LabelOfMatch
  <2>2. i \in Hits(longer, name) /\ \A j \in Hits(longer, name) : i <= j
    BY <1>1, <1>2, <1>3, <2>1
  <2>3. MatchingPattern(longer, name) = longer[i]
    BY <1>1, <2>2, FirstIsNamed
  <2>4. QED
    BY <1>1, <1>2, <2>1, <2>3
<1>6. ASSUME ~ Match(list, name), name \in Accepts[e]
      PROVE  MatchingPattern(longer, name) = e
  <2>1. Len(list) + 1 \in Hits(longer, name) /\ \A j \in Hits(longer, name) : Len(list) + 1 <= j
    BY <1>1, <1>3, <1>6 DEF Match
  <2>2. QED
    BY <1>1, <2>1, FirstIsNamed
<1>7. QED
  BY <1>4, <1>5, <1>6 DEF longer

\* The inputs among the first n whose text, trimmed, matches a name.
InputHits(inputs, n, name) ==
  {i \in 1 .. n : TrimSpace[inputs[i]] # Blank /\ name \in Accepts[TrimSpace[inputs[i]]]}

\* What the pattern texts of a flag or an update come to, for any texts: the
\* compiled list matches a name exactly when one of the texts does, and it
\* names the first of them that does, blank ones before it or not
\* (matcher.go:98-123, 54-85).
THEOREM CompileTheorem ==
  ASSUME NEW inputs \in Seq(Text), Compiles(inputs), NEW name
  PROVE  LET list == Compile(inputs)
             hits == InputHits(inputs, Len(inputs), name)
         IN  /\ list \in Seq(Expr) /\ Len(list) <= Len(inputs)
             /\ Match(list, name) <=> hits # {}
             /\ hits = {} => MatchingPattern(list, name) = Blank
             /\ \A i \in hits : (\A j \in hits : i <= j) =>
                  MatchingPattern(list, name) = TrimSpace[inputs[i]]
<1>1. PICK g \in Prefixes(inputs, Len(inputs)) : Compile(inputs) = g[Len(inputs)]
  BY CompileIsLast
<1>2. Len(inputs) \in Nat
  OBVIOUS
<1> DEFINE H(n) == InputHits(inputs, n, name)
           P(n) == /\ Len(g[n]) <= n
                   /\ Match(g[n], name) <=> H(n) # {}
                   /\ \A i \in H(n) : (\A j \in H(n) : i <= j) =>
                        MatchingPattern(g[n], name) = TrimSpace[inputs[i]]
           S == {n \in Nat : n <= Len(inputs) => P(n)}
<1>3. 0 \in S
  <2>1. g[0] = <<>>
    BY DEF Prefixes
  <2>2. Len(<<>>) <= 0 /\ DOMAIN <<>> = {}
    OBVIOUS
  <2>3. H(0) = {} /\ Hits(<<>>, name) = {}
    BY DEF InputHits, Hits
  <2> HIDE DEF H
  <2>4. P(0)
    BY <2>1, <2>2, <2>3 DEF Match
  <2>5. QED
    BY <2>4
<1>4. ASSUME NEW n \in Nat, n \in S PROVE n + 1 \in S
  <2>1. SUFFICES ASSUME n + 1 <= Len(inputs) PROVE P(n + 1)
    OBVIOUS
  <2> DEFINE e == TrimSpace[inputs[n + 1]]
  <2>2. n + 1 \in 1 .. Len(inputs) /\ n + 1 - 1 = n /\ n \in 0 .. Len(inputs)
    BY <2>1
  <2>3. P(n) /\ g[n] \in Seq(Expr) /\ Len(g[n]) \in Nat
    BY <1>4, <2>2 DEF Prefixes
  <2>4. g[n + 1] = IF e = Blank THEN g[n] ELSE Append(g[n], e)
    BY <2>2 DEF Prefixes
  <2>5. e \in Expr \/ e = Blank
    BY <2>2, TrimShape
  <2>6. \A i : i \in H(n + 1) <=> i \in H(n) \/ (i = n + 1 /\ e # Blank /\ name \in Accepts[e])
    BY <1>4 DEF InputHits
  <2>7. H(n) \subseteq 1 .. n
    BY DEF InputHits
  <2> HIDE DEF H, e
  <2>8. CASE e = Blank
    <3>1. H(n + 1) = H(n) /\ g[n + 1] = g[n]
      BY <2>4, <2>6, <2>8
    <3>2. QED
      BY <2>3, <3>1
  <2>9. CASE e # Blank
    <3>1. e \in Expr /\ g[n + 1] = Append(g[n], e)
      BY <2>4, <2>5, <2>9
    <3>2. Len(g[n + 1]) <= n + 1
      BY <2>3, <3>1
    <3>3. Match(g[n + 1], name) <=> H(n + 1) # {}
      <4>1. Match(g[n + 1], name) <=> Match(g[n], name) \/ name \in Accepts[e]
        BY <2>3, <3>1, HitsOfAppend
      <4>2. H(n + 1) # {} <=> H(n) # {} \/ name \in Accepts[e]
        BY <2>6, <2>9
      <4>3. QED
        BY <2>3, <4>1, <4>2
    <3>4. ASSUME NEW i \in H(n + 1), \A j \in H(n + 1) : i <= j
          PROVE  MatchingPattern(g[n + 1], name) = TrimSpace[inputs[i]]
      <4>1. CASE H(n) = {}
        <5>1. i = n + 1 /\ name \in Accepts[e] /\ ~ Match(g[n], name)
          BY <2>3, <2>6, <4>1
        <5>2. QED
          BY <2>3, <3>1, <5>1, HitsOfAppend DEF e
      <4>2. CASE H(n) # {}
        <5>1. i \in H(n) /\ \A j \in H(n) : i <= j
          BY <2>6, <2>7, <3>4, <4>2
        <5>2. QED
          BY <2>3, <3>1, <4>2, <5>1, HitsOfAppend
      <4>3. QED
        BY <4>1, <4>2
    <3>5. QED
      BY <3>2, <3>3, <3>4
  <2>10. QED
    BY <2>8, <2>9
<1>5. P(Len(inputs))
  <2> HIDE DEF S
  <2>1. Nat \subseteq S
    BY <1>3, <1>4, NatInduct
  <2>2. Len(inputs) \in S
    BY <1>2, <2>1
  <2> USE DEF S
  <2> HIDE DEF P
  <2>3. QED
    BY <1>2, <2>2
<1>6. g[Len(inputs)] \in Seq(Expr)
  BY <1>2 DEF Prefixes
<1>7. ~ Match(Compile(inputs), name) => MatchingPattern(Compile(inputs), name) = Blank
  BY DEF MatchingPattern
<1>8. QED
  BY <1>1, <1>5, <1>6, <1>7
-----------------------------------------------------------------------------
\* The shape of a router that NewRouter built.
LEMMA RouterShape ==
  ASSUME NEW rt \in Routers
  PROVE  /\ rt.requestMatcher \in BOOLEAN /\ rt.cnameMatcher \in BOOLEAN
         /\ rt.explicit \in Resolvers
         /\ \A role \in Fallbacks : rt[role] \in Resolvers
BY RouterAssumption DEF Routers, NewRouter, RouterConfigs, Fallbacks

\* An exchange with a resolver is well formed.
LEMMA ExchangeShape ==
  ASSUME NEW resolver \in Resolvers, NEW reply \in Replies
  PROVE  Exchange(resolver, reply) \in Exchanges
BY DEF Resolvers, Exchange, Exchanges

\* What a reply carries: an answer section, whose aliases are at positions
\* that are natural numbers and point to names.
LEMMA ReplyShape ==
  ASSUME NEW reply \in Replies
  PROVE  /\ reply.ok \in BOOLEAN
         /\ reply.answer \in Answers \cup {<<>>}
         /\ CNAMEs(reply.answer) \subseteq Nat
         /\ \A k \in CNAMEs(reply.answer) : reply.answer[k].target \in Name
<1> DEFINE RR == [type : {"CNAME", "A"}, target : Name]
<1>1. reply.ok \in BOOLEAN /\ reply.answer \in Answers \cup {<<>>}
  <2>1. CASE reply = Failure
    BY <2>1 DEF Failure
  <2>2. CASE reply \in [ok : {TRUE}, answer : Answers]
    BY <2>2
  <2>3. QED
    BY <2>1, <2>2 DEF Replies
<1>2. reply.answer \in Seq(RR)
  <2>1. CASE reply.answer \in Answers
    BY <2>1, WiringAssumption
  <2>2. CASE reply.answer = <<>>
    <3> HIDE DEF RR
    <3>1. QED
      BY <2>2
  <2>3. QED
    BY <1>1, <2>1, <2>2
<1>3. /\ DOMAIN reply.answer \subseteq Nat
      /\ \A k \in DOMAIN reply.answer : reply.answer[k] \in RR
  <2> HIDE DEF RR
  <2>1. QED
    BY <1>2
<1>4. \A k \in DOMAIN reply.answer : reply.answer[k].target \in Name
  BY <1>3
<1>5. CNAMEs(reply.answer) \subseteq DOMAIN reply.answer
  BY DEF CNAMEs
<1>6. QED
  BY <1>1, <1>3, <1>4, <1>5

\* The position that a turn of the loop looks at is in the probe's answer.
LEMMA TargetShape ==
  ASSUME NEW r \in Requests, Probed(r)
  PROVE  /\ Aliases(r) \subseteq Nat
         /\ \A k \in Aliases(r) : Target(r, k) \in Name
<1>1. PICK reply \in Replies : log[r] = <<Exchange(router.explicit, reply)>>
  BY DEF Probed
<1>2. log[r][1].reply = reply
  BY <1>1 DEF Exchange
<1>3. QED
  BY <1>2, ReplyShape DEF Aliases, Target
-----------------------------------------------------------------------------
\* Step r leaves everything that belongs to another call alone.
Untouched(s) ==
  /\ UNCHANGED <<router, lists>>
  /\ pc'[s] = pc[s] /\ qname'[s] = qname[s] /\ result'[s] = result[s]
  /\ names'[s] = names[s] /\ log'[s] = log[s] /\ window'[s] = window[s]

\* What holds of a call goes on holding while others move.
LEMMA Frame ==
  ASSUME NEW s \in Requests, StateInv(s), Untouched(s)
  PROVE  StateInv(s)'
<1>1. /\ router' = router /\ lists' = lists
      /\ pc'[s] = pc[s] /\ qname'[s] = qname[s] /\ result'[s] = result[s]
      /\ names'[s] = names[s] /\ log'[s] = log[s] /\ window'[s] = window[s]
  BY DEF Untouched
<1>2. InWindow(s)' = InWindow(s) /\ Fresh(s)' = Fresh(s)
  BY <1>1 DEF InWindow, Fresh
<1>3. Labelled(s)' = Labelled(s)
  BY <1>1 DEF Labelled, Found
<1>4. Probed(s)' = Probed(s) /\ Aliases(s)' = Aliases(s)
  BY <1>1 DEF Probed, Aliases
<1>5. /\ \A m, n : Missed(s, m, n)' = Missed(s, m, n) /\ Found(s, m, n)' = Found(s, m, n)
      /\ \A k : Target(s, k)' = Target(s, k) /\ Current(s, k)' = Current(s, k)
  BY <1>1 DEF Missed, Found, Target, Current
<1>6. Looking(s)' = Looking(s)
  BY <1>1, <1>3, <1>4, <1>5 DEF Looking
<1>7. ChosenAlias(s)' = ChosenAlias(s)
  BY <1>1, <1>4, <1>5 DEF ChosenAlias
<1>8. Settled(s)' = Settled(s)
  BY <1>1 DEF Settled
<1>9. QED
  BY <1>1, <1>2, <1>3, <1>4, <1>5, <1>6, <1>7, <1>8 DEF StateInv

LEMMA LabelShape ==
  /\ \A domain : Blank \in Labels(domain)
  /\ \A domain : \A l \in Lists, name \in domain :
       MatchingPattern(l, name) \in Labels(domain)
BY DEF Labels

LEMMA EmptyResultShape == EmptyResult \in RouteResults
<1>1. Blank \in Labels(Queries) /\ Blank \in Labels(Name) /\ Blank \in ResolverNames
  BY LabelShape DEF ResolverNames
<1>2. QED
  BY <1>1 DEF EmptyResult, RouteResults

LEMMA InitInv == Init => TypeOK /\ Inv
<1> SUFFICES ASSUME Init PROVE TypeOK /\ Inv
  OBVIOUS
<1>1. EmptyResult \in RouteResults
  BY EmptyResultShape
<1>2. TypeOK
  <2>1. <<>> \in Logs
    BY DEF Logs
  <2>2. QED
    BY <1>1, <2>1 DEF Init, TypeOK, PCs, Ended
<1>3. Inv
  BY DEF Init, Inv, StateInv, Ended, Fresh
<1>4. QED
  BY <1>2, <1>3
-----------------------------------------------------------------------------
\* The three updates of a RouteResult keep its shape.
LEMMA MatchedResultShape ==
  ASSUME NEW list \in Lists, NEW q \in Queries
  PROVE  MatchedResult(list, q) \in RouteResults
<1>1. MatchingPattern(list, q) \in Labels(Queries)
  BY LabelShape
<1>2. QED
  BY <1>1, EmptyResultShape DEF MatchedResult, RouteResults

LEMMA CNAMEResultShape ==
  ASSUME NEW res \in RouteResults, NEW list \in Lists, NEW name \in Name
  PROVE  CNAMEResult(res, list, name) \in RouteResults
<1>1. MatchingPattern(list, name) \in Labels(Name)
  BY LabelShape
<1>2. QED
  BY <1>1 DEF CNAMEResult, RouteResults

LEMMA AnsweredResultShape ==
  ASSUME NEW res \in RouteResults, NEW resolver \in Resolvers, NEW reply \in Replies
  PROVE  AnsweredResult(res, resolver, reply) \in RouteResults
<1>1. reply.answer \in Answers \cup {<<>>} /\ resolver.name \in ResolverNames
  BY ReplyShape DEF Resolvers, ResolverNames
<1>2. QED
  BY <1>1 DEF AnsweredResult, RouteResults

\* One more exchange after at most one keeps the log within two.
LEMMA LogShape ==
  ASSUME NEW l \in Logs, Len(l) <= 1, NEW e \in Exchanges
  PROVE  Append(l, e) \in Logs
BY AppendProperties, LenProperties DEF Logs

\* Before its last exchange a call has made at most one.
LEMMA ShortLog ==
  ASSUME TypeOK, NEW r \in Requests, StateInv(r),
         pc[r] \in Fallbacks \cup {"explicit", "again"}
  PROVE  Len(log[r]) <= 1
<1>1. Probed(r) => Len(log[r]) <= 1
  <2> SUFFICES ASSUME NEW reply, log[r] = <<Exchange(router.explicit, reply)>>
               PROVE  Len(log[r]) <= 1
    BY DEF Probed
  <2>1. \A e : Len(<<e>>) = 1
    OBVIOUS
  <2>2. QED
    BY <2>1
<1>2. log[r] = <<>> \/ Probed(r)
  BY DEF StateInv, Fallbacks, Fresh, Looking
<1>3. Len(<<>>) = 0
  OBVIOUS
<1>4. QED
  BY <1>1, <1>2, <1>3

LEMMA TypeStep == TypeOK /\ Inv /\ [Next]_vars => TypeOK'
<1> SUFFICES ASSUME TypeOK, Inv, [Next]_vars PROVE TypeOK'
  OBVIOUS
<1> USE DEF PCs, Ended, Fallbacks, Goto, Fail
<1>0. \A r \in Requests : StateInv(r)
  BY DEF Inv
<1>1. ASSUME NEW r \in Requests, Arrive(r) PROVE TypeOK'
  <2>1. <<>> \in Logs
    BY DEF Logs
  <2>2. QED
    BY <1>1, <2>1, EmptyResultShape DEF Arrive, TypeOK
<1>2. ASSUME NEW r \in Requests, MatchRequest(r) PROVE TypeOK'
  <2>1. pc' \in [Requests -> PCs]
    BY <1>2 DEF MatchRequest, TypeOK
  <2>2. result' \in [Requests -> RouteResults]
    BY <1>2, EmptyResultShape DEF MatchRequest, TypeOK
  <2>3. QED
    BY <1>2, <2>1, <2>2 DEF MatchRequest, TypeOK
<1>3. ASSUME NEW r \in Requests, LabelRequest(r) PROVE TypeOK'
  <2>1. lists["request"] \in Lists /\ qname[r] \in Queries
    BY <1>0, <1>3 DEF LabelRequest, TypeOK, StateInv, Matchers
  <2>2. MatchedResult(lists["request"], qname[r]) \in RouteResults
    BY <2>1, MatchedResultShape
  <2>3. QED
    BY <1>3, <2>2 DEF LabelRequest, TypeOK
<1>4. ASSUME NEW r \in Requests, QueryExplicit(r) PROVE TypeOK'
  <2>1. PICK reply \in Replies :
          /\ log' = [log EXCEPT ![r] = Append(@, Exchange(router.explicit, reply))]
          /\ names' = [names EXCEPT ![r] = CNAMEs(reply.answer)]
          /\ \/ Fail(r)
             \/ \E pc1 \in {"noCnameResponse", "cname"} : Goto(r, pc1) /\ UNCHANGED result
    BY <1>4 DEF QueryExplicit
  <2>2. Len(log[r]) <= 1
    BY <1>0, <1>4, ShortLog DEF QueryExplicit
  <2>3. Exchange(router.explicit, reply) \in Exchanges
    BY RouterShape, ExchangeShape DEF TypeOK
  <2>4. log' \in [Requests -> Logs]
    BY <2>1, <2>2, <2>3, LogShape DEF TypeOK
  <2>5. names' \in [Requests -> SUBSET Nat]
    BY <2>1, ReplyShape DEF TypeOK
  <2>6. pc' \in [Requests -> PCs] /\ result' \in [Requests -> RouteResults]
    BY <2>1, EmptyResultShape DEF TypeOK
  <2>7. QED
    BY <1>4, <2>4, <2>5, <2>6 DEF QueryExplicit, TypeOK
<1>5. ASSUME NEW r \in Requests, MatchCNAME(r) PROVE TypeOK'
  BY <1>5 DEF MatchCNAME, TypeOK
<1>6. ASSUME NEW r \in Requests, NoCNAMEMatches(r) PROVE TypeOK'
  BY <1>6 DEF NoCNAMEMatches, TypeOK
<1>7. ASSUME NEW r \in Requests, LabelCNAME(r) PROVE TypeOK'
  <2>1. PICK k \in names[r] :
          result' = [result EXCEPT ![r] = CNAMEResult(@, lists["cname"], Target(r, k))]
    BY <1>7 DEF LabelCNAME
  <2>2. Target(r, k) \in Name
    BY <1>0, <1>7, <2>1, TargetShape DEF LabelCNAME, StateInv, Looking
  <2>3. CNAMEResult(result[r], lists["cname"], Target(r, k)) \in RouteResults
    BY <2>2, CNAMEResultShape DEF TypeOK, Matchers
  <2>4. QED
    BY <1>7, <2>1, <2>3 DEF LabelCNAME, TypeOK
<1>8. ASSUME NEW r \in Requests, NEW resolver \in Resolvers, Answer(r, resolver),
             pc[r] \in Fallbacks \cup {"again"}
      PROVE  TypeOK'
  <2>1. PICK reply \in Replies :
          /\ log' = [log EXCEPT ![r] = Append(@, Exchange(resolver, reply))]
          /\ \/ Fail(r)
             \/ /\ result' = [result EXCEPT ![r] = AnsweredResult(@, resolver, reply)]
                /\ Goto(r, "answered")
    BY <1>8 DEF Answer
  <2>2. Len(log[r]) <= 1
    BY <1>0, <1>8, ShortLog
  <2>3. Exchange(resolver, reply) \in Exchanges
    BY ExchangeShape
  <2>4. log' \in [Requests -> Logs]
    BY <2>1, <2>2, <2>3, LogShape DEF TypeOK
  <2>5. result' \in [Requests -> RouteResults]
    BY <2>1, EmptyResultShape, AnsweredResultShape DEF TypeOK
  <2>6. pc' \in [Requests -> PCs]
    BY <2>1 DEF TypeOK
  <2>7. QED
    BY <1>8, <2>4, <2>5, <2>6 DEF Answer, TypeOK
<1>9. ASSUME NEW r \in Requests, QueryExplicitAgain(r) PROVE TypeOK'
  BY <1>8, <1>9, RouterShape DEF QueryExplicitAgain, TypeOK
<1>10. ASSUME NEW r \in Requests, NEW role \in Fallbacks, QueryFallback(r, role)
       PROVE  TypeOK'
  <2>1. CASE router[role] = Nil
    BY <1>10, <2>1, EmptyResultShape DEF QueryFallback, TypeOK
  <2>2. CASE router[role] # Nil
    BY <1>8, <1>10, <2>2, RouterShape DEF QueryFallback, TypeOK
  <2>3. QED
    BY <2>1, <2>2
<1>11. ASSUME NEW m \in Matchers, Update(m) PROVE TypeOK'
  <2>1. PICK inputs \in Updates :
          /\ Compiles(inputs)
          /\ lists' = [lists EXCEPT ![m] = Compile(inputs)]
          /\ window' = [s \in Requests |->
               IF pc[s] \in Ended THEN window[s]
               ELSE [window[s] EXCEPT ![m] = @ \cup {Compile(inputs)}]]
    BY <1>11 DEF Update
  <2>2. Compile(inputs) \in Lists
    BY <2>1 DEF Lists
  <2>3. QED
    BY <1>11, <2>1, <2>2 DEF Update, TypeOK
<1>12. CASE UNCHANGED vars
  BY <1>12 DEF vars, TypeOK
<1>13. QED
  BY <1>1, <1>2, <1>3, <1>4, <1>5, <1>6, <1>7, <1>9, <1>10, <1>11, <1>12
     DEF Next, Step
-----------------------------------------------------------------------------
\* INSTANCE gives the contract copies of the operators of Wiring and Matcher;
\* they are the same operators.
LEMMA SameMatch ==
  ASSUME NEW list, NEW name
  PROVE  /\ Contract!Match(list, name) <=> Match(list, name)
         /\ Contract!MatchingPattern(list, name) = MatchingPattern(list, name)
<1>1. Contract!Hits(list, name) = Hits(list, name)
  BY DEF Contract!Hits, Hits
<1>2. Contract!Match(list, name) <=> Match(list, name)
  BY <1>1 DEF Contract!Match, Match
<1>3. Contract!MatchingPattern(list, name) = MatchingPattern(list, name)
  BY <1>1, <1>2 DEF Contract!MatchingPattern, MatchingPattern
<1>4. QED
  BY <1>2, <1>3

LEMMA SameOperators ==
  /\ Contract!Nil = Nil
  /\ Contract!EmptyResult = EmptyResult
  /\ Contract!Replies = Replies
  /\ \A resolver, reply : Contract!Exchange(resolver, reply) = Exchange(resolver, reply)
  /\ \A answer : Contract!CNAMEs(answer) = CNAMEs(answer)
  /\ \A list, q : Contract!MatchedResult(list, q) = MatchedResult(list, q)
  /\ \A res, list, name :
       Contract!CNAMEResult(res, list, name) = CNAMEResult(res, list, name)
  /\ \A res, resolver, reply :
       Contract!AnsweredResult(res, resolver, reply) = AnsweredResult(res, resolver, reply)
<1>1. Contract!EmptyResult = EmptyResult
  BY DEF Contract!EmptyResult, EmptyResult
<1>2. \A list, q : Contract!MatchedResult(list, q) = MatchedResult(list, q)
  BY <1>1, SameMatch DEF Contract!MatchedResult, MatchedResult
<1>3. \A res, list, name :
        Contract!CNAMEResult(res, list, name) = CNAMEResult(res, list, name)
  BY SameMatch DEF Contract!CNAMEResult, CNAMEResult
<1>4. \A res, resolver, reply :
        Contract!AnsweredResult(res, resolver, reply) = AnsweredResult(res, resolver, reply)
  BY DEF Contract!AnsweredResult, AnsweredResult
<1>5. Contract!Nil = Nil /\ Contract!Replies = Replies
  BY DEF Contract!Nil, Nil, Contract!Replies, Replies, Contract!Failure, Failure
<1>6. \A resolver, reply : Contract!Exchange(resolver, reply) = Exchange(resolver, reply)
  BY DEF Contract!Exchange, Exchange
<1>7. \A answer : Contract!CNAMEs(answer) = CNAMEs(answer)
  BY DEF Contract!CNAMEs, CNAMEs
<1>8. QED
  BY <1>1, <1>2, <1>3, <1>4, <1>5, <1>6, <1>7

LEMMA InvMatchRequest ==
  ASSUME TypeOK, Inv, NEW r \in Requests, MatchRequest(r)
  PROVE  StateInv(r)'
<1>1. StateInv(r) /\ pc[r] = "match" /\ InWindow(r) /\ Fresh(r)
  BY DEF Inv, StateInv, MatchRequest, Ended
<1>2. lists["request"] \in window[r]["request"]
  BY <1>1 DEF InWindow, Matchers
<1>3. CASE qname[r] = NoQuestion
  <2>1. pc'[r] = "failed" /\ result'[r] = EmptyResult /\ log'[r] = <<>>
        /\ qname'[r] = NoQuestion
    BY <1>1, <1>3 DEF MatchRequest, Fail, Goto, Fresh, TypeOK
  <2>2. Settled(r)'
    BY <2>1, SameOperators DEF Settled, Contract!Legal, Contract!FailedWith
  <2>3. QED
    BY <2>1, <2>2 DEF StateInv, Ended
<1>4. CASE qname[r] # NoQuestion /\ router.requestMatcher /\ Match(lists["request"], qname[r])
  <2>1. pc'[r] = "label" /\ UNCHANGED <<router, lists, qname, names, log, window, result>>
    BY <1>1, <1>4 DEF MatchRequest, Goto, TypeOK
  <2>2. QED
    BY <1>1, <1>2, <1>4, <2>1 DEF StateInv, Ended, InWindow, Fresh, Found
<1>5. CASE qname[r] # NoQuestion /\ ~ (router.requestMatcher /\ Match(lists["request"], qname[r]))
  <2>1. pc'[r] = "passthrough" /\ UNCHANGED <<router, lists, qname, names, log, window, result>>
    BY <1>1, <1>5 DEF MatchRequest, Goto, TypeOK
  <2>2. QED
    BY <1>1, <1>2, <1>5, <2>1 DEF StateInv, Ended, InWindow, Fresh, Missed
<1>6. QED
  BY <1>3, <1>4, <1>5

LEMMA InvLabelRequest ==
  ASSUME TypeOK, Inv, NEW r \in Requests, LabelRequest(r)
  PROVE  StateInv(r)'
<1>1. /\ pc[r] = "label" /\ InWindow(r) /\ Fresh(r)
      /\ qname[r] # NoQuestion /\ router.requestMatcher /\ Found(r, "request", qname[r])
  BY DEF Inv, StateInv, LabelRequest, Ended
<1>2. lists["request"] \in window[r]["request"]
  BY <1>1 DEF InWindow, Matchers
<1>3. /\ result'[r] = MatchedResult(lists["request"], qname[r])
      /\ UNCHANGED <<router, lists, qname, names, log, window>>
      /\ pc'[r] = IF router.explicit = Nil THEN "noCnameResponse" ELSE "explicit"
  BY DEF LabelRequest, Goto, TypeOK
<1>4. Labelled(r)' /\ log'[r] = <<>>
  BY <1>1, <1>2, <1>3 DEF Labelled, Found, Fresh
<1>5. InWindow(r)'
  BY <1>1, <1>3 DEF InWindow
<1>6. QED
  BY <1>3, <1>4, <1>5 DEF StateInv, Ended

LEMMA InvQueryExplicit ==
  ASSUME TypeOK, Inv, NEW r \in Requests, QueryExplicit(r)
  PROVE  StateInv(r)'
<1>1. /\ pc[r] = "explicit" /\ InWindow(r) /\ Labelled(r)
      /\ router.explicit # Nil /\ log[r] = <<>>
  BY DEF Inv, StateInv, QueryExplicit, Ended
<1>2. PICK reply \in Replies :
        /\ log' = [log EXCEPT ![r] = Append(@, Exchange(router.explicit, reply))]
        /\ names' = [names EXCEPT ![r] = CNAMEs(reply.answer)]
        /\ IF ~ reply.ok THEN Fail(r)
           ELSE /\ Goto(r, IF CNAMEs(reply.answer) = {} \/ ~ router.cnameMatcher
                           THEN "noCnameResponse" ELSE "cname")
                /\ UNCHANGED result
  BY DEF QueryExplicit
<1>3. UNCHANGED <<router, lists, qname, window>>
  BY DEF QueryExplicit
<1>4. log'[r] = <<Exchange(router.explicit, reply)>> /\ names'[r] = CNAMEs(reply.answer)
  BY <1>1, <1>2 DEF TypeOK
<1>5. log'[r][1].reply = reply
  BY <1>4 DEF Exchange
<1>6. InWindow(r)'
  BY <1>1, <1>3 DEF InWindow
<1>7. CASE ~ reply.ok
  <2>1. pc'[r] = "failed" /\ result'[r] = EmptyResult
    BY <1>2, <1>7 DEF Fail, Goto, TypeOK
  <2>2. Contract!FailedWith([state |-> pc'[r], result |-> result'[r], log |-> log'[r]],
                            <<Exchange(router.explicit, reply)>>)
    BY <2>1, <1>4, SameOperators DEF Contract!FailedWith
  <2>3. PICK l \in window[r]["request"] : result[r] = MatchedResult(l, qname[r])
    BY <1>1 DEF Labelled
  <2>4. Contract!Matched(router, qname[r], window[r],
          [state |-> pc'[r], result |-> result'[r], log |-> log'[r]])
    BY <2>2, <2>3, <1>1, <1>7, SameOperators, SameMatch
       DEF Contract!Matched, Labelled, Found
  <2>5. Settled(r)'
    BY <2>4, <1>1, <1>3 DEF Settled, Contract!Legal, Labelled
  <2>6. QED
    BY <2>1, <2>5 DEF StateInv, Ended
<1>8. CASE reply.ok
  <2>1. /\ UNCHANGED result
        /\ pc'[r] = IF CNAMEs(reply.answer) = {} \/ ~ router.cnameMatcher
                    THEN "noCnameResponse" ELSE "cname"
    BY <1>2, <1>8 DEF Goto, TypeOK
  <2>2. Labelled(r)'
    BY <2>1, <1>1, <1>3 DEF Labelled, Found
  <2>3. Probed(r)'
    BY <1>1, <1>3, <1>4, <1>8 DEF Probed
  <2>4. Aliases(r)' = CNAMEs(reply.answer)
    BY <1>5 DEF Aliases
  <2>5. CASE CNAMEs(reply.answer) = {} \/ ~ router.cnameMatcher
    BY <2>1, <2>2, <2>3, <2>4, <2>5, <1>3, <1>6 DEF StateInv, Ended
  <2>6. CASE ~ (CNAMEs(reply.answer) = {} \/ ~ router.cnameMatcher)
    <3>1. Looking(r)'
      BY <2>2, <2>3, <2>4, <2>6, <1>3, <1>4 DEF Looking
    <3>2. QED
      BY <2>1, <2>6, <3>1, <1>6 DEF StateInv, Ended
  <2>7. QED
    BY <2>5, <2>6
<1>9. QED
  BY <1>7, <1>8

LEMMA InvMatchCNAME ==
  ASSUME TypeOK, Inv, NEW r \in Requests, MatchCNAME(r)
  PROVE  StateInv(r)'
<1>1. pc[r] = "cname" /\ InWindow(r) /\ Looking(r)
  BY DEF Inv, StateInv, MatchCNAME, Ended
<1>2. UNCHANGED <<router, lists, qname, result, log, window>>
  BY DEF MatchCNAME
<1>3. PICK k \in names[r] :
        /\ Current(r, k)
        /\ IF Match(lists["cname"], Target(r, k))
           THEN Goto(r, "labelCNAME") /\ UNCHANGED names
           ELSE names' = [names EXCEPT ![r] = @ \ {k}] /\ UNCHANGED pc
  BY DEF MatchCNAME
<1>4. lists["cname"] \in window[r]["cname"]
  BY <1>1 DEF InWindow, Matchers
<1>5. InWindow(r)'
  BY <1>1, <1>2 DEF InWindow
<1>6. /\ Labelled(r)' /\ Probed(r)' /\ Aliases(r)' = Aliases(r)
      /\ \A j : Target(r, j)' = Target(r, j)
      /\ \A m, name : Missed(r, m, name)' <=> Missed(r, m, name)
  BY <1>1, <1>2 DEF Looking, Labelled, Probed, Aliases, Target, Missed, Found
<1>7. CASE Match(lists["cname"], Target(r, k))
  <2>1. pc'[r] = "labelCNAME" /\ UNCHANGED names
    BY <1>3, <1>7 DEF Goto, TypeOK
  <2>2. Looking(r)'
    BY <2>1, <1>1, <1>2, <1>6 DEF Looking
  <2>3. k \in names'[r] /\ Current(r, k)' /\ Found(r, "cname", Target(r, k))'
    BY <2>1, <1>2, <1>3, <1>4, <1>6, <1>7 DEF Current, Found
  <2>4. QED
    BY <2>1, <2>2, <2>3, <1>5 DEF StateInv, Ended
<1>8. CASE ~ Match(lists["cname"], Target(r, k))
  <2>1. UNCHANGED pc /\ names'[r] = names[r] \ {k}
    BY <1>3, <1>8 DEF TypeOK
  <2>2. Missed(r, "cname", Target(r, k))
    BY <1>4, <1>8 DEF Missed
  <2>3. Looking(r)'
    BY <2>1, <2>2, <1>1, <1>2, <1>6 DEF Looking
  <2>4. QED
    BY <2>1, <2>3, <1>1, <1>5 DEF StateInv, Ended
<1>9. QED
  BY <1>7, <1>8

LEMMA InvNoCNAMEMatches ==
  ASSUME TypeOK, Inv, NEW r \in Requests, NoCNAMEMatches(r)
  PROVE  StateInv(r)'
<1>1. pc[r] = "cname" /\ InWindow(r) /\ Looking(r) /\ names[r] = {}
  BY DEF Inv, StateInv, NoCNAMEMatches, Ended
<1>2. /\ UNCHANGED <<router, lists, qname, result, names, log, window>>
      /\ pc'[r] = "noCnameMatch"
  BY DEF NoCNAMEMatches, Goto, TypeOK
<1>3. InWindow(r)' /\ Looking(r)'
  BY <1>1, <1>2 DEF InWindow, Looking, Labelled, Found, Probed, Aliases, Missed, Target
<1>4. QED
  BY <1>1, <1>2, <1>3 DEF StateInv, Ended

LEMMA InvLabelCNAME ==
  ASSUME TypeOK, Inv, NEW r \in Requests, LabelCNAME(r)
  PROVE  StateInv(r)'
<1>1. /\ pc[r] = "labelCNAME" /\ InWindow(r) /\ Looking(r)
      /\ \E k \in names[r] : Current(r, k) /\ Found(r, "cname", Target(r, k))
  BY DEF Inv, StateInv, LabelCNAME, Ended
<1>2. UNCHANGED <<router, lists, qname, names, log, window>> /\ pc'[r] = "again"
  BY DEF LabelCNAME, Goto, TypeOK
<1>3. PICK k \in names[r] :
        /\ Current(r, k)
        /\ result' = [result EXCEPT ![r] = CNAMEResult(@, lists["cname"], Target(r, k))]
  BY DEF LabelCNAME
<1>4. Aliases(r) \subseteq Nat /\ names[r] \subseteq Aliases(r)
  BY <1>1, TargetShape DEF Looking
<1>5. Found(r, "cname", Target(r, k))
  <2>1. PICK j \in names[r] : Current(r, j) /\ Found(r, "cname", Target(r, j))
    BY <1>1
  <2>2. j = k
    BY <2>1, <1>3, <1>4 DEF Current
  <2>3. QED
    BY <2>1, <2>2
<1>6. \A j \in Aliases(r) : j < k => Missed(r, "cname", Target(r, j))
  BY <1>1, <1>3, <1>4 DEF Looking, Current
<1>7. PICK l1 \in window[r]["request"] : result[r] = MatchedResult(l1, qname[r])
  BY <1>1 DEF Looking, Labelled
<1>8. result'[r] = CNAMEResult(MatchedResult(l1, qname[r]), lists["cname"], Target(r, k))
  BY <1>3, <1>7 DEF TypeOK
<1>9. lists["cname"] \in window[r]["cname"]
  BY <1>1 DEF InWindow, Matchers
<1>10. ChosenAlias(r)'
  <2>1. /\ Aliases(r)' = Aliases(r)
        /\ \A j : Target(r, j)' = Target(r, j)
        /\ \A m, name : Missed(r, m, name)' <=> Missed(r, m, name)
        /\ \A m, name : Found(r, m, name)' <=> Found(r, m, name)
    BY <1>2 DEF Aliases, Target, Missed, Found
  <2>2. k \in Aliases(r)
    BY <1>4
  <2>3. QED
    BY <2>1, <2>2, <1>2, <1>5, <1>6, <1>8, <1>9 DEF ChosenAlias
<1>11. InWindow(r)' /\ Probed(r)' /\ Found(r, "request", qname[r])'
  BY <1>1, <1>2 DEF InWindow, Looking, Labelled, Probed, Found
<1>12. qname'[r] # NoQuestion /\ router'.requestMatcher /\ router'.cnameMatcher
  BY <1>1, <1>2 DEF Looking, Labelled
<1>13. QED
  BY <1>2, <1>10, <1>11, <1>12 DEF StateInv, Ended
-----------------------------------------------------------------------------
\* Whatever resolver is asked last, the settlement it leads to is legal.
ReadyFor(r, resolver) ==
  \A o : Contract!SettledBy(o, resolver, result[r], log[r])
           => Contract!Legal(router, qname[r], window[r], o)

LEMMA ReadyPassthrough ==
  ASSUME TypeOK, NEW r \in Requests, StateInv(r), pc[r] = "passthrough"
  PROVE  ReadyFor(r, router.passthrough)
<1>1. /\ Fresh(r) /\ qname[r] # NoQuestion
      /\ router.requestMatcher => Missed(r, "request", qname[r])
  BY DEF StateInv
<1>2. SUFFICES ASSUME NEW o, Contract!SettledBy(o, router.passthrough, EmptyResult, <<>>)
               PROVE  Contract!PassedThrough(router, qname[r], window[r], o)
  BY <1>1 DEF ReadyFor, Fresh, Contract!Legal
<1>3. QED
  BY <1>1, <1>2, SameOperators, SameMatch DEF Contract!PassedThrough, Missed

\* The three ways from a matched question to the last resolver.
LEMMA ReadyNoCnameResponse ==
  ASSUME TypeOK, NEW r \in Requests, StateInv(r), pc[r] = "noCnameResponse"
  PROVE  ReadyFor(r, router.noCnameResponse)
<1>1. /\ Labelled(r)
      /\ \/ router.explicit = Nil /\ log[r] = <<>>
         \/ Probed(r) /\ (Aliases(r) = {} \/ ~ router.cnameMatcher)
  BY DEF StateInv
<1>2. SUFFICES ASSUME NEW o,
                      Contract!SettledBy(o, router.noCnameResponse, result[r], log[r])
               PROVE  Contract!Matched(router, qname[r], window[r], o)
  BY <1>1 DEF ReadyFor, Labelled, Contract!Legal
<1>3. PICK l \in window[r]["request"] : result[r] = MatchedResult(l, qname[r])
  BY <1>1 DEF Labelled
<1>4. router.requestMatcher /\ \E list \in window[r]["request"] : Contract!Match(list, qname[r])
  BY <1>1, SameMatch DEF Labelled, Found
<1>5. CASE router.explicit = Nil /\ log[r] = <<>>
  BY <1>2, <1>3, <1>4, <1>5, SameOperators DEF Contract!Matched
<1>6. CASE Probed(r) /\ (Aliases(r) = {} \/ ~ router.cnameMatcher)
  <2>1. PICK reply \in Replies : reply.ok /\ log[r] = <<Exchange(router.explicit, reply)>>
    BY <1>6 DEF Probed
  <2>2. Aliases(r) = CNAMEs(reply.answer)
    BY <2>1 DEF Aliases, Exchange
  <2>3. Contract!ProbedTo(router, window[r], o, result[r], log[r], reply.answer)
    BY <1>2, <1>6, <2>2, SameOperators DEF Contract!ProbedTo
  <2>4. QED
    BY <1>3, <1>4, <1>6, <2>1, <2>3, SameOperators DEF Contract!Matched, Probed
<1>7. QED
  BY <1>1, <1>5, <1>6

LEMMA ReadyNoCnameMatch ==
  ASSUME TypeOK, NEW r \in Requests, StateInv(r), pc[r] = "noCnameMatch"
  PROVE  ReadyFor(r, router.noCnameMatch)
<1>1. Looking(r) /\ names[r] = {}
  BY DEF StateInv
<1>2. SUFFICES ASSUME NEW o,
                      Contract!SettledBy(o, router.noCnameMatch, result[r], log[r])
               PROVE  Contract!Matched(router, qname[r], window[r], o)
  BY <1>1 DEF ReadyFor, Looking, Labelled, Contract!Legal
<1>3. PICK l \in window[r]["request"] : result[r] = MatchedResult(l, qname[r])
  BY <1>1 DEF Looking, Labelled
<1>4. router.requestMatcher /\ \E list \in window[r]["request"] : Contract!Match(list, qname[r])
  BY <1>1, SameMatch DEF Looking, Labelled, Found
<1>5. PICK reply \in Replies : reply.ok /\ log[r] = <<Exchange(router.explicit, reply)>>
  BY <1>1 DEF Looking, Probed
<1>6. /\ Aliases(r) = CNAMEs(reply.answer)
      /\ \A k : Target(r, k) = reply.answer[k].target
  BY <1>5 DEF Aliases, Target, Exchange
<1>7. \A k \in CNAMEs(reply.answer) :
        \E list \in window[r]["cname"] : ~ Match(list, reply.answer[k].target)
  BY <1>1, <1>6 DEF Looking, Missed
<1>8. Contract!ProbedTo(router, window[r], o, result[r], log[r], reply.answer)
  BY <1>1, <1>2, <1>6, <1>7, SameOperators, SameMatch DEF Contract!ProbedTo, Looking
<1>9. QED
  BY <1>1, <1>3, <1>4, <1>5, <1>8, SameOperators DEF Contract!Matched, Looking, Probed

LEMMA ReadyAgain ==
  ASSUME TypeOK, NEW r \in Requests, StateInv(r), pc[r] = "again"
  PROVE  ReadyFor(r, router.explicit)
<1>1. /\ qname[r] # NoQuestion /\ router.requestMatcher /\ router.cnameMatcher
      /\ Found(r, "request", qname[r]) /\ Probed(r) /\ ChosenAlias(r)
  BY DEF StateInv
<1>2. SUFFICES ASSUME NEW o,
                      Contract!SettledBy(o, router.explicit, result[r], log[r])
               PROVE  Contract!Matched(router, qname[r], window[r], o)
  BY <1>1 DEF ReadyFor, Contract!Legal
<1>3. PICK reply \in Replies : reply.ok /\ log[r] = <<Exchange(router.explicit, reply)>>
  BY <1>1 DEF Probed
<1>4. /\ Aliases(r) = CNAMEs(reply.answer)
      /\ \A k : Target(r, k) = reply.answer[k].target
  BY <1>3 DEF Aliases, Target, Exchange
<1>5. PICK k \in CNAMEs(reply.answer),
           l1 \in window[r]["request"], l2 \in window[r]["cname"] :
        /\ \E list \in window[r]["cname"] : Match(list, reply.answer[k].target)
        /\ \A j \in CNAMEs(reply.answer) :
             j < k => \E list \in window[r]["cname"] : ~ Match(list, reply.answer[j].target)
        /\ result[r] = CNAMEResult(MatchedResult(l1, qname[r]), l2, reply.answer[k].target)
  BY <1>1, <1>4 DEF ChosenAlias, Found, Missed
<1>6. Contract!ProbedTo(router, window[r], o, MatchedResult(l1, qname[r]), log[r], reply.answer)
  BY <1>1, <1>2, <1>5, SameOperators, SameMatch DEF Contract!ProbedTo
<1>7. \E list \in window[r]["request"] : Contract!Match(list, qname[r])
  BY <1>1, SameMatch DEF Found
<1>8. QED
  BY <1>1, <1>3, <1>6, <1>7, SameOperators DEF Contract!Matched, Probed

\* The last resolver is nil: the error settles the call.
LEMMA NilSettles ==
  ASSUME TypeOK, NEW r \in Requests, ReadyFor(r, Nil), Fail(r),
         UNCHANGED <<router, lists, qname, names, log, window>>
  PROVE  StateInv(r)'
<1>1. pc'[r] = "failed" /\ result'[r] = EmptyResult /\ log'[r] = log[r]
  BY DEF Fail, Goto, TypeOK
<1>2. Contract!SettledBy([state |-> pc'[r], result |-> result'[r], log |-> log'[r]],
                         Nil, result[r], log[r])
  BY <1>1, SameOperators DEF Contract!SettledBy, Contract!FailedWith
<1>3. Settled(r)'
  BY <1>2 DEF ReadyFor, Settled
<1>4. QED
  BY <1>1, <1>3 DEF StateInv, Ended

\* The last resolver answers or fails.
LEMMA AnswerSettles ==
  ASSUME TypeOK, NEW r \in Requests, NEW resolver \in Resolvers, resolver # Nil,
         ReadyFor(r, resolver), Answer(r, resolver)
  PROVE  StateInv(r)'
<1>1. PICK reply \in Replies :
        /\ log' = [log EXCEPT ![r] = Append(@, Exchange(resolver, reply))]
        /\ IF ~ reply.ok THEN Fail(r)
           ELSE /\ result' = [result EXCEPT ![r] = AnsweredResult(@, resolver, reply)]
                /\ Goto(r, "answered")
  BY DEF Answer
<1> DEFINE o == [state |-> pc'[r], result |-> result'[r], log |-> log'[r]]
           after == Append(log[r], Exchange(resolver, reply))
<1>2. log'[r] = after
  BY <1>1 DEF TypeOK
<1>3. UNCHANGED <<router, lists, qname, names, window>>
  BY DEF Answer
<1>4. CASE ~ reply.ok
  <2>1. pc'[r] = "failed" /\ result'[r] = EmptyResult
    BY <1>1, <1>4 DEF Fail, Goto, TypeOK
  <2>2. Contract!FailedWith(o, after)
    BY <2>1, <1>2, SameOperators DEF Contract!FailedWith
  <2>3. Contract!SettledBy(o, resolver, result[r], log[r])
    BY <2>2, <1>4, SameOperators DEF Contract!SettledBy
  <2>4. QED
    BY <2>1, <2>3, <1>3 DEF ReadyFor, Settled, StateInv, Ended
<1>5. CASE reply.ok
  <2>1. pc'[r] = "answered" /\ result'[r] = AnsweredResult(result[r], resolver, reply)
    BY <1>1, <1>5 DEF Goto, TypeOK
  <2>2. Contract!SettledBy(o, resolver, result[r], log[r])
    BY <2>1, <1>2, <1>5, SameOperators DEF Contract!SettledBy
  <2>3. QED
    BY <2>1, <2>2, <1>3 DEF ReadyFor, Settled, StateInv, Ended
<1>6. QED
  BY <1>4, <1>5
-----------------------------------------------------------------------------
\* An update takes nothing away from what a running call has established: its
\* window only grows.
LEMMA InvUpdate ==
  ASSUME TypeOK, NEW m \in Matchers, Update(m), NEW s \in Requests, StateInv(s)
  PROVE  StateInv(s)'
<1>1. PICK inputs \in Updates :
        /\ Compiles(inputs)
        /\ lists' = [lists EXCEPT ![m] = Compile(inputs)]
        /\ window' = [r \in Requests |->
             IF pc[r] \in Ended THEN window[r]
             ELSE [window[r] EXCEPT ![m] = @ \cup {Compile(inputs)}]]
  BY DEF Update
<1>2. UNCHANGED <<router, pc, qname, result, names, log>>
  BY DEF Update
<1>3. CASE pc[s] \in Ended
  <2>1. window'[s] = window[s]
    BY <1>1, <1>3
  <2>2. QED
    BY <1>2, <1>3, <2>1 DEF StateInv, Ended, Fallbacks, Fresh, Settled
<1>4. CASE pc[s] \notin Ended
  <2>1. window'[s] = [window[s] EXCEPT ![m] = @ \cup {Compile(inputs)}]
    BY <1>1, <1>4
  <2>2. \A n \in Matchers : window[s][n] \subseteq window'[s][n]
    BY <2>1 DEF TypeOK
  <2>3. InWindow(s)'
    <3>1. InWindow(s)
      BY <1>4 DEF StateInv
    <3>2. Compile(inputs) \in window'[s][m] /\ lists'[m] = Compile(inputs)
      BY <1>1, <2>1 DEF TypeOK
    <3>3. \A n \in Matchers : n # m => lists'[n] = lists[n]
      BY <1>1 DEF TypeOK
    <3>4. QED
      BY <3>1, <3>2, <3>3, <2>2 DEF InWindow
  <2>4. /\ "request" \in Matchers /\ "cname" \in Matchers
        /\ \A n \in Matchers : \A name : Found(s, n, name) => Found(s, n, name)'
        /\ \A n \in Matchers : \A name : Missed(s, n, name) => Missed(s, n, name)'
    BY <2>2 DEF Found, Missed, Matchers
  <2>5. /\ Fresh(s)' <=> Fresh(s)
        /\ Probed(s)' <=> Probed(s)
        /\ Aliases(s)' = Aliases(s)
        /\ \A k : Target(s, k)' = Target(s, k)
        /\ \A k : Current(s, k)' <=> Current(s, k)
    BY <1>2 DEF Fresh, Probed, Aliases, Target, Current
  <2>6. Labelled(s) => Labelled(s)'
    BY <1>2, <2>2, <2>4 DEF Labelled
  <2>7. Looking(s) => Looking(s)'
    BY <1>2, <2>4, <2>5, <2>6 DEF Looking
  <2>8. ChosenAlias(s) => ChosenAlias(s)'
    BY <1>2, <2>2, <2>4, <2>5 DEF ChosenAlias
  <2>9. QED
    BY <1>2, <1>4, <2>3, <2>4, <2>5, <2>6, <2>7, <2>8 DEF StateInv, Ended
<1>5. QED
  BY <1>3, <1>4

LEMMA InvArrive ==
  ASSUME TypeOK, NEW r \in Requests, Arrive(r)
  PROVE  StateInv(r)'
<1>1. pc'[r] = "match" /\ log'[r] = <<>> /\ result'[r] = EmptyResult
  BY DEF Arrive, Goto, TypeOK
<1>2. window'[r] = [m \in Matchers |-> {lists[m]}] /\ UNCHANGED lists
  BY DEF Arrive, TypeOK
<1>3. QED
  BY <1>1, <1>2 DEF StateInv, Ended, InWindow, Fresh

\* The control state of one call after any of its own steps.
LEMMA InvOwnStep ==
  ASSUME TypeOK, Inv, NEW r \in Requests, Step(r)
  PROVE  StateInv(r)'
<1>1. StateInv(r)
  BY DEF Inv
<1>2. CASE QueryExplicitAgain(r)
  <2>1. pc[r] = "again" /\ Answer(r, router.explicit)
    BY <1>2 DEF QueryExplicitAgain
  <2>2. router.explicit # Nil /\ router.explicit \in Resolvers
    BY <1>1, <2>1, RouterShape DEF StateInv, Probed, TypeOK
  <2>3. QED
    BY <1>1, <2>1, <2>2, ReadyAgain, AnswerSettles
<1>3. ASSUME NEW role \in Fallbacks, QueryFallback(r, role) PROVE StateInv(r)'
  <2>1. pc[r] = role /\ router[role] \in Resolvers
    BY <1>3, RouterShape DEF QueryFallback, TypeOK
  <2>2. ReadyFor(r, router[role])
    <3>1. CASE role = "passthrough"
      BY <1>1, <2>1, <3>1, ReadyPassthrough
    <3>2. CASE role = "noCnameResponse"
      BY <1>1, <2>1, <3>2, ReadyNoCnameResponse
    <3>3. CASE role = "noCnameMatch"
      BY <1>1, <2>1, <3>3, ReadyNoCnameMatch
    <3>4. QED
      BY <3>1, <3>2, <3>3 DEF Fallbacks
  <2>3. CASE router[role] = Nil
    BY <1>3, <2>2, <2>3, NilSettles DEF QueryFallback
  <2>4. CASE router[role] # Nil
    BY <1>3, <2>1, <2>2, <2>4, AnswerSettles DEF QueryFallback
  <2>5. QED
    BY <2>3, <2>4
<1>4. QED
  BY <1>2, <1>3, InvMatchRequest, InvLabelRequest, InvQueryExplicit,
     InvMatchCNAME, InvNoCNAMEMatches, InvLabelCNAME DEF Step

\* A call's steps and its arrival touch no other call.
LEMMA OthersUntouched ==
  ASSUME TypeOK, NEW r \in Requests, Step(r) \/ Arrive(r),
         NEW s \in Requests, s # r
  PROVE  pc'[s] = pc[s] /\ qname'[s] = qname[s] /\ result'[s] = result[s]
         /\ names'[s] = names[s] /\ log'[s] = log[s] /\ window'[s] = window[s]
         /\ UNCHANGED <<router, lists>>
<1> USE DEF Goto, Fail
<1>1. CASE Arrive(r)
  BY <1>1 DEF Arrive, TypeOK
<1>2. CASE MatchRequest(r) \/ LabelRequest(r)
  BY <1>2 DEF MatchRequest, LabelRequest, TypeOK
<1>3. CASE QueryExplicit(r)
  BY <1>3 DEF QueryExplicit, TypeOK
<1>4. CASE MatchCNAME(r)
  BY <1>4 DEF MatchCNAME, TypeOK
<1>5. CASE NoCNAMEMatches(r) \/ LabelCNAME(r)
  BY <1>5 DEF NoCNAMEMatches, LabelCNAME, TypeOK
<1>6. ASSUME NEW resolver, Answer(r, resolver)
      PROVE  /\ pc'[s] = pc[s] /\ result'[s] = result[s] /\ log'[s] = log[s]
             /\ UNCHANGED <<router, lists, qname, names, window>>
  BY <1>6 DEF Answer, TypeOK
<1>7. CASE QueryExplicitAgain(r)
  BY <1>6, <1>7 DEF QueryExplicitAgain
<1>8. ASSUME NEW role \in Fallbacks, QueryFallback(r, role)
      PROVE  /\ pc'[s] = pc[s] /\ result'[s] = result[s] /\ log'[s] = log[s]
             /\ UNCHANGED <<router, lists, qname, names, window>>
  BY <1>6, <1>8 DEF QueryFallback, TypeOK
<1>9. QED
  BY <1>1, <1>2, <1>3, <1>4, <1>5, <1>7, <1>8 DEF Step

LEMMA InvStep == TypeOK /\ Inv /\ [Next]_vars => Inv'
<1> SUFFICES ASSUME TypeOK, Inv, [Next]_vars PROVE Inv'
  OBVIOUS
<1>1. ASSUME NEW r \in Requests, Step(r) \/ Arrive(r), NEW s \in Requests
      PROVE  StateInv(s)'
  <2>1. CASE s = r
    BY <1>1, <2>1, InvOwnStep, InvArrive
  <2>2. CASE s # r
    BY <1>1, <2>2, OthersUntouched, Frame DEF Untouched, Inv
  <2>3. QED
    BY <2>1, <2>2
<1>2. ASSUME NEW m \in Matchers, Update(m), NEW s \in Requests
      PROVE  StateInv(s)'
  BY <1>2, InvUpdate DEF Inv
<1>3. ASSUME UNCHANGED vars, NEW s \in Requests
      PROVE  StateInv(s)'
  BY <1>3, Frame DEF vars, Untouched, Inv
<1>4. QED
  BY <1>1, <1>2, <1>3 DEF Inv, Next

\* Every variable keeps its shape, in every behaviour of the router.
THEOREM TypeCorrect == Safe => []TypeOK
<1>1. TypeOK /\ Inv /\ [Next]_vars => (TypeOK /\ Inv)'
  BY TypeStep, InvStep
<1>2. QED
  BY InitInv, <1>1, PTL DEF Safe

\* At every control state of Route the facts that its later steps rely on
\* hold, for any lists, answers, wirings and number of concurrent calls.
THEOREM InvHolds == Safe => []Inv
<1>1. TypeOK /\ Inv /\ [Next]_vars => (TypeOK /\ Inv)'
  BY TypeStep, InvStep
<1>2. QED
  BY InitInv, <1>1, PTL DEF Safe
-----------------------------------------------------------------------------
\* What a caller sees of one call follows from that call alone.
LEMMA OutcomeShape ==
  /\ \A r \in Requests : pc[r] \in Ended =>
       Outcome[r] = [state |-> pc[r], result |-> result[r], log |-> log[r]]
  /\ \A r \in Requests : pc[r] \notin Ended => Outcome[r] = Contract!Pending
  /\ \A r \in Requests : Outcome[r].state = "pending" <=> pc[r] \notin Ended
<1>1. \A r \in Requests : pc[r] \in Ended =>
        Outcome[r] = [state |-> pc[r], result |-> result[r], log |-> log[r]]
  BY DEF Outcome
<1>2. \A r \in Requests : pc[r] \notin Ended => Outcome[r] = Contract!Pending
  BY SameOperators DEF Outcome, Contract!Pending
<1>3. \A r \in Requests : Outcome[r].state = "pending" <=> pc[r] \notin Ended
  <2> TAKE r \in Requests
  <2>1. CASE pc[r] \in Ended
    <3>0. Outcome[r] = [state |-> pc[r], result |-> result[r], log |-> log[r]]
      BY <1>1, <2>1
    <3>1. Outcome[r].state = pc[r]
      BY <3>0
    <3>2. QED
      BY <2>1, <3>1 DEF Ended
  <2>2. CASE pc[r] \notin Ended
    <3>1. Outcome[r].state = "pending"
      BY <1>2, <2>2 DEF Contract!Pending
    <3>2. QED
      BY <2>2, <3>1
  <2>3. QED
    BY <2>1, <2>2
<1>4. QED
  BY <1>1, <1>2, <1>3

LEMMA InitRefines == Init => Contract!CInit
<1> SUFFICES ASSUME Init PROVE Contract!CInit
  OBVIOUS
<1>1. Outcome = [r \in Requests |-> Contract!NotAsked]
  BY SameOperators DEF Init, Outcome, Ended, Contract!NotAsked
<1>2. QED
  BY <1>1 DEF Init, Contract!CInit

\* An arrival is a submission, an update is a change, the step that ends a
\* call is its settlement, and any other step is invisible.
LEMMA ArriveRefines ==
  ASSUME TypeOK, NEW r \in Requests, Arrive(r)
  PROVE  Contract!Submit(r)
<1>1. Outcome' = [Outcome EXCEPT ![r] = Contract!Pending]
  <2>1. \A s \in Requests : s # r => Outcome'[s] = Outcome[s]
    BY OthersUntouched DEF Outcome
  <2>2. Outcome'[r] = Contract!Pending
    BY SameOperators DEF Arrive, Goto, TypeOK, Outcome, Ended, Contract!Pending
  <2>3. QED
    BY <2>1, <2>2 DEF Outcome
<1>2. Outcome[r].state # "pending"
  BY OutcomeShape DEF Arrive
<1>3. QED
  BY <1>1, <1>2 DEF Arrive, Contract!Submit

LEMMA StepRefines ==
  ASSUME TypeOK, NEW r \in Requests, StateInv(r)', Step(r)
  PROVE  Contract!Settle(r) \/ UNCHANGED Contract!cvars
<1>1. pc[r] \notin Ended
  BY DEF Step, MatchRequest, LabelRequest, QueryExplicit, MatchCNAME,
         NoCNAMEMatches, LabelCNAME, QueryExplicitAgain, QueryFallback,
         Fallbacks, Ended
<1>2. UNCHANGED <<router, lists, qname, window>>
  BY DEF Step, MatchRequest, LabelRequest, QueryExplicit, MatchCNAME,
         NoCNAMEMatches, LabelCNAME, QueryExplicitAgain, QueryFallback, Answer
<1>3. \A s \in Requests : s # r => Outcome'[s] = Outcome[s]
  BY OthersUntouched DEF Outcome
<1>4. Outcome' = [Outcome EXCEPT ![r] = Outcome'[r]]
  BY <1>3 DEF Outcome
<1>5. Outcome[r] = Contract!Pending /\ Outcome[r].state = "pending"
  BY <1>1, OutcomeShape
<1>6. CASE pc'[r] \notin Ended
  <2>1. Outcome'[r] = Contract!Pending
    BY <1>6, SameOperators DEF Outcome, Contract!Pending
  <2>2. Outcome' = Outcome
    BY <2>1, <1>4, <1>5 DEF Outcome
  <2>3. QED
    BY <2>2, <1>2 DEF Contract!cvars
<1>7. CASE pc'[r] \in Ended
  <2>1. pc'[r] # "idle"
    BY DEF Step, MatchRequest, LabelRequest, QueryExplicit, MatchCNAME,
           NoCNAMEMatches, LabelCNAME, QueryExplicitAgain, QueryFallback,
           Answer, Goto, Fail, TypeOK, Fallbacks
  <2>2. Settled(r)'
    BY <1>7, <2>1 DEF StateInv, Ended
  <2>3. Outcome'[r] = [state |-> pc'[r], result |-> result'[r], log |-> log'[r]]
    BY <1>7 DEF Outcome
  <2>4. Contract!Legal(router, qname[r], window[r], Outcome'[r])
    BY <2>2, <2>3, <1>2 DEF Settled
  <2>5. QED
    BY <2>4, <1>2, <1>4, <1>5 DEF Contract!Settle
<1>8. QED
  BY <1>6, <1>7

LEMMA UpdateRefines ==
  ASSUME TypeOK, NEW m \in Matchers, Update(m)
  PROVE  Contract!Change(m)
<1>1. PICK inputs \in Updates :
        /\ Compiles(inputs)
        /\ lists' = [lists EXCEPT ![m] = Compile(inputs)]
        /\ window' = [r \in Requests |->
             IF pc[r] \in Ended THEN window[r]
             ELSE [window[r] EXCEPT ![m] = @ \cup {Compile(inputs)}]]
  BY DEF Update
<1>2. Compile(inputs) \in Lists
  BY <1>1 DEF Lists
<1>3. UNCHANGED <<router, pc, qname, result, log>>
  BY DEF Update
<1>4. Outcome' = Outcome
  BY <1>3 DEF Outcome
<1>5. window' = [r \in Requests |->
        IF Outcome[r].state = "pending"
        THEN [window[r] EXCEPT ![m] = @ \cup {Compile(inputs)}]
        ELSE window[r]]
  BY <1>1, OutcomeShape
<1>6. QED
  BY <1>1, <1>2, <1>3, <1>4, <1>5 DEF Contract!Change

\* Router implements RoutingContract: whatever callers and updates do, each
\* call settles once, legally, and shows nothing before it settles.
THEOREM RouterImplementsContract == Safe => ImplementsContract
<1>1. TypeOK /\ Inv' /\ [Next]_vars => [Contract!CNext]_(Contract!cvars)
  <2> SUFFICES ASSUME TypeOK, Inv', [Next]_vars
               PROVE  [Contract!CNext]_(Contract!cvars)
    OBVIOUS
  <2>1. ASSUME NEW r \in Requests, Arrive(r) PROVE Contract!CNext
    BY <2>1, ArriveRefines DEF Contract!CNext
  <2>2. ASSUME NEW r \in Requests, Step(r)
        PROVE  Contract!CNext \/ UNCHANGED Contract!cvars
    BY <2>2, StepRefines DEF Contract!CNext, Inv
  <2>3. ASSUME NEW m \in Matchers, Update(m) PROVE Contract!CNext
    BY <2>3, UpdateRefines DEF Contract!CNext
  <2>4. CASE UNCHANGED vars
    BY <2>4 DEF vars, Contract!cvars, Outcome
  <2>5. QED
    BY <2>1, <2>2, <2>3, <2>4 DEF Next
<1>2. QED
  BY InitRefines, TypeCorrect, InvHolds, <1>1, PTL
     DEF Safe, ImplementsContract, Contract!CSpec
-----------------------------------------------------------------------------
\* The five ways to an answer, as the contract allows them.
Way(r, resolver, res, before) ==
  \E reply \in Replies :
    /\ result[r] = AnsweredResult(res, resolver, reply)
    /\ log[r] = Append(before, Exchange(resolver, reply))

AnsweredWays(r) ==
  \/ /\ router.requestMatcher => Missed(r, "request", qname[r])
     /\ Way(r, router.passthrough, EmptyResult, <<>>)
  \/ /\ router.requestMatcher /\ Found(r, "request", qname[r])
     /\ \E l \in window[r]["request"] :
          LET res == MatchedResult(l, qname[r]) IN
          \/ router.explicit = Nil /\ Way(r, router.noCnameResponse, res, <<>>)
          \/ /\ router.explicit # Nil
             /\ \E probe \in Replies :
                  LET before == <<Exchange(router.explicit, probe)>>
                      target(k) == probe.answer[k].target IN
                  \/ /\ CNAMEs(probe.answer) = {} \/ ~ router.cnameMatcher
                     /\ Way(r, router.noCnameResponse, res, before)
                  \/ /\ \A k \in CNAMEs(probe.answer) : Missed(r, "cname", target(k))
                     /\ Way(r, router.noCnameMatch, res, before)
                  \/ \E k \in CNAMEs(probe.answer), l2 \in window[r]["cname"] :
                       /\ Found(r, "cname", target(k))
                       /\ Way(r, router.explicit, CNAMEResult(res, l2, target(k)), before)

LEMMA AnsweredBy ==
  ASSUME NEW r \in Requests, NEW resolver, NEW res, NEW before, pc[r] = "answered",
         Contract!SettledBy([state |-> pc[r], result |-> result[r], log |-> log[r]],
                            resolver, res, before)
  PROVE  Way(r, resolver, res, before)
<1> DEFINE o == [state |-> pc[r], result |-> result[r], log |-> log[r]]
<1>1. \A l : ~ Contract!FailedWith(o, l)
  <2> SUFFICES ASSUME NEW l, Contract!FailedWith(o, l) PROVE FALSE
    OBVIOUS
  <2>1. o.state = "failed"
    BY DEF Contract!FailedWith
  <2>2. QED
    BY <2>1
<1>2. PICK reply \in Replies :
        o = [state |-> "answered", log |-> Append(before, Exchange(resolver, reply)),
             result |-> AnsweredResult(res, resolver, reply)]
  BY <1>1, SameOperators DEF Contract!SettledBy
<1>3. o.result = AnsweredResult(res, resolver, reply)
      /\ o.log = Append(before, Exchange(resolver, reply))
  BY <1>2
<1>4. QED
  BY <1>3 DEF Way

LEMMA AnsweredShape ==
  ASSUME Inv, NEW r \in Requests, pc[r] = "answered"
  PROVE  AnsweredWays(r)
<1> DEFINE o == [state |-> pc[r], result |-> result[r], log |-> log[r]]
<1>1. Contract!Legal(router, qname[r], window[r], o)
  BY DEF Inv, StateInv, Settled
<1>2. \A l : ~ Contract!FailedWith(o, l)
  <2> SUFFICES ASSUME NEW l, Contract!FailedWith(o, l) PROVE FALSE
    OBVIOUS
  <2>1. o.state = "failed"
    BY DEF Contract!FailedWith
  <2>2. QED
    BY <2>1
<1>3. CASE Contract!PassedThrough(router, qname[r], window[r], o)
  BY <1>3, AnsweredBy, SameOperators, SameMatch
     DEF Contract!PassedThrough, AnsweredWays, Missed
<1>4. CASE Contract!Matched(router, qname[r], window[r], o)
  <2>1. router.requestMatcher /\ Found(r, "request", qname[r])
    BY <1>4, SameMatch DEF Contract!Matched, Found
  <2>2. PICK l \in window[r]["request"] :
          IF router.explicit = Nil
          THEN Contract!SettledBy(o, router.noCnameResponse, MatchedResult(l, qname[r]), <<>>)
          ELSE \E reply \in Replies :
                 IF reply.ok
                 THEN Contract!ProbedTo(router, window[r], o, MatchedResult(l, qname[r]),
                                        <<Exchange(router.explicit, reply)>>, reply.answer)
                 ELSE Contract!FailedWith(o, <<Exchange(router.explicit, reply)>>)
    BY <1>4, SameOperators DEF Contract!Matched
  <2> DEFINE res == MatchedResult(l, qname[r])
  <2>3. CASE router.explicit = Nil
    BY <2>1, <2>2, <2>3, AnsweredBy DEF AnsweredWays
  <2>4. CASE router.explicit # Nil
    <3>1. PICK probe \in Replies :
            Contract!ProbedTo(router, window[r], o, res,
                              <<Exchange(router.explicit, probe)>>, probe.answer)
      BY <2>2, <2>4, <1>2
    <3> DEFINE before == <<Exchange(router.explicit, probe)>>
               target(k) == probe.answer[k].target
    <3>2. \/ /\ CNAMEs(probe.answer) = {} \/ ~ router.cnameMatcher
             /\ Contract!SettledBy(o, router.noCnameResponse, res, before)
          \/ /\ \A k \in CNAMEs(probe.answer) : Missed(r, "cname", target(k))
             /\ Contract!SettledBy(o, router.noCnameMatch, res, before)
          \/ \E k \in CNAMEs(probe.answer), l2 \in window[r]["cname"] :
               /\ Found(r, "cname", target(k))
               /\ Contract!SettledBy(o, router.explicit,
                                     CNAMEResult(res, l2, target(k)), before)
      BY <3>1, SameOperators, SameMatch DEF Contract!ProbedTo, Missed, Found
    <3>3. \/ /\ CNAMEs(probe.answer) = {} \/ ~ router.cnameMatcher
             /\ Way(r, router.noCnameResponse, res, before)
          \/ /\ \A k \in CNAMEs(probe.answer) : Missed(r, "cname", target(k))
             /\ Way(r, router.noCnameMatch, res, before)
          \/ \E k \in CNAMEs(probe.answer), l2 \in window[r]["cname"] :
               /\ Found(r, "cname", target(k))
               /\ Way(r, router.explicit, CNAMEResult(res, l2, target(k)), before)
      BY <3>2, AnsweredBy
    <3>4. QED
      BY <2>1, <2>4, <3>3 DEF AnsweredWays
  <2>5. QED
    BY <2>3, <2>4
<1>5. QED
  BY <1>1, <1>2, <1>3, <1>4 DEF Contract!Legal

\* The fields of an answered result are those of the result it completes.
LEMMA AnsweredFields ==
  ASSUME NEW res \in RouteResults, NEW resolver, NEW reply
  PROVE  /\ AnsweredResult(res, resolver, reply).RequestMatched = res.RequestMatched
         /\ AnsweredResult(res, resolver, reply).CNAMEMatched = res.CNAMEMatched
         /\ AnsweredResult(res, resolver, reply).MatchedPattern = res.MatchedPattern
         /\ AnsweredResult(res, resolver, reply).ResolverUsed = resolver.name
BY DEF AnsweredResult, RouteResults

LEMMA MatchedFields ==
  ASSUME NEW list, NEW q
  PROVE  /\ MatchedResult(list, q).RequestMatched = TRUE
         /\ MatchedResult(list, q).CNAMEMatched = FALSE
         /\ MatchedResult(list, q).MatchedPattern = MatchingPattern(list, q)
BY DEF MatchedResult, EmptyResult

LEMMA CNAMEFields ==
  ASSUME NEW res \in RouteResults, NEW list, NEW name
  PROVE  /\ CNAMEResult(res, list, name).RequestMatched = res.RequestMatched
         /\ CNAMEResult(res, list, name).CNAMEMatched = TRUE
         /\ CNAMEResult(res, list, name).MatchedPattern = res.MatchedPattern
BY DEF CNAMEResult, RouteResults

\* A log of two exchanges, element by element.
LEMMA TwoExchanges ==
  ASSUME NEW first, NEW second
  PROVE  /\ DOMAIN Append(<<first>>, second) = {1, 2}
         /\ Append(<<first>>, second)[1] = first
         /\ Append(<<first>>, second)[2] = second
<1> DEFINE S == {first, second}
           one == <<first>>
<1>1. one \in Seq(S) /\ second \in S
  OBVIOUS
<1>2. Len(one) = 1 /\ one[1] = first
  OBVIOUS
<1> HIDE DEF S, one
<1>3. /\ Append(one, second) \in Seq(S)
      /\ Len(Append(one, second)) = Len(one) + 1
      /\ \A i \in 1 .. Len(one) : Append(one, second)[i] = one[i]
      /\ Append(one, second)[Len(one) + 1] = second
  BY <1>1
<1>4. /\ Len(Append(one, second)) = 2
      /\ Append(one, second)[1] = first /\ Append(one, second)[2] = second
  BY <1>2, <1>3
<1>5. DOMAIN Append(one, second) = 1..2
  BY <1>3, <1>4, LenProperties
<1>6. QED
  BY <1>4, <1>5 DEF one

\* An answered call, by the flags of its result.
Passed(r) ==
  /\ ~ result[r].RequestMatched /\ ~ result[r].CNAMEMatched
  /\ ~ router.requestMatcher \/ Missed(r, "request", qname[r])

FellBack(r) ==
  /\ result[r].RequestMatched = TRUE /\ ~ result[r].CNAMEMatched
  /\ router.requestMatcher /\ Found(r, "request", qname[r])
  /\ \E l \in window[r]["request"] :
       result[r].MatchedPattern = MatchingPattern(l, qname[r])
  /\ \/ router.explicit = Nil
     \/ ~ router.cnameMatcher
     \/ \E probe, reply \in Replies, resolver \in Resolvers :
          /\ log[r] = Append(<<Exchange(router.explicit, probe)>>,
                             Exchange(resolver, reply))
          /\ \A k \in CNAMEs(probe.answer) : Missed(r, "cname", probe.answer[k].target)

AskedAgain(r) ==
  /\ result[r].RequestMatched = TRUE /\ result[r].CNAMEMatched = TRUE
  /\ result[r].ResolverUsed = router.explicit.name
  /\ router.requestMatcher /\ Found(r, "request", qname[r])
  /\ \E l \in window[r]["request"] :
       result[r].MatchedPattern = MatchingPattern(l, qname[r])
  /\ \E probe, reply \in Replies :
       /\ log[r] = Append(<<Exchange(router.explicit, probe)>>,
                          Exchange(router.explicit, reply))
       /\ \E k \in CNAMEs(probe.answer) : Found(r, "cname", probe.answer[k].target)

LEMMA FlagsShape ==
  ASSUME TypeOK, Inv, NEW r \in Requests, pc[r] = "answered"
  PROVE  Passed(r) \/ FellBack(r) \/ AskedAgain(r)
<1>1. AnsweredWays(r)
  BY AnsweredShape
<1>2. \A l \in window[r]["request"] : MatchedResult(l, qname[r]) \in RouteResults
                                      \/ qname[r] \notin Queries
  BY MatchedResultShape DEF TypeOK, Matchers
<1>3. qname[r] \in Queries
  <2>1. Contract!Legal(router, qname[r], window[r],
          [state |-> pc[r], result |-> result[r], log |-> log[r]])
    BY DEF Inv, StateInv, Settled
  <2>2. qname[r] # NoQuestion
    <3> SUFFICES ASSUME qname[r] = NoQuestion PROVE FALSE
      OBVIOUS
    <3> DEFINE o == [state |-> pc[r], result |-> result[r], log |-> log[r]]
    <3>1. Contract!FailedWith(o, <<>>)
      BY <2>1 DEF Contract!Legal
    <3>2. o.state = "failed"
      BY <3>1 DEF Contract!FailedWith
    <3>3. QED
      BY <3>2
  <2>3. QED
    BY <2>2 DEF TypeOK
<1>4. CASE /\ router.requestMatcher => Missed(r, "request", qname[r])
           /\ Way(r, router.passthrough, EmptyResult, <<>>)
  <2>1. PICK reply \in Replies :
          result[r] = AnsweredResult(EmptyResult, router.passthrough, reply)
    BY <1>4 DEF Way
  <2>2. result[r].RequestMatched = FALSE /\ result[r].CNAMEMatched = FALSE
    BY <2>1, AnsweredFields, EmptyResultShape DEF EmptyResult
  <2>3. QED
    BY <1>4, <2>2 DEF Passed
<1>5. CASE router.requestMatcher /\ Found(r, "request", qname[r])
           /\ ~ (/\ router.requestMatcher => Missed(r, "request", qname[r])
                 /\ Way(r, router.passthrough, EmptyResult, <<>>))
  <2>1. PICK l \in window[r]["request"] :
          LET res == MatchedResult(l, qname[r]) IN
          \/ router.explicit = Nil /\ Way(r, router.noCnameResponse, res, <<>>)
          \/ /\ router.explicit # Nil
             /\ \E probe \in Replies :
                  LET before == <<Exchange(router.explicit, probe)>>
                      target(k) == probe.answer[k].target IN
                  \/ /\ CNAMEs(probe.answer) = {} \/ ~ router.cnameMatcher
                     /\ Way(r, router.noCnameResponse, res, before)
                  \/ /\ \A k \in CNAMEs(probe.answer) : Missed(r, "cname", target(k))
                     /\ Way(r, router.noCnameMatch, res, before)
                  \/ \E k \in CNAMEs(probe.answer), l2 \in window[r]["cname"] :
                       /\ Found(r, "cname", target(k))
                       /\ Way(r, router.explicit, CNAMEResult(res, l2, target(k)), before)
    BY <1>1, <1>5 DEF AnsweredWays
  <2> DEFINE res == MatchedResult(l, qname[r])
  <2>2. res \in RouteResults
    BY <1>2, <1>3
  <2>3. ASSUME NEW resolver, NEW before, Way(r, resolver, res, before)
        PROVE  /\ result[r].RequestMatched = TRUE /\ result[r].CNAMEMatched = FALSE
               /\ result[r].MatchedPattern = MatchingPattern(l, qname[r])
               /\ \E reply \in Replies : log[r] = Append(before, Exchange(resolver, reply))
    <3>1. PICK reply \in Replies :
            /\ result[r] = AnsweredResult(res, resolver, reply)
            /\ log[r] = Append(before, Exchange(resolver, reply))
      BY <2>3 DEF Way
    <3> HIDE DEF res
    <3>2. /\ result[r].RequestMatched = res.RequestMatched
          /\ result[r].CNAMEMatched = res.CNAMEMatched
          /\ result[r].MatchedPattern = res.MatchedPattern
      BY <2>2, <3>1, AnsweredFields
    <3>3. QED
      BY <3>1, <3>2, MatchedFields DEF res
  <2>4. CASE router.explicit = Nil
    BY <1>5, <2>1, <2>3, <2>4 DEF FellBack
  <2>5. CASE router.explicit # Nil
    <3>1. PICK probe \in Replies :
            LET before == <<Exchange(router.explicit, probe)>>
                target(k) == probe.answer[k].target IN
            \/ /\ CNAMEs(probe.answer) = {} \/ ~ router.cnameMatcher
               /\ Way(r, router.noCnameResponse, res, before)
            \/ /\ \A k \in CNAMEs(probe.answer) : Missed(r, "cname", target(k))
               /\ Way(r, router.noCnameMatch, res, before)
            \/ \E k \in CNAMEs(probe.answer), l2 \in window[r]["cname"] :
                 /\ Found(r, "cname", target(k))
                 /\ Way(r, router.explicit, CNAMEResult(res, l2, target(k)), before)
      BY <2>1, <2>5
    <3> DEFINE before == <<Exchange(router.explicit, probe)>>
    <3> HIDE DEF res
    <3>2. CASE /\ CNAMEs(probe.answer) = {} \/ ~ router.cnameMatcher
               /\ Way(r, router.noCnameResponse, res, before)
      BY <1>5, <2>3, <3>2, RouterShape DEF FellBack, Fallbacks, TypeOK
    <3>3. CASE /\ \A k \in CNAMEs(probe.answer) : Missed(r, "cname", probe.answer[k].target)
               /\ Way(r, router.noCnameMatch, res, before)
      BY <1>5, <2>3, <3>3, RouterShape DEF FellBack, Fallbacks, TypeOK
    <3>4. ASSUME NEW k \in CNAMEs(probe.answer), NEW l2 \in window[r]["cname"],
                 Found(r, "cname", probe.answer[k].target),
                 Way(r, router.explicit, CNAMEResult(res, l2, probe.answer[k].target), before)
          PROVE  AskedAgain(r)
      <4> DEFINE full == CNAMEResult(res, l2, probe.answer[k].target)
      <4>1. PICK reply \in Replies :
              /\ result[r] = AnsweredResult(full, router.explicit, reply)
              /\ log[r] = Append(before, Exchange(router.explicit, reply))
        BY <3>4 DEF Way
      <4>2. full \in RouteResults
        BY <2>2, ReplyShape, CNAMEResultShape DEF TypeOK, Matchers
      <4>3. /\ full.RequestMatched = res.RequestMatched /\ full.CNAMEMatched = TRUE
            /\ full.MatchedPattern = res.MatchedPattern
        <5>1. \A name : LET c == CNAMEResult(res, l2, name) IN
                /\ c.RequestMatched = res.RequestMatched /\ c.CNAMEMatched = TRUE
                /\ c.MatchedPattern = res.MatchedPattern
          BY <2>2, CNAMEFields, Zenon
        <5>2. QED
          BY <5>1, Zenon
      <4> HIDE DEF full
      <4>4. /\ result[r].RequestMatched = full.RequestMatched
            /\ result[r].CNAMEMatched = full.CNAMEMatched
            /\ result[r].MatchedPattern = full.MatchedPattern
            /\ result[r].ResolverUsed = router.explicit.name
        BY <4>1, <4>2, AnsweredFields
      <4>5. /\ res.RequestMatched = TRUE
            /\ res.MatchedPattern = MatchingPattern(l, qname[r])
        BY MatchedFields DEF res
      <4>6. QED
        BY <1>5, <3>4, <4>1, <4>3, <4>4, <4>5 DEF AskedAgain
    <3>5. QED
      BY <3>1, <3>2, <3>3, <3>4
  <2>6. QED
    BY <2>4, <2>5
<1>6. QED
  BY <1>1, <1>4, <1>5 DEF AnsweredWays

\* The label of a matched answer is never lost unless an update interfered.
THEOREM LabelTheorem == Safe => []LabelLostOnlyByUpdate
<1>1. TypeOK /\ Inv => LabelLostOnlyByUpdate
  <2> SUFFICES ASSUME TypeOK, Inv, NEW r \in Requests,
                      pc[r] = "answered", result[r].RequestMatched,
                      \A l \in window[r]["request"] : Match(l, qname[r])
               PROVE  result[r].MatchedPattern # Blank
    BY DEF LabelLostOnlyByUpdate
  <2>1. PICK l \in window[r]["request"] :
          result[r].MatchedPattern = MatchingPattern(l, qname[r])
    BY FlagsShape DEF Passed, FellBack, AskedAgain
  <2>2. l \in Seq(Expr)
    BY ListShape DEF TypeOK, Matchers
  <2>3. QED
    BY <2>1, <2>2, LabelOfMatch, MatcherAssumption
<1>2. QED
  BY TypeCorrect, InvHolds, <1>1, PTL

\* A CNAME verdict always has an alias in the probe's answer behind it, and
\* only the explicit resolver is involved.
THEOREM CNAMEVerdictTheorem == Safe => []CNAMEVerdictHasCause
<1>1. TypeOK /\ Inv => CNAMEVerdictHasCause
  <2> SUFFICES ASSUME TypeOK, Inv, NEW r \in Requests,
                      pc[r] = "answered", result[r].CNAMEMatched
               PROVE  /\ \E k \in Aliases(r) : Found(r, "cname", Target(r, k))
                      /\ \A i \in DOMAIN log[r] : log[r][i].to = router.explicit.name
                      /\ result[r].ResolverUsed = router.explicit.name
    BY DEF CNAMEVerdictHasCause
  <2>1. AskedAgain(r)
    BY FlagsShape DEF Passed, FellBack
  <2>2. PICK probe \in Replies, reply \in Replies :
          /\ log[r] = Append(<<Exchange(router.explicit, probe)>>,
                             Exchange(router.explicit, reply))
          /\ \E k \in CNAMEs(probe.answer) : Found(r, "cname", probe.answer[k].target)
    BY <2>1 DEF AskedAgain
  <2>3. /\ DOMAIN log[r] = {1, 2}
        /\ log[r][1] = Exchange(router.explicit, probe)
        /\ log[r][2] = Exchange(router.explicit, reply)
    BY <2>2, TwoExchanges
  <2>4. Aliases(r) = CNAMEs(probe.answer) /\ \A k : Target(r, k) = probe.answer[k].target
    BY <2>3 DEF Aliases, Target, Exchange
  <2>5. \A i \in DOMAIN log[r] : log[r][i].to = router.explicit.name
    BY <2>3 DEF Exchange
  <2>6. QED
    BY <2>1, <2>2, <2>4, <2>5 DEF AskedAgain
<1>2. QED
  BY TypeCorrect, InvHolds, <1>1, PTL

\* With the lists unchanged during a call, its verdicts are what the rules
\* of Route say of those lists.
THEOREM ExactnessTheorem == Safe => []UndisturbedCallIsExact
<1>1. TypeOK /\ Inv => UndisturbedCallIsExact
  <2> SUFFICES ASSUME TypeOK, Inv, NEW r \in Requests, pc[r] = "answered"
               PROVE  /\ \A l \in Lists :
                           window[r]["request"] = {l} /\ router.requestMatcher =>
                             (result[r].RequestMatched <=> Match(l, qname[r]))
                      /\ \A l \in Lists :
                           /\ window[r]["cname"] = {l} /\ router.cnameMatcher
                           /\ router.explicit # Nil /\ result[r].RequestMatched
                           => (result[r].CNAMEMatched <=>
                                 \E k \in Aliases(r) : Match(l, Target(r, k)))
    BY DEF UndisturbedCallIsExact
  <2>1. CASE Passed(r)
    BY <2>1 DEF Passed, Missed
  <2>2. CASE FellBack(r)
    <3>1. ASSUME router.cnameMatcher, router.explicit # Nil
          PROVE  \A k \in Aliases(r) : Missed(r, "cname", Target(r, k))
      <4>1. PICK probe \in Replies, reply \in Replies, resolver \in Resolvers :
              /\ log[r] = Append(<<Exchange(router.explicit, probe)>>,
                                 Exchange(resolver, reply))
              /\ \A k \in CNAMEs(probe.answer) :
                   Missed(r, "cname", probe.answer[k].target)
        BY <2>2, <3>1 DEF FellBack
      <4>2. log[r][1] = Exchange(router.explicit, probe)
        BY <4>1, TwoExchanges
      <4>3. QED
        BY <4>1, <4>2 DEF Aliases, Target, Exchange
    <3>2. QED
      BY <2>2, <3>1 DEF FellBack, Missed, Found
  <2>3. CASE AskedAgain(r)
    <3>1. \E k \in Aliases(r) : Found(r, "cname", Target(r, k))
      <4>1. PICK probe \in Replies, reply \in Replies :
              /\ log[r] = Append(<<Exchange(router.explicit, probe)>>,
                                 Exchange(router.explicit, reply))
              /\ \E k \in CNAMEs(probe.answer) :
                   Found(r, "cname", probe.answer[k].target)
        BY <2>3 DEF AskedAgain
      <4>2. log[r][1] = Exchange(router.explicit, probe)
        BY <4>1, TwoExchanges
      <4>3. QED
        BY <4>1, <4>2 DEF Aliases, Target, Exchange
    <3>2. QED
      BY <2>3, <3>1 DEF AskedAgain, Found
  <2>4. QED
    BY <2>1, <2>2, <2>3, FlagsShape
<1>2. QED
  BY TypeCorrect, InvHolds, <1>1, PTL
-----------------------------------------------------------------------------
(***************************************************************************)
(* That a call of Route ends: the part of EveryCallEnds which a safety     *)
(* proof reaches.  A call under way may always go on (NeverStuck) and is   *)
(* then nearer its end, which no other call and no update takes back       *)
(* (CallsLeadOn).  That it does go on is the fairness of Spec.             *)
(***************************************************************************)

\* The guards of the actions of Step(r): an exchange always has an outcome.
MayGoOn(r) ==
  \/ pc[r] \in {"match", "label", "explicit", "again"} \cup Fallbacks
  \/ pc[r] = "cname" /\ (names[r] = {} \/ \E k \in names[r] : Current(r, k))
  \/ pc[r] = "labelCNAME" /\ \E k \in names[r] : Current(r, k)

\* Route never comes to a place where it has nothing to do, whatever happens
\* to the lists while it looks through the aliases.
NeverStuck == \A r \in Requests : pc[r] \notin Ended => MayGoOn(r)

\* A set of positions that is not empty has a first.
LEMMA FirstPosition ==
  ASSUME NEW S \in SUBSET Nat, S # {}
  PROVE  \E k \in S : \A j \in S : k <= j
<1> DEFINE R == OpToRel(<, Nat)
<1>1. IsWellFoundedOn(R, Nat)
  BY NatLessThanWellFounded
<1> HIDE DEF R
<1>2. PICK k \in S : \A j \in S : ~ (<<j, k>> \in R)
  BY <1>1, WFMin
<1>3. \A j \in S : j < k => <<j, k>> \in R
  BY DEF R, OpToRel
<1>4. k \in Nat /\ \A j \in S : j \in Nat /\ ~ (j < k)
  BY <1>2, <1>3
<1>5. \A j \in S : k <= j
  BY <1>4
<1>6. QED
  BY <1>5

THEOREM NeverStuckTheorem == Spec => []NeverStuck
<1>1. TypeOK /\ Inv => NeverStuck
  <2> SUFFICES ASSUME TypeOK, Inv, NEW r \in Requests, pc[r] \notin Ended
               PROVE  MayGoOn(r)
    BY DEF NeverStuck
  <2>1. pc[r] \in {"match", "label", "explicit", "again", "cname", "labelCNAME"} \cup Fallbacks
    BY DEF TypeOK, PCs
  <2>2. CASE pc[r] = "cname" /\ names[r] # {}
    <3>1. names[r] \in SUBSET Nat
      BY DEF TypeOK
    <3>2. \E k \in names[r] : Current(r, k)
      BY <2>2, <3>1, FirstPosition DEF Current
    <3>3. QED
      BY <2>2, <3>2 DEF MayGoOn
  <2>3. CASE pc[r] = "labelCNAME"
    BY <2>3 DEF MayGoOn, Inv, StateInv
  <2>4. QED
    BY <2>1, <2>2, <2>3 DEF MayGoOn
<1>2. QED
  BY <1>1, TypeCorrect, InvHolds, PTL DEF Spec, Safe

\* How far a call is.
Stage == [l \in PCs |->
            CASE l = "match" -> 1 [] l = "label" -> 2 [] l = "explicit" -> 3 [] l = "cname" -> 4
              [] l = "labelCNAME" -> 5 [] l \in {"again"} \cup Fallbacks -> 6 [] l \in Ended -> 7]

\* It is further on, or the loop has passed one of the aliases of the answer.
Forward(r) ==
  \/ Stage[pc[r]] < Stage[pc'[r]]
  \/ pc'[r] = pc[r] /\ \E k \in names[r] : names'[r] = names[r] \ {k}

\* Every step of a call leads on, and nobody else takes it back.
CallsLeadOn ==
  [][\A r \in Requests :
       /\ Step(r) => Forward(r)
       /\ pc[r] \notin Ended => Forward(r) \/ (pc'[r] = pc[r] /\ names'[r] = names[r])]_vars

LEMMA StageValues ==
  /\ Stage["match"] = 1 /\ Stage["label"] = 2 /\ Stage["explicit"] = 3
  /\ Stage["cname"] = 4 /\ Stage["labelCNAME"] = 5 /\ Stage["again"] = 6
  /\ \A role \in Fallbacks : Stage[role] = 6
  /\ \A l \in Ended : Stage[l] = 7
BY DEF Stage, PCs, Fallbacks, Ended

LEMMA OwnForward ==
  ASSUME TypeOK, NEW r \in Requests, Step(r)
  PROVE  Forward(r)
<1> USE StageValues DEF Goto, Fail
<1>t. pc \in [Requests -> PCs] /\ names \in [Requests -> SUBSET Nat]
  BY DEF TypeOK
<1>1. CASE MatchRequest(r)
  <2>1. pc[r] = "match" /\ pc'[r] \in {"failed", "label", "passthrough"}
    BY <1>t, <1>1 DEF MatchRequest
  <2>2. QED
    BY <2>1 DEF Forward, Fallbacks, Ended
<1>2. CASE LabelRequest(r)
  <2>1. pc[r] = "label" /\ pc'[r] \in {"noCnameResponse", "explicit"}
    BY <1>t, <1>2 DEF LabelRequest
  <2>2. QED
    BY <2>1 DEF Forward, Fallbacks
<1>3. CASE QueryExplicit(r)
  <2>1. pc[r] = "explicit" /\ pc'[r] \in {"failed", "noCnameResponse", "cname"}
    BY <1>t, <1>3 DEF QueryExplicit
  <2>2. QED
    BY <2>1 DEF Forward, Fallbacks, Ended
<1>4. CASE MatchCNAME(r)
  <2>1. PICK k \in names[r] :
          /\ pc[r] = "cname"
          /\ \/ pc'[r] = "labelCNAME"
             \/ pc' = pc /\ names'[r] = names[r] \ {k}
    BY <1>t, <1>4 DEF MatchCNAME
  <2>2. QED
    BY <2>1 DEF Forward
<1>5. CASE NoCNAMEMatches(r)
  <2>1. pc[r] = "cname" /\ pc'[r] = "noCnameMatch"
    BY <1>t, <1>5 DEF NoCNAMEMatches
  <2>2. QED
    BY <2>1 DEF Forward, Fallbacks
<1>6. CASE LabelCNAME(r)
  <2>1. pc[r] = "labelCNAME" /\ pc'[r] = "again"
    BY <1>t, <1>6 DEF LabelCNAME
  <2>2. QED
    BY <2>1 DEF Forward
<1>7. ASSUME NEW resolver, Answer(r, resolver) PROVE pc'[r] \in {"failed", "answered"}
  BY <1>t, <1>7 DEF Answer
<1>8. CASE QueryExplicitAgain(r)
  BY <1>7, <1>8 DEF QueryExplicitAgain, Forward, Ended
<1>9. ASSUME NEW role \in Fallbacks, QueryFallback(r, role) PROVE Forward(r)
  <2>1. pc[r] = role /\ pc'[r] \in {"failed", "answered"}
    BY <1>t, <1>7, <1>9 DEF QueryFallback
  <2>2. QED
    BY <2>1 DEF Forward, Ended
<1>10. QED
  BY <1>1, <1>2, <1>3, <1>4, <1>5, <1>6, <1>8, <1>9 DEF Step

\* A call of Route takes so many steps and no more: at most six, and one for
\* every alias of the probe's answer (router.go:78-216).  With
\* NeverStuckTheorem, and exchanges that end, it returns.
THEOREM CallsTheorem == Spec => CallsLeadOn
<1> DEFINE Leads ==
      \A r \in Requests :
        /\ Step(r) => Forward(r)
        /\ pc[r] \notin Ended => Forward(r) \/ (pc'[r] = pc[r] /\ names'[r] = names[r])
<1>1. TypeOK /\ Next => Leads
  <2> SUFFICES ASSUME TypeOK, Next, NEW r \in Requests
               PROVE  /\ Step(r) => Forward(r)
                      /\ pc[r] \notin Ended =>
                           Forward(r) \/ (pc'[r] = pc[r] /\ names'[r] = names[r])
    OBVIOUS
  <2>1. Step(r) => Forward(r)
    BY OwnForward
  <2>2. ASSUME NEW s \in Requests, s # r, Step(s) \/ Arrive(s)
        PROVE  pc'[r] = pc[r] /\ names'[r] = names[r]
    BY <2>2, OthersUntouched
  <2>3. ASSUME NEW m \in Matchers, Update(m)
        PROVE  pc'[r] = pc[r] /\ names'[r] = names[r]
    BY <2>3 DEF Update
  <2>4. Arrive(r) => pc[r] \in Ended
    BY DEF Arrive
  <2>5. QED
    BY <2>1, <2>2, <2>3, <2>4 DEF Next
<1>2. TypeOK /\ [Next]_vars => [Leads]_vars
  BY <1>1
<1> HIDE DEF Leads
<1>3. Spec => [][Leads]_vars
  BY <1>2, TypeCorrect, PTL DEF Spec, Safe
<1>4. QED
  BY <1>3 DEF CallsLeadOn, Leads
-----------------------------------------------------------------------------
\* An answer is that of the last exchange, and every exchange before it was
\* answered too.  An error is that of the last exchange, or no exchange was
\* made because the question is not there.
OutcomeHasCause ==
  \A r \in Requests :
    /\ pc[r] = "failed" =>
         \/ qname[r] = NoQuestion /\ log[r] = <<>>
         \/ log[r] # <<>> /\ ~ log[r][Len(log[r])].reply.ok
    /\ pc[r] = "answered" =>
         /\ log[r] # <<>> /\ \A i \in DOMAIN log[r] : log[r][i].reply.ok
         /\ result[r].Response = log[r][Len(log[r])].reply.answer

\* The wirings that NewApp makes.
ProgramWirings == \A cfg \in Configs : \E given \in SUBSET ResolverFlags : cfg = AppConfig(given)

\* In the program every role but the explicit one has a resolver.
LEMMA RolesAreThere ==
  ASSUME ProgramWirings, NEW rt \in Routers
  PROVE  \A role \in Fallbacks : rt[role] # Nil
<1>1. PICK given \in SUBSET ResolverFlags : rt = NewRouter(AppConfig(given))
  BY DEF ProgramWirings, Routers
<1>2. QED
  BY <1>1 DEF NewRouter, AppConfig, NewDNSResolver, NewSystemResolver, Nil, Fallbacks

\* What a legal settlement of a call with question q may be.
Caused(o, q) ==
  /\ o.state = "failed" =>
       \/ q = NoQuestion /\ o.log = <<>>
       \/ o.log # <<>> /\ ~ o.log[Len(o.log)].reply.ok
  /\ o.state = "answered" =>
       /\ o.log # <<>> /\ \A i \in DOMAIN o.log : o.log[i].reply.ok
       /\ o.result.Response = o.log[Len(o.log)].reply.answer

\* The log after one more exchange.
LEMMA LogGrows ==
  ASSUME NEW before, before = <<>> \/ \E x : before = <<x>>, NEW y
  PROVE  /\ Append(before, y) # <<>>
         /\ Append(before, y)[Len(Append(before, y))] = y
         /\ (\A i \in DOMAIN before : before[i].reply.ok) /\ y.reply.ok =>
              \A i \in DOMAIN Append(before, y) : Append(before, y)[i].reply.ok
<1>1. CASE before = <<>>
  <2>1. Append(before, y) = <<y>>
    BY <1>1
  <2>2. QED
    BY <2>1
<1>2. CASE \E x : before = <<x>>
  <2>1. PICK x : before = <<x>>
    BY <1>2
  <2>2. DOMAIN before = {1} /\ before[1] = x
    BY <2>1
  <2> DEFINE z == Append(before, y)
  <2>3. DOMAIN z = {1, 2} /\ z[1] = x /\ z[2] = y
    BY <2>1, TwoExchanges
  <2>4. Len(z) = 2
    BY <2>1
  <2>5. z # <<>>
    BY <2>3
  <2> HIDE DEF z
  <2>6. QED
    BY <2>2, <2>3, <2>4, <2>5 DEF z
<1>3. QED
  BY <1>1, <1>2

LEMMA SettledIsCaused ==
  ASSUME NEW o, NEW q, NEW resolver, resolver # Nil, NEW res \in RouteResults,
         NEW before, before = <<>> \/ \E x : before = <<x>> /\ x.reply.ok,
         Contract!SettledBy(o, resolver, res, before)
  PROVE  Caused(o, q)
<1>1. PICK reply \in Replies :
        IF reply.ok
        THEN o = [state |-> "answered", log |-> Append(before, Exchange(resolver, reply)),
                  result |-> AnsweredResult(res, resolver, reply)]
        ELSE Contract!FailedWith(o, Append(before, Exchange(resolver, reply)))
  BY SameOperators DEF Contract!SettledBy
<1> DEFINE y == Exchange(resolver, reply)
<1>2. y.reply = reply
  BY DEF Exchange
<1>3. AnsweredResult(res, resolver, reply).Response = reply.answer
  BY DEF AnsweredResult, RouteResults
<1>4. \A i \in DOMAIN before : before[i].reply.ok
  OBVIOUS
<1> HIDE DEF y
<1>5. CASE reply.ok
  <2>1. o.state = "answered" /\ o.log = Append(before, y) /\ o.result.Response = reply.answer
    BY <1>1, <1>3, <1>5 DEF y
  <2>2. QED
    BY <1>2, <1>4, <1>5, <2>1, LogGrows DEF Caused
<1>6. CASE ~ reply.ok
  <2>1. o.state = "failed" /\ o.log = Append(before, y)
    BY <1>1, <1>6 DEF y, Contract!FailedWith
  <2>2. QED
    BY <1>2, <1>6, <2>1, LogGrows DEF Caused
<1>7. QED
  BY <1>5, <1>6

\* In the program a call of Route fails for a missing question or a failed
\* exchange and for nothing else, with any settings: NewApp leaves no role
\* unserved (main.go:66-113), and a failed exchange is the last (router.go:110-113).
THEOREM CauseTheorem == ASSUME ProgramWirings PROVE Spec => []OutcomeHasCause
<1>1. TypeOK /\ Inv => OutcomeHasCause
  <2> SUFFICES ASSUME TypeOK, Inv, NEW r \in Requests, pc[r] \in {"answered", "failed"}
               PROVE  Caused([state |-> pc[r], result |-> result[r], log |-> log[r]], qname[r])
    BY DEF OutcomeHasCause, Caused
  <2> DEFINE o == [state |-> pc[r], result |-> result[r], log |-> log[r]]
             q == qname[r]
  <2>1. Contract!Legal(router, q, window[r], o)
    BY DEF Inv, StateInv, Settled
  <2>2. /\ router.passthrough # Nil /\ router.noCnameResponse # Nil /\ router.noCnameMatch # Nil
    BY RolesAreThere DEF TypeOK, Fallbacks
  <2>3. /\ q \in Queries \cup {NoQuestion}
        /\ \A m \in Matchers : window[r][m] \subseteq Lists
    BY DEF TypeOK
  <2> HIDE DEF o, q
  <2>4. CASE q = NoQuestion
    <3>1. o = [state |-> "failed", result |-> EmptyResult, log |-> <<>>]
      BY <2>1, <2>4, SameOperators DEF Contract!Legal, Contract!FailedWith
    <3>2. QED
      BY <2>4, <3>1 DEF Caused, o, q
  <2>5. CASE Contract!PassedThrough(router, q, window[r], o)
    <3>1. Contract!SettledBy(o, router.passthrough, EmptyResult, <<>>)
      BY <2>5, SameOperators DEF Contract!PassedThrough
    <3>2. Caused(o, q)
      BY <2>2, <3>1, EmptyResultShape, SettledIsCaused
    <3>3. QED
      BY <3>2 DEF o, q
  <2>6. CASE q # NoQuestion /\ Contract!Matched(router, q, window[r], o)
    <3>1. PICK l \in window[r]["request"] :
            IF router.explicit = Nil
            THEN Contract!SettledBy(o, router.noCnameResponse, MatchedResult(l, q), <<>>)
            ELSE \E reply \in Replies :
                   IF reply.ok
                   THEN Contract!ProbedTo(router, window[r], o, MatchedResult(l, q),
                                          <<Exchange(router.explicit, reply)>>, reply.answer)
                   ELSE Contract!FailedWith(o, <<Exchange(router.explicit, reply)>>)
      BY <2>6, SameOperators DEF Contract!Matched
    <3> DEFINE res == MatchedResult(l, q)
    <3>2. l \in Lists /\ q \in Queries
      BY <2>3, <2>6 DEF Matchers
    <3>3. res \in RouteResults
      BY <3>2, MatchedResultShape
    <3> HIDE DEF res
    <3>4. CASE router.explicit = Nil
      <4>1. Contract!SettledBy(o, router.noCnameResponse, res, <<>>)
        BY <3>1, <3>4 DEF res
      <4>2. Caused(o, q)
        BY <2>2, <3>3, <4>1, SettledIsCaused
      <4>3. QED
        BY <4>2 DEF o, q
    <3>5. CASE router.explicit # Nil
      <4>1. PICK probe \in Replies :
              IF probe.ok
              THEN Contract!ProbedTo(router, window[r], o, res,
                                     <<Exchange(router.explicit, probe)>>, probe.answer)
              ELSE Contract!FailedWith(o, <<Exchange(router.explicit, probe)>>)
        BY <3>1, <3>5 DEF res
      <4> DEFINE x == Exchange(router.explicit, probe)
      <4>2. x.reply = probe
        BY DEF Exchange
      <4> HIDE DEF x
      <4>3. CASE ~ probe.ok
        <5>1. o = [state |-> "failed", result |-> EmptyResult, log |-> <<x>>]
          BY <4>1, <4>3, SameOperators DEF Contract!FailedWith, x
        <5>2. o.state = "failed" /\ o.log = <<x>>
          BY <5>1
        <5>3. Caused(o, q)
          BY <4>2, <4>3, <5>2 DEF Caused
        <5>4. QED
          BY <5>3 DEF o, q
      <4>4. CASE probe.ok
        <5>1. \/ Contract!SettledBy(o, router.noCnameResponse, res, <<x>>)
              \/ Contract!SettledBy(o, router.noCnameMatch, res, <<x>>)
              \/ \E k \in CNAMEs(probe.answer), l2 \in window[r]["cname"] :
                   Contract!SettledBy(o, router.explicit,
                                      CNAMEResult(res, l2, probe.answer[k].target), <<x>>)
          BY <4>1, <4>4, SameOperators DEF Contract!ProbedTo, x
        <5>2. ASSUME NEW k \in CNAMEs(probe.answer), NEW l2 \in window[r]["cname"]
              PROVE  CNAMEResult(res, l2, probe.answer[k].target) \in RouteResults
          <6>1. l2 \in Lists /\ probe.answer[k].target \in Name
            BY <2>3, ReplyShape DEF Matchers
          <6>2. QED
            BY <3>3, <6>1, CNAMEResultShape
        <5>3. Caused(o, q)
          BY <2>2, <3>3, <3>5, <4>2, <4>4, <5>1, <5>2, SettledIsCaused
        <5>4. QED
          BY <5>3 DEF o, q
      <4>5. QED
        BY <4>3, <4>4
    <3>6. QED
      BY <3>4, <3>5
  <2>7. QED
    BY <2>1, <2>4, <2>5, <2>6, SameOperators DEF Contract!Legal
<1>2. QED
  BY <1>1, TypeCorrect, InvHolds, PTL DEF Spec, Safe
=============================================================================
