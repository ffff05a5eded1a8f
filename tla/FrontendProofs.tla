---------------------------- MODULE FrontendProofs ----------------------------
(***************************************************************************)
(* Proofs about Frontend for any finite set of requests: its invariants,   *)
(* what scrapes see and what GetStats reports.  The argument is            *)
(* book-keeping: Due says, of where a request is, which counters it has or *)
(* will have incremented by then, Has which of them it is done with, and   *)
(* Books that each counter is the number of requests that have.  So no     *)
(* order in which the handlers increment them can make the books wrong,    *)
(* and the orders between counters come from inclusions between sets of    *)
(* requests.  ScrapeInv adds what a reading made earlier still tells.      *)
(***************************************************************************)
EXTENDS Frontend, FiniteSetTheorems, SequenceTheorems, TLAPS

\* The order in which a handler increments counters.
Rank == [total |-> 1, requests |-> 2, active |-> 3, duration |-> 4, resolverUsed |-> 5,
         pattern |-> 6, cname |-> 7, codes |-> 8, errors |-> 9]

In(c, s) == \E i \in DOMAIN s : s[i] = c

Rising(s) == \A i, j \in DOMAIN s : i < j => Rank[s[i]] < Rank[s[j]]

MeteredDue(r, c) ==
  \/ c = "requests" /\ pc[r] # "waiting" /\ question[r]
  \/ c = "active" /\ kind[r] = "dns" /\ pc[r] \notin {"waiting", "done"}
  \/ c = "duration" /\ kind[r] = "dns" /\ outcome[r].ok
  \/ c = "resolverUsed" /\ kind[r] # "coredns" /\ outcome[r].ok
  \/ c = "pattern" /\ kind[r] # "coredns" /\ outcome[r].request
  \/ c = "cname" /\ kind[r] # "coredns" /\ outcome[r].cname
  \/ c = "codes" /\ kind[r] # "coredns" /\
       (outcome[r].ok \/ (kind[r] = "dns" /\ pc[r] \in {"leave", "done"}))
  \/ c = "errors" /\
       \/ kind[r] # "coredns" /\ ~ outcome[r].ok /\ pc[r] \in {"refuse", "leave", "done"}
       \/ sent[r] = <<"lost">>

\* Whether r has incremented c, or has yet to before its next other step.
Due(r, c) ==
  \/ c = "total" /\ kind[r] # "dns" /\ pc[r] # "waiting" /\ ~ Rejected(r)
  \/ metered /\ MeteredDue(r, c)

Has(r, c) == Due(r, c) /\ ~ In(c, todo[r])

Holders(c) == {r \in Requests : Has(r, c)}

Books == \A c \in Counters : count[c] = Cardinality(Holders(c))

\* Where a request is, and what it has come by.
Flow(r) ==
  /\ pc[r] = "waiting" => todo[r] = <<>>
  /\ pc[r] \in {"waiting", "route"} => outcome[r] = NoOutcome
  /\ pc[r] = "answer" => outcome[r].ok
  /\ pc[r] = "refuse" => ~ outcome[r].ok
  /\ pc[r] \in {"waiting", "route", "answer", "refuse"} => sent[r] = <<>>
  /\ pc[r] \in {"leave", "done"} =>
       \/ sent[r] = <<"answer">> /\ outcome[r].ok
       \/ sent[r] = <<"lost">> /\ outcome[r].ok /\ kind[r] = "dns"
       \/ sent[r] = <<"SERVFAIL">> /\ ~ outcome[r].ok
       \/ sent[r] = <<"error">> /\ kind[r] # "dns"
  /\ pc[r] = "done" => todo[r] = <<>>
  /\ kind[r] # "coredns" \/ outcome[r].ok => question[r]

Entry == {"total", "requests", "active"}

\* What it has yet to increment.
Queue(r) ==
  /\ Rising(todo[r])
  /\ \A c \in Counters : In(c, todo[r]) => Due(r, c) /\ (c \in Entry => pc[r] = "route")
  /\ In("pattern", todo[r]) /\ outcome[r].cname => In("cname", todo[r])
  /\ In("resolverUsed", todo[r]) /\ outcome[r].request => In("pattern", todo[r])

\* TypeOK, before the books say that counters are not negative.
Shapes ==
  /\ metered \in BOOLEAN
  /\ count \in [Counters -> Int]
  /\ pc \in [Requests -> {"waiting", "route", "answer", "refuse", "leave", "done"}]
  /\ kind \in [Requests -> Kinds] /\ question \in [Requests -> BOOLEAN]
  /\ todo \in [Requests -> Seq(Counters)]
  /\ outcome \in [Requests -> Outcomes]
  /\ sent \in [Requests -> Seq(Replies)]

StatsInv == stats \in Nat /\ stats <= count["total"]

\* The inductive invariant.
Inv == Shapes /\ (\A r \in Requests : Flow(r) /\ Queue(r)) /\ Books /\ StatsInv
-----------------------------------------------------------------------------
\* Sequences of counters.
LEMMA RankShape == \A c \in Counters : Rank[c] \in 1 .. 9
BY DEF Counters, Rank

LEMMA Ranks ==
  /\ {"total", "requests", "active", "duration", "resolverUsed", "pattern", "cname",
      "codes", "errors"} \subseteq Counters
  /\ Rank["total"] < Rank["requests"] /\ Rank["requests"] < Rank["active"]
BY DEF Counters, Rank

LEMMA RankOrder ==
  /\ Rank["duration"] = 4 /\ Rank["resolverUsed"] = 5 /\ Rank["pattern"] = 6
  /\ Rank["cname"] = 7 /\ Rank["codes"] = 8
BY DEF Rank

LEMMA TailShape ==
  ASSUME NEW s \in Seq(Counters), s # <<>>
  PROVE  /\ Tail(s) \in Seq(Counters) /\ Head(s) \in Counters /\ Head(s) = s[1]
         /\ Len(s) \in Nat \ {0} /\ DOMAIN s = 1 .. Len(s) /\ DOMAIN Tail(s) = 1 .. Len(s) - 1
         /\ \A i \in 1 .. Len(s) - 1 : Tail(s)[i] = s[i + 1]
OBVIOUS

\* Of a rising sequence, taking the head leaves all but the head.
LEMMA RisingTail ==
  ASSUME NEW s \in Seq(Counters), s # <<>>, Rising(s)
  PROVE  /\ Rising(Tail(s))
         /\ \A c : In(c, Tail(s)) <=> In(c, s) /\ c # Head(s)
         /\ In(Head(s), s)
         /\ \A c : In(c, Tail(s)) => Rank[Head(s)] < Rank[c]
<1>1. \A i \in DOMAIN Tail(s) : i + 1 \in DOMAIN s /\ Tail(s)[i] = s[i + 1] /\ i \in Nat
  BY TailShape
<1>2. Rising(Tail(s))
  BY <1>1 DEF Rising
<1>3. In(Head(s), s)
  BY TailShape DEF In
<1>4. ASSUME NEW c, In(c, Tail(s)) PROVE In(c, s) /\ Rank[Head(s)] < Rank[c]
  <2>1. PICK i \in DOMAIN Tail(s) : Tail(s)[i] = c
    BY <1>4 DEF In
  <2>2. i + 1 \in DOMAIN s /\ s[i + 1] = c /\ 1 \in DOMAIN s /\ 1 < i + 1
    BY <1>1, <2>1, TailShape
  <2>3. QED
    BY <2>2, TailShape DEF In, Rising
<1>5. \A c \in Counters : ~ (Rank[c] < Rank[c])
  BY RankShape
<1>6. ASSUME NEW c, In(c, s), c # Head(s) PROVE In(c, Tail(s))
  <2>1. PICK i \in DOMAIN s : s[i] = c
    BY <1>6 DEF In
  <2>2. i # 1 /\ i - 1 \in DOMAIN Tail(s)
    BY <1>6, <2>1, TailShape
  <2>3. Tail(s)[i - 1] = c
    BY <2>1, <2>2, TailShape
  <2>4. QED
    BY <2>2, <2>3 DEF In
<1>7. QED
  BY <1>2, <1>3, <1>4, <1>5, <1>6, TailShape

\* Short sequences, spelled out.
LEMMA Short ==
  /\ <<>> \in Seq(Counters) /\ Rising(<<>>) /\ \A x : ~ In(x, <<>>)
  /\ \A a \in Counters : /\ <<a>> \in Seq(Counters) /\ Rising(<<a>>)
                         /\ \A x : In(x, <<a>>) <=> x = a
  /\ \A a, b \in Counters :
       /\ <<a, b>> \in Seq(Counters) /\ (Rank[a] < Rank[b] => Rising(<<a, b>>))
       /\ \A x : In(x, <<a, b>>) <=> x \in {a, b}
BY DEF In, Rising

LEMMA JoinShape ==
  ASSUME NEW s \in Seq(Counters), NEW t \in Seq(Counters), Rising(s), Rising(t),
         \A c, d \in Counters : In(c, s) /\ In(d, t) => Rank[c] < Rank[d]
  PROVE  /\ s \o t \in Seq(Counters) /\ Rising(s \o t)
         /\ \A c : In(c, s \o t) <=> In(c, s) \/ In(c, t)
<1>n. Len(s) \in Nat /\ Len(t) \in Nat /\ DOMAIN s = 1 .. Len(s) /\ DOMAIN t = 1 .. Len(t)
  OBVIOUS
<1>1. /\ s \o t \in Seq(Counters) /\ DOMAIN (s \o t) = 1 .. Len(s) + Len(t)
      /\ \A i \in 1 .. Len(s) : (s \o t)[i] = s[i]
      /\ \A i \in 1 .. Len(t) : (s \o t)[Len(s) + i] = t[i]
  BY ConcatProperties
<1>2. \A i \in DOMAIN (s \o t) : \/ i \in DOMAIN s
                                 \/ i - Len(s) \in DOMAIN t /\ i = Len(s) + (i - Len(s))
  BY <1>n, <1>1
<1>3. ASSUME NEW c PROVE In(c, s \o t) <=> In(c, s) \/ In(c, t)
  <2>1. \A i \in DOMAIN s : i \in DOMAIN (s \o t)
    BY <1>n, <1>1
  <2>2. \A i \in DOMAIN t : Len(s) + i \in DOMAIN (s \o t)
    BY <1>n, <1>1
  <2>3. In(c, s) \/ In(c, t) => In(c, s \o t)
    BY <1>n, <1>1, <2>1, <2>2 DEF In
  <2>4. In(c, s \o t) => In(c, s) \/ In(c, t)
    BY <1>n, <1>1, <1>2 DEF In
  <2>5. QED
    BY <2>3, <2>4
<1>4. ASSUME NEW i \in DOMAIN (s \o t), NEW j \in DOMAIN (s \o t), i < j
      PROVE  Rank[(s \o t)[i]] < Rank[(s \o t)[j]]
  <2>1. CASE i \in DOMAIN s /\ j \in DOMAIN s
    BY <1>n, <1>1, <1>4, <2>1 DEF Rising
  <2>2. CASE i \in DOMAIN s /\ j \notin DOMAIN s
    <3>1. j - Len(s) \in DOMAIN t /\ (s \o t)[j] = t[j - Len(s)] /\ (s \o t)[i] = s[i]
      BY <1>n, <1>1, <1>2, <2>2
    <3>2. In(s[i], s) /\ In(t[j - Len(s)], t) /\ s[i] \in Counters /\ t[j - Len(s)] \in Counters
      BY <2>2, <3>1 DEF In
    <3>3. QED
      BY <3>1, <3>2
  <2>3. CASE i \notin DOMAIN s
    <3>1. j \notin DOMAIN s
      BY <1>n, <1>1, <1>4, <2>3
    <3>2. /\ i - Len(s) \in DOMAIN t /\ (s \o t)[i] = t[i - Len(s)]
          /\ j - Len(s) \in DOMAIN t /\ (s \o t)[j] = t[j - Len(s)]
      BY <1>n, <1>1, <1>2, <2>3, <3>1
    <3>3. i - Len(s) < j - Len(s)
      BY <1>n, <1>1, <1>4
    <3>4. QED
      BY <3>2, <3>3 DEF Rising
  <2>4. QED
    BY <2>1, <2>2, <2>3
<1>5. QED
  BY <1>1, <1>3, <1>4 DEF Rising

\* What a handler is to increment on its way in, and of an outcome.
LEMMA EntryShape ==
  ASSUME NEW k \in Kinds, NEW q \in BOOLEAN, metered \in BOOLEAN
  PROVE  /\ Kept(OnEntry(k, q)) \in Seq(Counters) /\ Rising(Kept(OnEntry(k, q)))
         /\ \A c : In(c, Kept(OnEntry(k, q))) <=>
                     \/ c = "total" /\ k # "dns"
                     \/ metered /\ c = "requests" /\ (k # "coredns" \/ q)
                     \/ metered /\ c = "active" /\ k = "dns"
<1>c. "total" \in Counters /\ "requests" \in Counters /\ "active" \in Counters
  BY Ranks
<1>r. Rank["requests"] < Rank["active"] /\ Rank["total"] < Rank["requests"]
  BY Ranks
<1>1. CASE k = "dns"
  <2>1. OnEntry(k, q) = <<"requests", "active">>
    BY <1>1 DEF OnEntry
  <2>2. CASE metered
    <3>1. Kept(OnEntry(k, q)) = <<"requests", "active">>
      BY <2>1, <2>2 DEF Kept
    <3>2. QED
      <4>1. <<"requests", "active">> \in Seq(Counters) /\ Rising(<<"requests", "active">>)
        BY <1>c, <1>r, Short
      <4>2. \A x : In(x, <<"requests", "active">>) <=> x \in {"requests", "active"}
        BY <1>c, Short
      <4>3. QED
        BY <1>1, <2>2, <3>1, <4>1, <4>2
  <2>3. CASE ~ metered
    <3>1. Kept(OnEntry(k, q)) = <<>>
      BY <2>1, <2>3 DEF Kept
    <3>2. QED
      BY <1>1, <2>3, <3>1, Short
  <2>4. QED
    BY <2>2, <2>3
<1>2. CASE k = "grpc" \/ (k = "coredns" /\ q)
  <2>1. OnEntry(k, q) = <<"total", "requests">>
    BY <1>2 DEF OnEntry
  <2>2. CASE metered
    <3>1. Kept(OnEntry(k, q)) = <<"total", "requests">>
      BY <2>1, <2>2 DEF Kept
    <3>2. QED
      BY <1>2, <1>c, <1>r, <2>2, <3>1, Short
  <2>3. CASE ~ metered
    <3>1. Kept(OnEntry(k, q)) = <<"total">>
      BY <2>1, <2>3 DEF Kept
    <3>2. QED
      BY <1>2, <1>c, <2>3, <3>1, Short
  <2>4. QED
    BY <2>2, <2>3
<1>3. CASE k = "coredns" /\ ~ q
  <2>1. OnEntry(k, q) = <<"total">>
    BY <1>3 DEF OnEntry
  <2>2. Kept(OnEntry(k, q)) = <<"total">>
    BY <2>1 DEF Kept
  <2>3. /\ <<"total">> \in Seq(Counters) /\ Rising(<<"total">>)
        /\ \A x : In(x, <<"total">>) <=> x = "total"
    BY <1>c, Short
  <2>4. QED
    BY <1>3, <2>2, <2>3
<1>4. QED
  BY <1>1, <1>2, <1>3 DEF Kinds

LEMMA KeptOfOutcome ==
  ASSUME NEW s \in Seq(Counters), \A c : In(c, s) => c # "total", Rising(s), metered \in BOOLEAN
  PROVE  /\ Kept(s) \in Seq(Counters) /\ Rising(Kept(s))
         /\ \A c : In(c, Kept(s)) <=> metered /\ In(c, s)
<1>1. CASE metered
  BY <1>1 DEF Kept
<1>2. CASE ~ metered
  <2>1. Kept(s) = <<>>
    BY <1>2 DEF Kept, In
  <2>2. QED
    BY <1>2, <2>1, Short
<1>3. QED
  BY <1>1, <1>2

LEMMA OutcomeBits ==
  ASSUME NEW o \in Outcomes
  PROVE  /\ o.ok \in BOOLEAN /\ o.request \in BOOLEAN /\ o.cname \in BOOLEAN
         /\ o.cname => o.request
         /\ o.request => o.ok
<1>1. CASE o = [ok |-> FALSE, request |-> FALSE, cname |-> FALSE]
  BY <1>1
<1>2. CASE o \in [ok : {TRUE}, request : BOOLEAN, cname : BOOLEAN] /\ (o.cname => o.request)
  <2>1. o.ok = TRUE /\ o.request \in BOOLEAN /\ o.cname \in BOOLEAN
    BY <1>2
  <2>2. QED
    BY <1>2, <2>1
<1>3. QED
  BY <1>1, <1>2 DEF Outcomes

\* A counter that is incremented under a condition.
Maybe(p, c) == IF p THEN <<c>> ELSE <<>>

LEMMA MaybeShape ==
  ASSUME NEW p \in BOOLEAN, NEW c \in Counters
  PROVE  /\ Maybe(p, c) \in Seq(Counters) /\ Rising(Maybe(p, c))
         /\ \A x : In(x, Maybe(p, c)) <=> p /\ x = c
BY Short DEF Maybe

LEMMA OutcomeShape ==
  ASSUME NEW k \in Kinds, NEW o \in Outcomes
  PROVE  /\ OfOutcome(k, o) \in Seq(Counters) /\ Rising(OfOutcome(k, o))
         /\ \A c : In(c, OfOutcome(k, o)) <=>
                     /\ k # "coredns"
                     /\ \/ c = "errors" /\ ~ o.ok
                        \/ c = "duration" /\ k = "dns" /\ o.ok
                        \/ c = "resolverUsed" /\ o.ok
                        \/ c = "pattern" /\ o.request
                        \/ c = "cname" /\ o.cname
                        \/ c = "codes" /\ o.ok
<1>o. /\ o.ok \in BOOLEAN /\ o.request \in BOOLEAN /\ o.cname \in BOOLEAN
      /\ o.cname => o.request
      /\ o.request => o.ok
  BY OutcomeBits
<1>c. /\ "errors" \in Counters /\ "duration" \in Counters /\ "resolverUsed" \in Counters
      /\ "pattern" \in Counters /\ "cname" \in Counters /\ "codes" \in Counters
  BY Ranks
<1>1. CASE k = "coredns"
  <2>1. OfOutcome(k, o) = <<>>
    BY <1>1 DEF OfOutcome
  <2>2. <<>> \in Seq(Counters) /\ Rising(<<>>) /\ \A x : ~ In(x, <<>>)
    BY Short
  <2>3. QED
    BY <1>1, <2>1, <2>2
<1>2. CASE k # "coredns" /\ ~ o.ok
  <2>1. OfOutcome(k, o) = <<"errors">>
    BY <1>2 DEF OfOutcome
  <2>2. /\ <<"errors">> \in Seq(Counters) /\ Rising(<<"errors">>)
        /\ \A x : In(x, <<"errors">>) <=> x = "errors"
    BY <1>c, Short
  <2>3. ~ o.request /\ ~ o.cname
    BY <1>o, <1>2
  <2>4. QED
    BY <1>2, <2>1, <2>2, <2>3
<1>3. CASE k # "coredns" /\ o.ok
  <2> DEFINE D == Maybe(k = "dns", "duration")   U == Maybe(TRUE, "resolverUsed")
             P == Maybe(o.request, "pattern")    A == Maybe(o.cname, "cname")
             C == Maybe(TRUE, "codes")
  <2>1. OfOutcome(k, o) = (((D \o U) \o P) \o A) \o C
    BY <1>3 DEF OfOutcome, Maybe
  <2>2. /\ D \in Seq(Counters) /\ Rising(D) /\ \A x : In(x, D) <=> k = "dns" /\ x = "duration"
        /\ U \in Seq(Counters) /\ Rising(U) /\ \A x : In(x, U) <=> x = "resolverUsed"
        /\ P \in Seq(Counters) /\ Rising(P) /\ \A x : In(x, P) <=> o.request /\ x = "pattern"
        /\ A \in Seq(Counters) /\ Rising(A) /\ \A x : In(x, A) <=> o.cname /\ x = "cname"
        /\ C \in Seq(Counters) /\ Rising(C) /\ \A x : In(x, C) <=> x = "codes"
    BY <1>o, <1>c, MaybeShape
  <2> HIDE DEF D, U, P, A, C
  <2>3. /\ D \o U \in Seq(Counters) /\ Rising(D \o U)
        /\ \A x : In(x, D \o U) <=> In(x, D) \/ In(x, U)
    <3>1. \A x, y \in Counters : In(x, D) /\ In(y, U) => Rank[x] < Rank[y]
      BY <2>2, RankOrder
    <3>2. QED
      BY <2>2, <3>1, JoinShape
  <2>4. /\ (D \o U) \o P \in Seq(Counters) /\ Rising((D \o U) \o P)
        /\ \A x : In(x, (D \o U) \o P) <=> In(x, D) \/ In(x, U) \/ In(x, P)
    <3>1. \A x, y \in Counters : In(x, D \o U) /\ In(y, P) => Rank[x] < Rank[y]
      BY <2>2, <2>3, RankOrder
    <3>2. QED
      BY <2>2, <2>3, <3>1, JoinShape
  <2>5. /\ ((D \o U) \o P) \o A \in Seq(Counters) /\ Rising(((D \o U) \o P) \o A)
        /\ \A x : In(x, ((D \o U) \o P) \o A) <=> In(x, D) \/ In(x, U) \/ In(x, P) \/ In(x, A)
    <3>1. \A x, y \in Counters : In(x, (D \o U) \o P) /\ In(y, A) => Rank[x] < Rank[y]
      <4>1. \A x : In(x, (D \o U) \o P) => x \in {"duration", "resolverUsed", "pattern"}
        BY <2>2, <2>4
      <4>2. \A y : In(y, A) => y = "cname"
        BY <2>2
      <4>3. QED
        BY <4>1, <4>2, RankOrder
    <3>2. QED
      BY <2>2, <2>4, <3>1, JoinShape
  <2>6. /\ (((D \o U) \o P) \o A) \o C \in Seq(Counters) /\ Rising((((D \o U) \o P) \o A) \o C)
        /\ \A x : In(x, (((D \o U) \o P) \o A) \o C) <=>
               In(x, D) \/ In(x, U) \/ In(x, P) \/ In(x, A) \/ In(x, C)
    <3>1. \A x, y \in Counters : In(x, ((D \o U) \o P) \o A) /\ In(y, C) => Rank[x] < Rank[y]
      <4>1. \A x : In(x, ((D \o U) \o P) \o A) =>
                     x \in {"duration", "resolverUsed", "pattern", "cname"}
        BY <2>2, <2>5
      <4>2. \A y : In(y, C) => y = "codes"
        BY <2>2
      <4>3. QED
        BY <4>1, <4>2, RankOrder
    <3>2. QED
      BY <2>2, <2>5, <3>1, JoinShape
  <2>7. QED
    BY <1>o, <1>3, <2>1, <2>2, <2>6
<1>4. QED
  BY <1>o, <1>1, <1>2, <1>3
-----------------------------------------------------------------------------
\* Counting the requests that have incremented a counter.
Bit(r, c) == IF Has(r, c) THEN 1 ELSE 0

LEMMA CountOne ==
  ASSUME NEW S \in SUBSET Requests, NEW T \in SUBSET Requests, NEW r \in Requests,
         \A q \in Requests : q # r => (q \in T <=> q \in S)
  PROVE  /\ Cardinality(S) \in Nat /\ Cardinality(T) \in Nat
         /\ Cardinality(T) = Cardinality(S) + (IF r \in T THEN 1 ELSE 0) - (IF r \in S THEN 1 ELSE 0)
<1>1. IsFiniteSet(S) /\ IsFiniteSet(T)
  BY FrontendAssumption, FS_Subset
<1>2. Cardinality(S) \in Nat /\ Cardinality(T) \in Nat
  BY <1>1, FS_CardinalityType
<1>3. CASE r \in S <=> r \in T
  <2>1. S = T
    BY <1>3
  <2>2. QED
    BY <1>2, <1>3, <2>1
<1>4. CASE r \notin S /\ r \in T
  <2>1. T = S \cup {r}
    BY <1>4
  <2>2. QED
    BY <1>1, <1>2, <1>4, <2>1, FS_AddElement
<1>5. CASE r \in S /\ r \notin T
  <2>1. S = T \cup {r}
    BY <1>5
  <2>2. QED
    BY <1>1, <1>2, <1>5, <2>1, FS_AddElement
<1>6. QED
  BY <1>3, <1>4, <1>5, <1>2

\* What a step of r does to the books: each counter goes with what r has.
Delta(r) == \A c \in Counters : count'[c] = count[c] + Bit(r, c)' - Bit(r, c)

\* Other requests do not notice.
Apart(r) ==
  \A q \in Requests \ {r} :
    /\ pc'[q] = pc[q] /\ kind'[q] = kind[q] /\ question'[q] = question[q]
    /\ todo'[q] = todo[q] /\ outcome'[q] = outcome[q] /\ sent'[q] = sent[q]

LEMMA DueStays ==
  ASSUME NEW q, metered' = metered, pc'[q] = pc[q], kind'[q] = kind[q],
         question'[q] = question[q], outcome'[q] = outcome[q], sent'[q] = sent[q]
  PROVE  \A c : Due(q, c)' <=> Due(q, c)
BY DEF Due, MeteredDue, Rejected

LEMMA BooksKept ==
  ASSUME Books, NEW r \in Requests, Delta(r), Apart(r), metered' = metered
  PROVE  Books'
<1> SUFFICES ASSUME NEW c \in Counters PROVE count'[c] = Cardinality(Holders(c)')
  BY DEF Books
<1>1. \A q \in Requests : q # r => (Has(q, c)' <=> Has(q, c))
  <2>1. ASSUME NEW q \in Requests, q # r PROVE Has(q, c)' <=> Has(q, c)
    BY <2>1, DueStays DEF Apart, Has
  <2>2. QED
    BY <2>1
<1>2. Holders(c) \in SUBSET Requests /\ Holders(c)' \in SUBSET Requests
  BY DEF Holders
<1>3. /\ \A q \in Requests : q \in Holders(c) <=> Has(q, c)
      /\ \A q \in Requests : q \in Holders(c)' <=> Has(q, c)'
  BY DEF Holders
<1>4. Cardinality(Holders(c)') = Cardinality(Holders(c)) + Bit(r, c)' - Bit(r, c)
  BY <1>1, <1>2, <1>3, CountOne DEF Bit
<1>5. QED
  BY <1>4 DEF Books, Delta

LEMMA OthersKept ==
  ASSUME NEW r \in Requests, Apart(r), metered' = metered,
         NEW q \in Requests, q # r, Flow(q), Queue(q)
  PROVE  Flow(q)' /\ Queue(q)'
<1>1. /\ pc'[q] = pc[q] /\ kind'[q] = kind[q] /\ question'[q] = question[q]
      /\ todo'[q] = todo[q] /\ outcome'[q] = outcome[q] /\ sent'[q] = sent[q]
  BY DEF Apart
<1>2. \A c : Due(q, c)' <=> Due(q, c)
  BY <1>1, DueStays
<1>3. Flow(q)'
  BY <1>1 DEF Flow
<1>4. QED
  BY <1>1, <1>2, <1>3 DEF Queue
-----------------------------------------------------------------------------
\* All metrics but the gauge are counters in Prometheus' sense.
Growing == \A c \in Counters \ {"active"} : count'[c] >= count[c]

\* What every step of a request's handler does, beside what it is for.
Good(r) ==
  /\ Shapes' /\ metered' = metered /\ stats' = stats /\ Apart(r)
  /\ Flow(r)' /\ Queue(r)' /\ Delta(r) /\ Growing

\* A step that leaves the counters alone is good if it gives r only counters
\* that it does not have yet and takes none away.
LEMMA Uncounted ==
  ASSUME Shapes, NEW r, count' = count, \A c \in Counters : Has(r, c)' <=> Has(r, c)
  PROVE  Delta(r) /\ Growing
<1>1. \A c \in Counters : Bit(r, c) \in {0, 1} /\ Bit(r, c)' = Bit(r, c)
  BY DEF Bit
<1>2. \A c \in Counters : count[c] \in Int
  BY DEF Shapes
<1>3. QED
  BY <1>1, <1>2 DEF Delta, Growing

LEMMA ArriveGood ==
  ASSUME Shapes, NEW r \in Requests, Flow(r), Arrive(r)
  PROVE  Good(r)
<1>1. PICK k \in Kinds, q \in BOOLEAN :
        /\ q \/ k = "coredns"
        /\ kind' = [kind EXCEPT ![r] = k] /\ question' = [question EXCEPT ![r] = q]
        /\ todo' = [todo EXCEPT ![r] = Kept(OnEntry(k, q))]
  BY DEF Arrive, Then
<1>2. /\ pc[r] = "waiting" /\ pc' = [pc EXCEPT ![r] = "route"]
      /\ UNCHANGED <<metered, count, outcome, sent, stats>>
  BY DEF Arrive, Goto
<1>3. /\ Kept(OnEntry(k, q)) \in Seq(Counters) /\ Rising(Kept(OnEntry(k, q)))
      /\ \A c : In(c, Kept(OnEntry(k, q))) <=>
                  \/ c = "total" /\ k # "dns"
                  \/ metered /\ c = "requests" /\ (k # "coredns" \/ q)
                  \/ metered /\ c = "active" /\ k = "dns"
  BY EntryShape DEF Shapes
<1>4. Shapes'
  BY <1>1, <1>2, <1>3 DEF Shapes
<1>5. Apart(r)
  BY <1>1, <1>2 DEF Apart, Shapes
<1>6. /\ pc'[r] = "route" /\ kind'[r] = k /\ question'[r] = q /\ todo'[r] = Kept(OnEntry(k, q))
      /\ outcome'[r] = NoOutcome /\ sent'[r] = <<>> /\ outcome[r] = NoOutcome /\ sent[r] = <<>>
  BY <1>1, <1>2 DEF Shapes, Flow
<1>7. Flow(r)'
  BY <1>1, <1>6 DEF Flow, NoOutcome
<1>8. \A c : Due(r, c)' => In(c, todo'[r])
  BY <1>1, <1>2, <1>3, <1>6 DEF Due, MeteredDue, NoOutcome
<1>9. \A c : In(c, todo'[r]) => Due(r, c)' /\ c \in Entry
  BY <1>1, <1>2, <1>3, <1>6 DEF Due, MeteredDue, Rejected, Entry
<1>10. \A c : ~ Due(r, c)
  BY <1>2, <1>6 DEF Due, MeteredDue, NoOutcome
<1>11. Queue(r)'
  BY <1>3, <1>6, <1>9 DEF Queue, Entry
<1>12. \A c \in Counters : Has(r, c)' <=> Has(r, c)
  BY <1>8, <1>10 DEF Has
<1>13. QED
  BY <1>2, <1>4, <1>5, <1>7, <1>11, <1>12, Uncounted DEF Good

LEMMA RejectGood ==
  ASSUME Shapes, NEW r \in Requests, Flow(r), Queue(r), Reject(r)
  PROVE  Good(r)
<1>1. /\ pc[r] = "waiting" /\ pc' = [pc EXCEPT ![r] = "done"]
      /\ kind' = [kind EXCEPT ![r] = "coredns"] /\ question' = [question EXCEPT ![r] = FALSE]
      /\ sent' = [sent EXCEPT ![r] = Append(sent[r], "error")]
      /\ UNCHANGED <<metered, count, todo, outcome, stats>>
  BY DEF Reject, Say, Goto
<1>2. sent[r] = <<>> /\ todo[r] = <<>> /\ outcome[r] = NoOutcome
  BY <1>1 DEF Flow
<1>3. /\ pc'[r] = "done" /\ kind'[r] = "coredns" /\ question'[r] = FALSE /\ sent'[r] = <<"error">>
      /\ todo'[r] = <<>> /\ outcome'[r] = NoOutcome
  BY <1>1, <1>2 DEF Shapes
<1>4. Shapes'
  <2>1. Append(sent[r], "error") \in Seq(Replies) /\ "coredns" \in Kinds
    BY <1>2 DEF Replies, Kinds
  <2>2. QED
    BY <1>1, <2>1 DEF Shapes
<1>5. Apart(r)
  BY <1>1 DEF Apart, Shapes
<1>6. Flow(r)'
  BY <1>3 DEF Flow, NoOutcome
<1>7. \A c : ~ Due(r, c) /\ ~ Due(r, c)'
  BY <1>1, <1>2, <1>3 DEF Due, MeteredDue, Rejected, NoOutcome
<1>8. Queue(r)'
  BY <1>3, Short DEF Queue
<1>9. QED
  BY <1>1, <1>4, <1>5, <1>6, <1>7, <1>8, Uncounted DEF Good, Has

LEMMA RecordGood ==
  ASSUME Shapes, NEW r \in Requests, Flow(r), Queue(r), Record(r)
  PROVE  Good(r)
<1>1. /\ todo[r] # <<>> /\ todo[r] \in Seq(Counters) /\ Rising(todo[r])
      /\ todo' = [todo EXCEPT ![r] = Tail(todo[r])]
      /\ count' = [count EXCEPT ![Head(todo[r])] = count[Head(todo[r])] + 1]
      /\ UNCHANGED <<metered, pc, kind, question, outcome, sent, stats>>
  BY DEF Record, Queue, Shapes
<1>2. /\ Tail(todo[r]) \in Seq(Counters) /\ Head(todo[r]) \in Counters
  BY <1>1, TailShape
<1>3. /\ Rising(Tail(todo[r])) /\ In(Head(todo[r]), todo[r])
      /\ \A c : In(c, Tail(todo[r])) <=> In(c, todo[r]) /\ c # Head(todo[r])
      /\ \A c : In(c, Tail(todo[r])) => Rank[Head(todo[r])] < Rank[c]
  BY <1>1, RisingTail
<1>4. todo'[r] = Tail(todo[r])
  BY <1>1 DEF Shapes
<1>5. Shapes'
  BY <1>1, <1>2 DEF Shapes
<1>6. Apart(r)
  BY <1>1 DEF Apart, Shapes
<1>7. \A c : Due(r, c)' <=> Due(r, c)
  BY <1>1, DueStays
<1>8. Flow(r)'
  BY <1>1 DEF Flow
<1>9. Queue(r)'
  <2>1. ASSUME In("pattern", Tail(todo[r])), outcome[r].cname PROVE In("cname", Tail(todo[r]))
    BY <1>3, <2>1, RankOrder DEF Queue
  <2>2. ASSUME In("resolverUsed", Tail(todo[r])), outcome[r].request
        PROVE  In("pattern", Tail(todo[r]))
    BY <1>3, <2>2, RankOrder DEF Queue
  <2>3. QED
    BY <1>1, <1>3, <1>4, <1>7, <2>1, <2>2 DEF Queue
<1>10. Delta(r)
  <2>1. PICK h \in Counters : h = Head(todo[r])
    BY <1>2
  <2>2. ASSUME NEW c \in Counters, c # h PROVE Bit(r, c)' = Bit(r, c) /\ count'[c] = count[c]
    <3>1. Has(r, c)' <=> Has(r, c)
      BY <1>3, <1>4, <1>7, <2>1, <2>2 DEF Has
    <3>2. QED
      BY <1>1, <2>1, <2>2, <3>1 DEF Bit, Shapes
  <2>3. Bit(r, h)' = 1 /\ Bit(r, h) = 0 /\ count'[h] = count[h] + 1
    <3>1. Due(r, h)' /\ ~ In(h, todo'[r]) /\ In(h, todo[r])
      BY <1>3, <1>4, <1>7, <2>1 DEF Queue
    <3>2. QED
      BY <1>1, <2>1, <3>1 DEF Bit, Has, Shapes
  <2>4. \A c \in Counters : count[c] \in Int /\ Bit(r, c) \in Int
    BY DEF Shapes, Bit
  <2>5. QED
    BY <2>2, <2>3, <2>4 DEF Delta
<1>11. Growing
  BY <1>1 DEF Growing, Shapes
<1>12. QED
  BY <1>1, <1>5, <1>6, <1>8, <1>9, <1>10, <1>11 DEF Good

LEMMA RouteGood ==
  ASSUME Shapes, NEW r \in Requests, Flow(r), Queue(r), Route(r)
  PROVE  Good(r)
<1>1. PICK o \in Outcomes :
        /\ question[r] \/ o = NoOutcome
        /\ outcome' = [outcome EXCEPT ![r] = o]
        /\ todo' = [todo EXCEPT ![r] = Kept(OfOutcome(kind[r], o))]
  BY DEF Route, Then
<1>2. /\ pc[r] = "route" /\ todo[r] = <<>> /\ outcome[r] = NoOutcome /\ sent[r] = <<>>
      /\ UNCHANGED <<metered, count, kind, question, sent, stats>>
      /\ pc' = [pc EXCEPT ![r] = IF outcome'[r].ok THEN "answer" ELSE "refuse"]
  BY DEF Route, Ready, Goto, Flow
<1>3. /\ outcome'[r] = o /\ todo'[r] = Kept(OfOutcome(kind[r], o))
      /\ pc'[r] = IF o.ok THEN "answer" ELSE "refuse"
  BY <1>1, <1>2 DEF Shapes
<1>o. /\ o.ok \in BOOLEAN /\ o.request \in BOOLEAN /\ o.cname \in BOOLEAN
      /\ o.cname => o.request
      /\ o.request => o.ok
  BY OutcomeBits
<1>4. /\ todo'[r] \in Seq(Counters) /\ Rising(todo'[r])
      /\ \A c : In(c, todo'[r]) <=> metered /\ In(c, OfOutcome(kind[r], o))
  <2>1. kind[r] \in Kinds /\ metered \in BOOLEAN
    BY DEF Shapes
  <2>2. /\ OfOutcome(kind[r], o) \in Seq(Counters) /\ Rising(OfOutcome(kind[r], o))
        /\ \A c : In(c, OfOutcome(kind[r], o)) => c # "total"
    BY <2>1, OutcomeShape
  <2>3. QED
    BY <1>3, <2>1, <2>2, KeptOfOutcome
<1>5. \A c : In(c, todo'[r]) <=>
              /\ metered /\ kind[r] # "coredns"
              /\ \/ c = "errors" /\ ~ o.ok
                 \/ c = "duration" /\ kind[r] = "dns" /\ o.ok
                 \/ c = "resolverUsed" /\ o.ok
                 \/ c = "pattern" /\ o.request
                 \/ c = "cname" /\ o.cname
                 \/ c = "codes" /\ o.ok
  <2>1. kind[r] \in Kinds
    BY DEF Shapes
  <2>2. QED
    BY <1>4, <2>1, OutcomeShape
<1>6. Shapes'
  <2>1. Kept(OfOutcome(kind[r], o)) \in Seq(Counters)
    BY <1>3, <1>4
  <2>2. pc' \in [Requests -> {"waiting", "route", "answer", "refuse", "leave", "done"}]
    BY <1>2 DEF Shapes
  <2>3. QED
    BY <1>1, <1>2, <2>1, <2>2 DEF Shapes
<1>7. Apart(r)
  BY <1>1, <1>2 DEF Apart, Shapes
<1>8. Flow(r)'
  BY <1>1, <1>2, <1>3, <1>o DEF Flow, NoOutcome
<1>9. \A c : In(c, todo'[r]) => Due(r, c)' /\ c \notin Entry
  BY <1>2, <1>3, <1>5, <1>o DEF Due, MeteredDue, Entry
<1>10. Queue(r)'
  BY <1>3, <1>4, <1>5, <1>9, <1>o DEF Queue
<1>11. \A c \in Counters : Has(r, c)' <=> Has(r, c)
  <2>1. \A c : Due(r, c) => c \in Entry /\ Due(r, c)'
    BY <1>2, <1>3 DEF Due, MeteredDue, NoOutcome, Rejected, Entry
  <2>2. \A c : Due(r, c)' => Due(r, c) \/ In(c, todo'[r])
    <3>1. Rejected(r)' <=> Rejected(r)
      BY <1>2 DEF Rejected
    <3>2. \A c : MeteredDue(r, c)' /\ metered => (metered /\ MeteredDue(r, c)) \/ In(c, todo'[r])
      BY <1>2, <1>3, <1>5, <1>o DEF MeteredDue, NoOutcome
    <3>3. QED
      BY <1>2, <1>3, <3>1, <3>2 DEF Due
  <2>3. \A c : ~ In(c, todo[r])
    BY <1>2, Short
  <2>4. QED
    BY <1>9, <2>1, <2>2, <2>3 DEF Has
<1>12. QED
  BY <1>2, <1>6, <1>7, <1>8, <1>10, <1>11, Uncounted DEF Good

LEMMA KeptOne ==
  ASSUME metered \in BOOLEAN, NEW c \in Counters, c # "total"
  PROVE  /\ Kept(<<>>) = <<>>
         /\ Kept(<<c>>) = IF metered THEN <<c>> ELSE <<>>
BY DEF Kept

LEMMA RefuseGood ==
  ASSUME Shapes, NEW r \in Requests, Flow(r), Queue(r), Refuse(r)
  PROVE  Good(r)
<1>1. /\ pc[r] = "refuse" /\ todo[r] = <<>> /\ sent[r] = <<>> /\ ~ outcome[r].ok
      /\ pc' = [pc EXCEPT ![r] = "leave"]
      /\ UNCHANGED <<metered, count, kind, question, outcome, stats>>
      /\ sent' = [sent EXCEPT ![r] = Append(sent[r], IF kind[r] = "grpc" THEN "error" ELSE "SERVFAIL")]
      /\ todo' = [todo EXCEPT ![r] = Kept(IF kind[r] = "dns" THEN <<"codes">> ELSE <<>>)]
  BY DEF Refuse, Ready, Flow, Say, Then, Goto
<1>2. Kept(IF kind[r] = "dns" THEN <<"codes">> ELSE <<>>)
        = IF metered /\ kind[r] = "dns" THEN <<"codes">> ELSE <<>>
  <2>1. metered \in BOOLEAN /\ "codes" \in Counters
    BY Ranks DEF Shapes
  <2>2. QED
    BY <2>1, KeptOne
<1>3. /\ pc'[r] = "leave"
      /\ sent'[r] = IF kind[r] = "grpc" THEN <<"error">> ELSE <<"SERVFAIL">>
      /\ todo'[r] = IF metered /\ kind[r] = "dns" THEN <<"codes">> ELSE <<>>
  BY <1>1, <1>2 DEF Shapes
<1>4. /\ todo'[r] \in Seq(Counters) /\ Rising(todo'[r])
      /\ \A c : In(c, todo'[r]) <=> metered /\ kind[r] = "dns" /\ c = "codes"
  <2>1. "codes" \in Counters
    BY Ranks
  <2>2. QED
    BY <1>3, <2>1, Short
<1>5. Shapes'
  <2>1. sent' \in [Requests -> Seq(Replies)]
    <3>1. Append(sent[r], IF kind[r] = "grpc" THEN "error" ELSE "SERVFAIL") \in Seq(Replies)
      BY <1>1 DEF Replies
    <3>2. QED
      BY <1>1, <3>1 DEF Shapes
  <2>2. todo' \in [Requests -> Seq(Counters)]
    BY <1>1, <1>3, <1>4 DEF Shapes
  <2>3. QED
    BY <1>1, <2>1, <2>2 DEF Shapes
<1>6. Apart(r)
  BY <1>1 DEF Apart, Shapes
<1>7. Flow(r)'
  <2>1. kind[r] # "dns" \/ kind[r] # "grpc"
    OBVIOUS
  <2>2. QED
    BY <1>1, <1>3, <2>1 DEF Flow
<1>8. Queue(r)'
  BY <1>1, <1>3, <1>4 DEF Queue, Due, MeteredDue, Entry
<1>9. \A c \in Counters : Has(r, c)' <=> Has(r, c)
  <2>1. ~ Rejected(r) /\ ~ Rejected(r)'
    BY <1>1, <1>3 DEF Rejected
  <2>2. \A c : Due(r, c)' <=> Due(r, c) \/ (metered /\ kind[r] = "dns" /\ c = "codes")
    BY <1>1, <1>3, <2>1 DEF Due, MeteredDue
  <2>3. ~ (kind[r] = "dns" /\ Due(r, "codes")) /\ \A c : ~ In(c, todo[r])
    BY <1>1, Short DEF Due, MeteredDue
  <2>4. QED
    BY <1>4, <2>2, <2>3 DEF Has
<1>10. QED
  BY <1>1, <1>5, <1>6, <1>7, <1>8, <1>9, Uncounted DEF Good

LEMMA AnswerGood ==
  ASSUME Shapes, NEW r \in Requests, Flow(r), Queue(r), Answer(r)
  PROVE  Good(r)
<1>1. /\ pc[r] = "answer" /\ todo[r] = <<>> /\ sent[r] = <<>> /\ outcome[r].ok /\ question[r]
      /\ pc' = [pc EXCEPT ![r] = "leave"]
      /\ UNCHANGED <<metered, count, kind, question, outcome, stats>>
  BY DEF Answer, Ready, Flow, Goto
<1>2. PICK reply \in Replies :
        /\ \/ reply = "answer" /\ todo' = [todo EXCEPT ![r] = Kept(<<>>)]
           \/ reply = "lost" /\ kind[r] = "dns" /\ todo' = [todo EXCEPT ![r] = Kept(<<"errors">>)]
           \/ reply = "error" /\ kind[r] = "coredns" /\ todo' = [todo EXCEPT ![r] = Kept(<<>>)]
        /\ sent' = [sent EXCEPT ![r] = Append(sent[r], reply)]
  BY DEF Answer, Say, Then, Replies
<1>3. pc'[r] = "leave" /\ sent'[r] = <<reply>>
  BY <1>1, <1>2 DEF Shapes
<1>4. /\ todo' = [todo EXCEPT ![r] = IF metered /\ reply = "lost" THEN <<"errors">> ELSE <<>>]
      /\ todo'[r] = IF metered /\ reply = "lost" THEN <<"errors">> ELSE <<>>
  <2>1. metered \in BOOLEAN /\ "errors" \in Counters
    BY Ranks DEF Shapes
  <2>2. Kept(<<>>) = <<>> /\ Kept(<<"errors">>) = IF metered THEN <<"errors">> ELSE <<>>
    BY <2>1, KeptOne
  <2>3. todo' = [todo EXCEPT ![r] = IF metered /\ reply = "lost" THEN <<"errors">> ELSE <<>>]
    BY <1>2, <2>2
  <2>4. QED
    BY <2>3 DEF Shapes
<1>5. /\ todo'[r] \in Seq(Counters) /\ Rising(todo'[r])
      /\ \A c : In(c, todo'[r]) <=> metered /\ reply = "lost" /\ c = "errors"
  <2>1. CASE metered /\ reply = "lost"
    <3>1. todo'[r] = <<"errors">> /\ "errors" \in Counters
      BY <1>4, <2>1, Ranks
    <3>2. QED
      BY <2>1, <3>1, Short
  <2>2. CASE ~ (metered /\ reply = "lost")
    <3>1. todo'[r] = <<>>
      BY <1>4, <2>2
    <3>2. QED
      BY <2>2, <3>1, Short
  <2>3. QED
    BY <2>1, <2>2
<1>6. Shapes'
  <2>1. sent' \in [Requests -> Seq(Replies)]
    <3>1. Append(sent[r], reply) \in Seq(Replies)
      BY <1>1
    <3>2. QED
      BY <1>2, <3>1 DEF Shapes
  <2>2. todo' \in [Requests -> Seq(Counters)]
    BY <1>4, <1>5 DEF Shapes
  <2>3. QED
    BY <1>1, <2>1, <2>2 DEF Shapes
<1>7. Apart(r)
  BY <1>1, <1>2, <1>4 DEF Apart, Shapes
<1>8. Flow(r)'
  BY <1>1, <1>2, <1>3 DEF Flow
<1>9. Queue(r)'
  BY <1>1, <1>3, <1>4, <1>5 DEF Queue, Due, MeteredDue, Entry
<1>10. \A c \in Counters : Has(r, c)' <=> Has(r, c)
  <2>1. ~ Rejected(r) /\ ~ Rejected(r)'
    BY <1>1 DEF Rejected
  <2>2. \A c : Due(r, c)' <=> Due(r, c) \/ (metered /\ reply = "lost" /\ c = "errors")
    BY <1>1, <1>3, <2>1 DEF Due, MeteredDue
  <2>3. ~ Due(r, "errors") /\ \A c : ~ In(c, todo[r])
    BY <1>1, Short DEF Due, MeteredDue
  <2>4. QED
    BY <1>5, <2>2, <2>3 DEF Has
<1>11. QED
  BY <1>1, <1>6, <1>7, <1>8, <1>9, <1>10, Uncounted DEF Good

LEMMA LeaveGood ==
  ASSUME Shapes, NEW r \in Requests, Flow(r), Queue(r), Leave(r)
  PROVE  Good(r)
<1>1. /\ pc[r] = "leave" /\ todo[r] = <<>> /\ pc' = [pc EXCEPT ![r] = "done"]
      /\ UNCHANGED <<metered, kind, question, todo, outcome, sent, stats>>
      /\ count' = IF kind[r] = "dns" /\ metered THEN [count EXCEPT !["active"] = count["active"] - 1]
                  ELSE count
  BY DEF Leave, Ready, Goto
<1>2. pc'[r] = "done"
  BY <1>1 DEF Shapes
<1>c. "active" \in Counters
  BY Ranks
<1>3. Shapes'
  BY <1>1, <1>c DEF Shapes
<1>4. Apart(r)
  BY <1>1 DEF Apart, Shapes
<1>5. Flow(r)'
  BY <1>1, <1>2 DEF Flow
<1>6. Queue(r)'
  BY <1>1, Short DEF Queue
<1>7. Delta(r)
  <2>1. \A c : ~ In(c, todo[r]) /\ ~ In(c, todo'[r])
    BY <1>1, Short
  <2>2. \A c : c # "active" => (Due(r, c)' <=> Due(r, c))
    BY <1>1, <1>2 DEF Due, MeteredDue, Rejected
  <2>3. ~ Due(r, "active")' /\ (Due(r, "active") <=> metered /\ kind[r] = "dns")
    BY <1>1, <1>2 DEF Due, MeteredDue
  <2>4. ASSUME NEW c \in Counters PROVE count'[c] = count[c] + Bit(r, c)' - Bit(r, c)
    <3>1. CASE c # "active"
      <4>1. Bit(r, c)' = Bit(r, c) /\ Bit(r, c) \in Int
        BY <2>1, <2>2, <3>1 DEF Bit, Has
      <4>2. count'[c] = count[c] /\ count[c] \in Int
        BY <1>1, <3>1 DEF Shapes
      <4>3. QED
        BY <4>1, <4>2
    <3>2. CASE c = "active"
      <4>1. Bit(r, c)' = 0 /\ Bit(r, c) = IF metered /\ kind[r] = "dns" THEN 1 ELSE 0
        BY <2>1, <2>3, <3>2 DEF Bit, Has
      <4>2. /\ count'[c] = IF metered /\ kind[r] = "dns" THEN count[c] - 1 ELSE count[c]
            /\ count[c] \in Int
        BY <1>1, <3>2 DEF Shapes
      <4>3. QED
        BY <4>1, <4>2
    <3>3. QED
      BY <3>1, <3>2
  <2>5. QED
    BY <2>4 DEF Delta
<1>8. Growing
  BY <1>1 DEF Growing, Shapes
<1>9. QED
  BY <1>1, <1>3, <1>4, <1>5, <1>6, <1>7, <1>8 DEF Good
-----------------------------------------------------------------------------
LEMMA InitInv == ASSUME Init PROVE Inv
<1>1. Shapes
  <2>1. todo \in [Requests -> Seq(Counters)] /\ sent \in [Requests -> Seq(Replies)]
    BY DEF Init
  <2>2. NoOutcome \in Outcomes
    BY DEF NoOutcome, Outcomes
  <2>3. QED
    BY <2>1, <2>2 DEF Init, Shapes, Kinds
<1>2. ASSUME NEW r \in Requests PROVE Flow(r) /\ Queue(r) /\ \A c \in Counters : ~ Has(r, c)
  <2>1. /\ pc[r] = "waiting" /\ todo[r] = <<>> /\ outcome[r] = NoOutcome /\ sent[r] = <<>>
        /\ question[r]
    BY DEF Init
  <2>2. \A c : ~ Due(r, c)
    BY <2>1 DEF Due, MeteredDue, NoOutcome
  <2>3. QED
    BY <2>1, <2>2, Short DEF Flow, Queue, Has, NoOutcome
<1>3. Books
  <2>1. \A c \in Counters : Holders(c) = {} /\ count[c] = 0
    BY <1>2 DEF Holders, Init
  <2>2. QED
    BY <2>1, FS_EmptySet DEF Books
<1>4. StatsInv
  BY Ranks DEF Init, StatsInv
<1>5. QED
  BY <1>1, <1>2, <1>3, <1>4 DEF Inv

LEMMA StepGood ==
  ASSUME Shapes, NEW r \in Requests, Flow(r), Queue(r), Arrive(r) \/ Reject(r) \/ Step(r)
  PROVE  Good(r)
BY ArriveGood, RejectGood, RecordGood, RouteGood, RefuseGood, AnswerGood, LeaveGood DEF Step

LEMMA TotalIsNat == ASSUME Books PROVE count["total"] \in Nat
<1>1. Holders("total") \in SUBSET Requests
  BY DEF Holders
<1>2. Cardinality(Holders("total")) \in Nat
  BY <1>1, FrontendAssumption, FS_Subset, FS_CardinalityType
<1>3. QED
  BY <1>2, Ranks DEF Books

LEMMA NextInv == ASSUME Inv, [Next]_vars PROVE Inv'
<1>i. Shapes /\ Books /\ StatsInv /\ \A r \in Requests : Flow(r) /\ Queue(r)
  BY DEF Inv
<1>1. ASSUME NEW r \in Requests, Arrive(r) \/ Reject(r) \/ Step(r) PROVE Inv'
  <2>1. Good(r)
    BY <1>i, <1>1, StepGood
  <2>2. Books'
    BY <1>i, <2>1, BooksKept DEF Good
  <2>3. \A q \in Requests : Flow(q)' /\ Queue(q)'
    <3>1. ASSUME NEW q \in Requests, q # r PROVE Flow(q)' /\ Queue(q)'
      BY <1>i, <2>1, <3>1, OthersKept DEF Good
    <3>2. QED
      BY <2>1, <3>1 DEF Good
  <2>4. StatsInv'
    <3>1. count["total"] \in Int /\ count'["total"] \in Int
      BY <1>i, <2>1, Ranks DEF Shapes, Good
    <3>2. count'["total"] >= count["total"]
      BY <2>1, Ranks DEF Good, Growing
    <3>3. QED
      BY <1>i, <2>1, <3>1, <3>2 DEF StatsInv, Good
  <2>5. QED
    BY <2>1, <2>2, <2>3, <2>4 DEF Inv, Good
<1>2. ASSUME \/ GetStats
             \/ \E c \in Metrics : Collect(c)
             \/ UNCHANGED vars
      PROVE  Inv'
  <2>1. UNCHANGED <<metered, count, pc, kind, question, todo, outcome, sent>>
    BY <1>2 DEF GetStats, Collect, vars
  <2>2. Shapes'
    BY <1>i, <2>1 DEF Shapes
  <2>3. ASSUME NEW r \in Requests
        PROVE  Flow(r)' /\ Queue(r)' /\ \A c : Has(r, c)' <=> Has(r, c)
    <3>1. \A c : Due(r, c)' <=> Due(r, c)
      BY <2>1, DueStays
    <3>2. Flow(r)'
      BY <1>i, <2>1 DEF Flow
    <3>3. QED
      BY <1>i, <2>1, <3>1, <3>2 DEF Queue, Has
  <2>4. Books'
    <3>1. \A c \in Counters : Holders(c)' = Holders(c)
      BY <2>3 DEF Holders
    <3>2. QED
      BY <1>i, <2>1, <3>1 DEF Books
  <2>5. StatsInv'
    BY <1>i, <1>2, <2>1, TotalIsNat DEF StatsInv, GetStats, Collect, vars
  <2>6. QED
    BY <2>2, <2>3, <2>4, <2>5 DEF Inv
<1>3. QED
  BY <1>1, <1>2 DEF Next

\* The inductive invariant holds, however many requests there are.
THEOREM InvHolds == Spec => []Inv
<1>1. Init => Inv
  BY InitInv
<1>2. Inv /\ [Next]_vars => Inv'
  BY NextInv
<1>3. QED
  BY <1>1, <1>2, PTL DEF Spec
-----------------------------------------------------------------------------
\* The sets that are compared are finite, and inclusion bounds their size.
LEMMA Inclusion ==
  ASSUME NEW S \in SUBSET Requests, NEW T \in SUBSET Requests, S \subseteq T
  PROVE  /\ Cardinality(S) \in Nat /\ Cardinality(T) \in Nat
         /\ Cardinality(S) <= Cardinality(T)
BY FrontendAssumption, FS_Subset, FS_CardinalityType

AtWork == {r \in Requests : pc[r] \notin {"waiting", "done"}}

\* What a reading still tells: it counted some requests H that have the metric
\* to this day, the gauge apart, and whoever else has it was at work since.
ScrapeInv ==
  /\ scrape \in [metric : Metrics, value : Nat, moving : SUBSET Requests]
  /\ AtWork \subseteq scrape.moving
  /\ \E H \in SUBSET Requests :
       /\ Cardinality(H) = scrape.value
       /\ Holders(scrape.metric) \subseteq H \cup scrape.moving
       /\ IF scrape.metric = "active" THEN H \subseteq scrape.moving
          ELSE H \subseteq Holders(scrape.metric)

\* Who has a metric: a step of r changes this for r alone, takes nothing but
\* the gauge from it, and gives it nothing if no counter moves.
LEMMA HoldersMove ==
  ASSUME Shapes, NEW r \in Requests, Good(r), NEW c \in Counters
  PROVE  /\ Holders(c)' \subseteq Holders(c) \cup {r}
         /\ c # "active" => Holders(c) \subseteq Holders(c)'
         /\ count' = count => Holders(c)' \subseteq Holders(c)
<1>1. ASSUME NEW q \in Requests, q # r PROVE Has(q, c)' <=> Has(q, c)
  BY <1>1, DueStays DEF Good, Apart, Has
<1>2. count'[c] = count[c] + Bit(r, c)' - Bit(r, c) /\ count[c] \in Int
  BY DEF Good, Delta, Shapes
<1>3. c # "active" => (Has(r, c) => Has(r, c)')
  BY <1>2 DEF Good, Growing, Bit
<1>4. count' = count => (Has(r, c)' => Has(r, c))
  BY <1>2 DEF Bit
<1>5. QED
  BY <1>1, <1>3, <1>4 DEF Holders

\* A reading is true of the state in which it is made.
LEMMA CollectGood ==
  ASSUME Inv, NEW c \in Metrics, Collect(c)
  PROVE  ScrapeInv'
<1>1. /\ UNCHANGED <<metered, count, pc, kind, question, todo, outcome, sent, stats>>
      /\ scrape' = [metric |-> c, value |-> count[c], moving |-> AtWork]
  BY DEF Collect, AtWork
<1>2. AtWork' = AtWork /\ AtWork \in SUBSET Requests
  BY <1>1 DEF AtWork
<1>3. c \in Counters
  BY DEF Metrics
<1>4. Holders(c)' = Holders(c) /\ Holders(c) \in SUBSET Requests
  <2>1. ASSUME NEW r \in Requests PROVE Has(r, c)' <=> Has(r, c)
    BY <1>1, DueStays DEF Has
  <2>2. QED
    BY <2>1 DEF Holders
<1>5. count[c] = Cardinality(Holders(c)) /\ count[c] \in Nat
  <2>1. count[c] = Cardinality(Holders(c))
    BY <1>3 DEF Inv, Books
  <2>2. QED
    BY <1>4, <2>1, Inclusion
<1>6. c = "active" => Holders(c) \subseteq AtWork
  BY DEF Holders, Has, Due, MeteredDue, AtWork
<1>7. scrape' \in [metric : Metrics, value : Nat, moving : SUBSET Requests]
  BY <1>1, <1>2, <1>5
<1>8. scrape'.metric = c /\ scrape'.value = count[c] /\ scrape'.moving = AtWork
  BY <1>1
<1>9. Holders(scrape.metric)' = Holders(c)'
  BY <1>8 DEF Holders, Has, Due, MeteredDue
<1>10. QED
  BY <1>2, <1>4, <1>5, <1>6, <1>7, <1>8, <1>9 DEF ScrapeInv

\* A step of a request's handler leaves a reading as true as it was.
LEMMA HandlerKeepsScrape ==
  ASSUME Inv, ScrapeInv, NEW r \in Requests, Arrive(r) \/ Reject(r) \/ Step(r)
  PROVE  ScrapeInv'
<1> DEFINE m == scrape.metric
<1>0. Shapes /\ Flow(r) /\ Queue(r)
  BY DEF Inv
<1>1. Good(r)
  BY <1>0, StepGood
<1>2. /\ m \in Counters /\ scrape.value \in Nat /\ scrape.moving \in SUBSET Requests
      /\ scrape \in [metric : Metrics, value : Nat, moving : SUBSET Requests]
  BY DEF ScrapeInv, Metrics
<1>3. /\ scrape' \in [metric : Metrics, value : Nat, moving : SUBSET Requests]
      /\ scrape'.metric = m /\ scrape'.value = scrape.value
      /\ scrape.moving \subseteq scrape'.moving
      /\ r \in scrape'.moving \/ count' = count
  <2>1. CASE Arrive(r)
    <3>1. scrape' = [scrape EXCEPT !.moving = scrape.moving \cup {r}]
      BY <2>1 DEF Arrive
    <3>2. QED
      BY <1>2, <3>1
  <2>2. CASE Reject(r)
    BY <1>2, <2>2 DEF Reject
  <2>3. CASE Step(r)
    <3>1. scrape' = scrape
      BY <2>3 DEF Step, Record, Route, Refuse, Answer, Leave
    <3>2. r \in AtWork
      BY <1>0, <2>3 DEF Step, Record, Route, Refuse, Answer, Leave, Ready, Flow, AtWork
    <3>3. QED
      BY <1>2, <3>1, <3>2 DEF ScrapeInv
  <2>4. QED
    BY <2>1, <2>2, <2>3
<1>4. AtWork' \subseteq scrape'.moving
  <2>1. \A q \in Requests \ {r} : pc'[q] = pc[q]
    BY <1>1 DEF Good, Apart
  <2>2. AtWork' \subseteq AtWork \cup {r}
    BY <2>1 DEF AtWork
  <2>3. CASE Reject(r)
    <3>1. pc'[r] = "done"
      BY <1>0, <2>3 DEF Reject, Goto, Shapes
    <3>2. r \notin AtWork'
      BY <3>1 DEF AtWork
    <3>3. QED
      BY <1>3, <2>2, <3>2 DEF ScrapeInv
  <2>4. CASE Arrive(r)
    <3>1. r \in scrape'.moving
      BY <1>2, <2>4 DEF Arrive
    <3>2. QED
      BY <1>3, <2>2, <3>1 DEF ScrapeInv
  <2>5. CASE Step(r)
    <3>1. r \in AtWork
      BY <1>0, <2>5 DEF Step, Record, Route, Refuse, Answer, Leave, Ready, Flow, AtWork
    <3>2. QED
      BY <1>3, <2>2, <3>1 DEF ScrapeInv
  <2>6. QED
    BY <2>3, <2>4, <2>5
<1>5. PICK H \in SUBSET Requests :
        /\ Cardinality(H) = scrape.value
        /\ Holders(m) \subseteq H \cup scrape.moving
        /\ IF m = "active" THEN H \subseteq scrape.moving ELSE H \subseteq Holders(m)
  BY DEF ScrapeInv
<1>6. /\ Holders(m)' \subseteq Holders(m) \cup {r}
      /\ m # "active" => Holders(m) \subseteq Holders(m)'
      /\ count' = count => Holders(m)' \subseteq Holders(m)
  <2>1. PICK c \in Counters : c = m
    BY <1>2
  <2>2. /\ Holders(c)' \subseteq Holders(c) \cup {r}
        /\ c # "active" => Holders(c) \subseteq Holders(c)'
        /\ count' = count => Holders(c)' \subseteq Holders(c)
    BY <1>0, <1>1, HoldersMove
  <2>3. Holders(m) = Holders(c) /\ Holders(m)' = Holders(c)'
    BY <1>3, <2>1 DEF Holders, Has, Due, MeteredDue
  <2>4. QED
    BY <2>1, <2>2, <2>3
<1>7. QED
  BY <1>3, <1>4, <1>5, <1>6 DEF ScrapeInv

\* What a reading tells of every later state, for any number of handlers.
THEOREM ScrapeHolds == Spec => []ScrapeInv
<1>1. ASSUME Init PROVE ScrapeInv
  <2>1. AtWork = {} /\ Holders("requests") = {}
    <3>1. \A r \in Requests : pc[r] = "waiting"
      BY <1>1 DEF Init
    <3>2. QED
      BY <3>1 DEF AtWork, Holders, Has, Due, MeteredDue
  <2>2. /\ scrape = [metric |-> "requests", value |-> 0, moving |-> {}]
        /\ "requests" \in Metrics
    BY <1>1, Ranks DEF Init, Metrics
  <2>3. scrape.metric = "requests" /\ scrape.value = 0 /\ scrape.moving = {}
    BY <2>2
  <2>4. Cardinality({}) = 0
    BY FS_EmptySet
  <2>5. QED
    BY <2>1, <2>2, <2>3, <2>4 DEF ScrapeInv
<1>2. Inv /\ ScrapeInv /\ [Next]_vars => ScrapeInv'
  <2> SUFFICES ASSUME Inv, ScrapeInv, [Next]_vars PROVE ScrapeInv'
    OBVIOUS
  <2>1. ASSUME GetStats \/ UNCHANGED vars PROVE ScrapeInv'
    <3>1. UNCHANGED <<metered, count, pc, kind, question, todo, outcome, sent, scrape>>
      BY <2>1 DEF GetStats, vars
    <3>2. Holders(scrape.metric)' = Holders(scrape.metric) /\ AtWork' = AtWork
      BY <3>1 DEF Holders, Has, Due, MeteredDue, Rejected, AtWork
    <3>3. QED
      BY <3>1, <3>2 DEF ScrapeInv
  <2>2. QED
    BY <2>1, CollectGood, HandlerKeepsScrape DEF Next
<1>3. QED
  BY <1>1, <1>2, InvHolds, PTL DEF Spec
-----------------------------------------------------------------------------
\* One reply a request, and no counter is below zero, not even the gauge.
THEOREM TypeCorrect == Spec => []TypeOK
<1>1. ASSUME Inv, ScrapeInv PROVE TypeOK
  <2>1. \A c \in Counters : count[c] \in Nat
    <3>1. \A c \in Counters : Holders(c) \in SUBSET Requests
      BY DEF Holders
    <3>2. QED
      BY <1>1, <3>1, Inclusion DEF Inv, Books
  <2>2. \A r \in Requests : Len(sent[r]) <= 1
    <3>1. ASSUME NEW r \in Requests PROVE Len(sent[r]) <= 1
      <4>1. pc[r] \in {"waiting", "route", "answer", "refuse", "leave", "done"}
        BY <1>1 DEF Inv, Shapes
      <4>2. sent[r] = <<>> \/ \E x : sent[r] = <<x>>
        BY <1>1, <4>1 DEF Inv, Flow
      <4>3. Len(<<>>) = 0 /\ \A x : Len(<<x>>) = 1
        OBVIOUS
      <4>4. QED
        BY <4>2, <4>3, 0 <= 1, 1 <= 1
    <3>2. QED
      BY <3>1
  <2>3. count \in [Counters -> Nat]
    BY <1>1, <2>1 DEF Inv, Shapes
  <2>4. QED
    BY <1>1, <2>2, <2>3 DEF Inv, Shapes, StatsInv, ScrapeInv, TypeOK
<1>2. QED
  BY <1>1, InvHolds, ScrapeHolds, PTL

\* A finished request had one reply, of the sort its outcome calls for
\* (dns/server.go:156-236, grpc/server.go:316-381).
THEOREM ReplyTheorem == Spec => []ReplyFitsOutcome
<1>1. Inv => ReplyFitsOutcome
  <2>1. ASSUME Inv, NEW r \in Requests, pc[r] = "done"
        PROVE  \/ sent[r] = <<"answer">> /\ outcome[r].ok
               \/ sent[r] = <<"lost">> /\ outcome[r].ok /\ kind[r] = "dns"
               \/ sent[r] = <<"SERVFAIL">> /\ ~ outcome[r].ok
               \/ sent[r] = <<"error">> /\ kind[r] # "dns"
    BY <2>1 DEF Inv, Flow
  <2>2. \A x : Len(<<x>>) = 1 /\ <<x>>[1] = x
    OBVIOUS
  <2>3. QED
    BY <2>1, <2>2 DEF ReplyFitsOutcome
<1>2. QED
  BY <1>1, InvHolds, PTL

\* Handlers increment a whole before its part, so whoever has the part has the
\* whole (dns/server.go:145-183, grpc/server.go:184-190).
LEMMA PartsAreIncluded ==
  ASSUME Inv, NEW pair \in PartAndWhole
  PROVE  /\ pair[1] \in Counters /\ pair[2] \in Counters
         /\ Holders(pair[1]) \subseteq Holders(pair[2])
<1>1. Holders("cname") \subseteq Holders("pattern")
  <2>1. ASSUME NEW r \in Requests, Has(r, "cname") PROVE Has(r, "pattern")
    <3>1. metered /\ kind[r] # "coredns" /\ outcome[r].cname /\ ~ In("cname", todo[r])
      BY <2>1 DEF Has, Due, MeteredDue
    <3>2. outcome[r].request
      BY <3>1, OutcomeBits DEF Inv, Shapes
    <3>3. ~ In("pattern", todo[r])
      BY <3>1 DEF Inv, Queue
    <3>4. QED
      BY <3>1, <3>2, <3>3 DEF Has, Due, MeteredDue
  <2>2. QED
    BY <2>1 DEF Holders
<1>2. Holders("pattern") \subseteq Holders("resolverUsed")
  <2>1. ASSUME NEW r \in Requests, Has(r, "pattern") PROVE Has(r, "resolverUsed")
    <3>1. metered /\ kind[r] # "coredns" /\ outcome[r].request /\ ~ In("pattern", todo[r])
      BY <2>1 DEF Has, Due, MeteredDue
    <3>2. outcome[r].ok
      BY <3>1, OutcomeBits DEF Inv, Shapes
    <3>3. ~ In("resolverUsed", todo[r])
      BY <3>1 DEF Inv, Queue
    <3>4. QED
      BY <3>1, <3>2, <3>3 DEF Has, Due, MeteredDue
  <2>2. QED
    BY <2>1 DEF Holders
<1>3. Holders("duration") \subseteq Holders("requests")
  <2>1. ASSUME NEW r \in Requests, Has(r, "duration") PROVE Has(r, "requests")
    <3>1. metered /\ kind[r] = "dns" /\ outcome[r].ok
      BY <2>1 DEF Has, Due, MeteredDue
    <3>2. question[r] /\ pc[r] \notin {"waiting", "route"}
      BY <3>1 DEF Inv, Flow, NoOutcome
    <3>3. ~ In("requests", todo[r])
      BY <3>2, Ranks DEF Inv, Queue, Entry
    <3>4. QED
      BY <3>1, <3>2, <3>3 DEF Has, Due, MeteredDue
  <2>2. QED
    BY <2>1 DEF Holders
<1>4. QED
  BY <1>1, <1>2, <1>3, Ranks DEF PartAndWhole

\* A scrape that reads a part before its whole does not see it exceed it, one
\* that reads the whole first does so by no more than the handlers at work
\* during the scrape, and the gauge counts only these.
THEOREM ScrapeTheorem == Spec => []ScrapesAreConsistent
<1>1. ASSUME Inv, ScrapeInv PROVE ScrapesAreConsistent
  <2> DEFINE m == scrape.metric
  <2>1. PICK H \in SUBSET Requests :
          /\ Cardinality(H) = scrape.value
          /\ Holders(m) \subseteq H \cup scrape.moving
          /\ IF m = "active" THEN H \subseteq scrape.moving ELSE H \subseteq Holders(m)
    BY <1>1 DEF ScrapeInv
  <2>2. scrape.moving \in SUBSET Requests
    BY <1>1 DEF ScrapeInv
  <2>3. \A c \in Counters : count[c] = Cardinality(Holders(c)) /\ Holders(c) \in SUBSET Requests
    BY <1>1 DEF Inv, Books, Holders
  <2>4. ASSUME NEW pair \in PartAndWhole
        PROVE  /\ m = pair[1] => scrape.value <= count[pair[2]]
               /\ m = pair[2] => count[pair[1]] <= scrape.value + Cardinality(scrape.moving)
    <3> DEFINE part == Holders(pair[1])   whole == Holders(pair[2])
    <3>1. /\ part \in SUBSET Requests /\ whole \in SUBSET Requests /\ part \subseteq whole
          /\ count[pair[1]] = Cardinality(part) /\ count[pair[2]] = Cardinality(whole)
      BY <1>1, <2>3, PartsAreIncluded
    <3>2. pair[1] # "active" /\ pair[2] # "active"
      BY DEF PartAndWhole
    <3>3. ASSUME m = pair[1] PROVE scrape.value <= count[pair[2]]
      <4>1. H \subseteq part
        BY <2>1, <3>2, <3>3
      <4>2. H \subseteq whole
        BY <3>1, <4>1
      <4>3. Cardinality(H) <= Cardinality(whole)
        BY <3>1, <4>2, Inclusion
      <4>4. QED
        BY <2>1, <3>1, <4>3
    <3>4. ASSUME m = pair[2]
          PROVE  count[pair[1]] <= scrape.value + Cardinality(scrape.moving)
      <4>1. part \subseteq H \cup scrape.moving
        BY <2>1, <3>1, <3>4
      <4>2. /\ IsFiniteSet(H) /\ IsFiniteSet(scrape.moving)
            /\ H \cup scrape.moving \in SUBSET Requests /\ H \cap scrape.moving \in SUBSET Requests
        BY <2>2, FrontendAssumption, FS_Subset
      <4>3. Cardinality(H \cup scrape.moving)
              = Cardinality(H) + Cardinality(scrape.moving) - Cardinality(H \cap scrape.moving)
        BY <4>2, FS_Union
      <4>4. /\ Cardinality(part) \in Nat /\ Cardinality(H) \in Nat
            /\ Cardinality(scrape.moving) \in Nat /\ Cardinality(H \cap scrape.moving) \in Nat
            /\ Cardinality(part) <= Cardinality(H \cup scrape.moving)
        BY <2>2, <3>1, <4>1, <4>2, Inclusion
      <4>5. QED
        BY <2>1, <3>1, <4>3, <4>4
    <3>5. QED
      BY <3>3, <3>4
  <2>5. m = "active" => scrape.value <= Cardinality(scrape.moving)
    BY <2>1, <2>2, Inclusion
  <2>6. QED
    BY <2>4, <2>5 DEF ScrapesAreConsistent
<1>2. QED
  BY <1>1, InvHolds, ScrapeHolds, PTL

\* When no handler is at work the gauge is back at zero, the response codes fall
\* short of the requests by the failed Resolves and all Queries, and errors and
\* resolvers are booked of DNS requests and Resolves, once each, of no Query.
THEOREM BalanceTheorem == Spec => []BooksBalance
<1>1. ASSUME Inv, Quiet, metered
      PROVE  /\ Holders("active") = {}
             /\ Holders("requests") = Holders("codes") \cup
                  {r \in Requests : pc[r] = "done" /\ Uncoded(r)}
             /\ Holders("codes") \cap {r \in Requests : pc[r] = "done" /\ Uncoded(r)} = {}
             /\ Holders("errors") = {r \in Requests : pc[r] = "done" /\
                                      (\/ kind[r] # "coredns" /\ ~ outcome[r].ok
                                       \/ sent[r] = <<"lost">>)}
             /\ Holders("resolverUsed") = {r \in Requests : pc[r] = "done" /\
                                             (kind[r] # "coredns" /\ outcome[r].ok)}
  <2>1. ASSUME NEW r \in Requests
        PROVE  /\ pc[r] \in {"waiting", "done"} /\ \A c : ~ In(c, todo[r])
               /\ pc[r] = "waiting" => ~ outcome[r].ok /\ sent[r] # <<"lost">>
               /\ kind[r] \in {"dns", "grpc", "coredns"}
               /\ kind[r] # "coredns" => question[r]
    <3>1. todo[r] = <<>> /\ pc[r] \in {"waiting", "done"}
      BY <1>1 DEF Quiet, Inv, Flow
    <3>2. QED
      <4>1. \A c : ~ In(c, todo[r])
        BY <3>1, Short
      <4>2. pc[r] = "waiting" => outcome[r] = NoOutcome /\ sent[r] = <<>>
        BY <1>1 DEF Inv, Flow
      <4>3. kind[r] \in {"dns", "grpc", "coredns"}
        BY <1>1 DEF Inv, Shapes, Kinds
      <4>4. pc[r] = "waiting" => ~ outcome[r].ok /\ sent[r] # <<"lost">>
        BY <4>2 DEF NoOutcome
      <4>5. kind[r] # "coredns" => question[r]
        BY <1>1 DEF Inv, Flow
      <4>6. QED
        BY <3>1, <4>1, <4>3, <4>4, <4>5
  <2>2. \A c : Holders(c) = {r \in Requests : Due(r, c)}
    BY <2>1 DEF Holders, Has
  <2>3. \A r \in Requests : ~ Due(r, "active")
    BY <2>1 DEF Due, MeteredDue
  <2>4. \A r \in Requests : Due(r, "codes") <=>
          pc[r] = "done" /\ (kind[r] = "dns" \/ (kind[r] = "grpc" /\ outcome[r].ok))
    BY <1>1, <2>1 DEF Due, MeteredDue
  <2>5. \A r \in Requests : Due(r, "errors") <=>
          pc[r] = "done" /\ ((kind[r] # "coredns" /\ ~ outcome[r].ok) \/ sent[r] = <<"lost">>)
    BY <1>1, <2>1 DEF Due, MeteredDue
  <2>6. \A r \in Requests : Due(r, "resolverUsed") <=>
          pc[r] = "done" /\ (kind[r] # "coredns" /\ outcome[r].ok)
    BY <1>1, <2>1 DEF Due, MeteredDue
  <2>7. \A r \in Requests : Due(r, "requests") <=> pc[r] = "done" /\ question[r]
    BY <1>1, <2>1 DEF Due, MeteredDue
  <2>8. \A r \in Requests : pc[r] = "done" /\ question[r] <=>
          \/ Due(r, "codes")
          \/ pc[r] = "done" /\ Uncoded(r)
    BY <2>1, <2>4 DEF Uncoded
  <2>9. \A r \in Requests : ~ (Due(r, "codes") /\ Uncoded(r))
    BY <2>4 DEF Uncoded
  <2>10. QED
    BY <2>2, <2>3, <2>5, <2>6, <2>7, <2>8, <2>9
<1>2. ASSUME Inv, Quiet, metered
      PROVE  count["requests"] = count["codes"] +
               Cardinality({r \in Requests : pc[r] = "done" /\ Uncoded(r)})
  <2> DEFINE S == Holders("codes")
             U == {r \in Requests : pc[r] = "done" /\ Uncoded(r)}
  <2>1. count["requests"] = Cardinality(Holders("requests")) /\ count["codes"] = Cardinality(S)
    BY <1>2, Ranks DEF Inv, Books
  <2>2. Holders("requests") = S \cup U /\ S \cap U = {}
    BY <1>1, <1>2
  <2>3. S \in SUBSET Requests /\ U \in SUBSET Requests
    BY DEF Holders
  <2>4. IsFiniteSet(S) /\ IsFiniteSet(U)
    BY <2>3, FrontendAssumption, FS_Subset
  <2>5. Cardinality(S) \in Nat /\ Cardinality(U) \in Nat /\ Cardinality({}) = 0
    BY <2>4, FS_CardinalityType, FS_EmptySet
  <2>6. Cardinality(S \cup U) = Cardinality(S) + Cardinality(U) - Cardinality(S \cap U)
    BY <2>4, FS_Union
  <2> HIDE DEF S, U
  <2>7. Cardinality(S \cup U) = Cardinality(S) + Cardinality(U)
    <3>1. Cardinality(S \cap U) = 0
      BY <2>2, <2>5, Zenon
    <3>2. QED
      BY <2>5, <2>6, <3>1
  <2>8. count["requests"] = count["codes"] + Cardinality(U)
    BY <2>1, <2>2, <2>7
  <2>9. QED
    BY <2>8 DEF U
<1>3. Inv => BooksBalance
  <2>1. ASSUME Inv PROVE \A c \in Counters : count[c] = Cardinality(Holders(c))
    BY <2>1 DEF Inv, Books
  <2>2. QED
    BY <1>1, <1>2, <2>1, Ranks, FS_EmptySet DEF BooksBalance, Number
<1>4. QED
  BY <1>3, InvHolds, PTL

\* What GetStats reports never goes back, and lies between the gRPC calls that
\* have been answered and those that have come in; DNS requests are not in it
\* (grpc/server.go:117, 266, 291).
THEOREM StatsTheorem == Spec => StatsCountGrpcCalls
<1>1. ASSUME Inv, GetStats
      PROVE  /\ stats' >= stats
             /\ stats' >= Cardinality({r \in Requests : kind[r] # "dns"
                                   /\ (sent[r] # <<>> /\ ~ Rejected(r))})
             /\ stats' <= Cardinality({r \in Requests : kind[r] # "dns"
                                   /\ (pc[r] # "waiting" /\ ~ Rejected(r))})
  <2>1. stats' = Cardinality(Holders("total")) /\ Holders("total") \in SUBSET Requests
    BY <1>1, Ranks DEF Inv, Books, GetStats, Holders
  <2>2. {r \in Requests : kind[r] # "dns" /\ (sent[r] # <<>> /\ ~ Rejected(r))}
            \subseteq Holders("total")
    <3>1. ASSUME NEW r \in Requests, kind[r] # "dns", sent[r] # <<>>, ~ Rejected(r)
          PROVE  Has(r, "total")
      <4>1. pc[r] \in {"leave", "done"}
        BY <1>1, <3>1 DEF Inv, Flow, Shapes
      <4>2. ~ In("total", todo[r])
        BY <1>1, <4>1, Ranks DEF Inv, Queue, Entry
      <4>3. QED
        BY <3>1, <4>1, <4>2 DEF Has, Due
    <3>2. QED
      BY <3>1 DEF Holders
  <2>3. Holders("total") \subseteq
            {r \in Requests : kind[r] # "dns" /\ (pc[r] # "waiting" /\ ~ Rejected(r))}
    BY DEF Holders, Has, Due, MeteredDue
  <2>4. stats' >= stats
    BY <1>1 DEF Inv, StatsInv, GetStats
  <2>5. QED
    BY <2>1, <2>2, <2>3, <2>4, Inclusion
<1>2. Inv /\ [Next]_vars =>
        [GetStats =>
           /\ stats' >= stats
           /\ stats' >= Grpc(LAMBDA r : sent[r] # <<>> /\ ~ Rejected(r))
           /\ stats' <= Grpc(LAMBDA r : pc[r] # "waiting" /\ ~ Rejected(r))]_vars
  BY <1>1 DEF Grpc
<1>3. QED
  BY <1>2, InvHolds, PTL DEF Spec, StatsCountGrpcCalls
=============================================================================
