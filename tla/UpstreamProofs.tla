---------------------------- MODULE UpstreamProofs ----------------------------
(***************************************************************************)
(* Proofs about Upstream for any hosts, lists of servers, timeouts and     *)
(* deadline: that a call keeps to its deadline, that each answer comes     *)
(* from the first server that can give one, that a call fails only for     *)
(* want of a good server or of time, and how long it takes at most.  The   *)
(* second rests on timing: a server that answers is passed over only when  *)
(* the deadline has come (Passed, TimeInv), because it is quicker than the *)
(* client's timeout.  The third keeps an account of the time that the      *)
(* servers tried have cost (SpentInv); the sums in it are over lists of    *)
(* any length, and are reasoned about by induction on their length         *)
(* (NatInduct, SumStep).  The last counts the servers tried (CostInv).     *)
(***************************************************************************)
EXTENDS Upstream, WellFoundedInduction, TLAPS

\* No server before the one that is tried can answer.
Passed == \A i \in 1 .. next - 1 : i \notin Live(plan[stage])

WaitInv ==
  pc = "wait" =>
    /\ next <= Len(plan[stage]) /\ Dials(Address)
    /\ began <= now /\ now <= began + Try
    /\ health[Address.host] # "silent" => now <= began + Latency
    /\ bounded => began < Budget
    /\ Passed

TimeInv ==
  /\ bounded => now <= Budget
  /\ pc = "ask" => Passed \/ Expired

CountInv ==
  /\ Len(by) = IF pc = "answered" THEN stage ELSE stage - 1
  /\ AnswerFromFirstLive

\* The inductive invariant.
Inv == TypeOK /\ WaitInv /\ TimeInv /\ CountInv

\* The time that the call has taken, if each of its resolvers has a server
\* that answers: no more than the resolvers before this one and the servers
\* before the one that is tried need, unless the deadline has come.
AllLive == \A k \in 1 .. Len(plan) : Live(plan[k]) # {}

StageCosts == [k \in 1 .. Len(plan) |-> TimeToAnswer(plan[k])]

SpentBefore(n) == SumTo(StageCosts, stage - 1) + SumTo(Costs(plan[stage]), n - 1)

SpentInv ==
  AllLive =>
    /\ pc = "ask" => \/ Passed /\ now <= SpentBefore(next)
                     \/ Expired /\ now <= SumTo(StageCosts, stage)
    /\ pc = "wait" => began <= SpentBefore(next)
    /\ FailureIsDeserved
-----------------------------------------------------------------------------
\* Induction on the natural numbers, for a set: a least number outside it
\* would be neither 0 nor a successor.
LEMMA NatInduct ==
  ASSUME NEW S, 0 \in S, \A n \in Nat : n \in S => n + 1 \in S
  PROVE  Nat \subseteq S
<1> DEFINE R == OpToRel(<, Nat)
           T == Nat \ S
<1>1. IsWellFoundedOn(R, Nat)
  BY NatLessThanWellFounded
<1>2. SUFFICES ASSUME T # {} PROVE FALSE
  OBVIOUS
<1>3. T \subseteq Nat
  OBVIOUS
<1> HIDE DEF R
<1>4. PICK x \in T : \A y \in T : ~ (<<y, x>> \in R)
  BY <1>1, <1>2, <1>3, WFMin
<1>5. x \in Nat /\ x # 0 /\ x - 1 \in Nat /\ x - 1 + 1 = x
  BY <1>4
<1>6. x - 1 \in T
  BY <1>4, <1>5
<1>7. <<x - 1, x>> \in R
  BY <1>5 DEF R, OpToRel
<1>8. QED
  BY <1>4, <1>6, <1>7

\* There is a function that satisfies SumTo's recursion.
LEMMA SumExists ==
  ASSUME NEW s \in Seq(Nat)
  PROVE  \E g \in [0 .. Len(s) -> Nat] :
           g = [i \in 0 .. Len(s) |-> IF i = 0 THEN 0 ELSE g[i - 1] + s[i]]
<1> DEFINE Sums(n) == {g \in [0 .. n -> Nat] :
                        /\ g[0] = 0
                        /\ \A i \in 1 .. n : g[i] = g[i - 1] + s[i]}
           S == {n \in Nat : n <= Len(s) => Sums(n) # {}}
<1>1. 0 \in S
  <2>1. [i \in 0 .. 0 |-> 0] \in Sums(0)
    OBVIOUS
  <2>2. QED
    BY <2>1
<1>2. ASSUME NEW n \in Nat, n \in S PROVE n + 1 \in S
  <2> HIDE DEF Sums
  <2>1. SUFFICES ASSUME n + 1 <= Len(s) PROVE Sums(n + 1) # {}
    OBVIOUS
  <2>2. PICK g : g \in Sums(n)
    BY <1>2, <2>1
  <2> USE DEF Sums
  <2> DEFINE h == [i \in 0 .. n + 1 |-> IF i = n + 1 THEN g[n] + s[n + 1] ELSE g[i]]
  <2>3. s[n + 1] \in Nat /\ g[n] \in Nat /\ \A i \in 0 .. n : g[i] \in Nat
    BY <2>1, <2>2
  <2>4. h \in [0 .. n + 1 -> Nat] /\ h[0] = 0 /\ h[n + 1] = g[n] + s[n + 1]
    BY <2>2, <2>3
  <2>5. ASSUME NEW i \in 1 .. n + 1 PROVE h[i] = h[i - 1] + s[i]
    <3>1. CASE i = n + 1
      BY <2>4, <3>1
    <3>2. CASE i # n + 1
      <4>1. i \in 1 .. n /\ i - 1 \in 0 .. n /\ i - 1 # n + 1
        BY <3>2
      <4>2. QED
        BY <2>2, <4>1, <3>2
    <3>3. QED
      BY <3>1, <3>2
  <2>6. h \in Sums(n + 1)
    BY <2>4, <2>5
  <2> HIDE DEF Sums
  <2>7. QED
    BY <2>6
<1>3. Len(s) \in S
  <2> HIDE DEF S
  <2>1. Nat \subseteq S
    BY <1>1, <1>2, NatInduct
  <2>2. QED
    BY <2>1
<1> HIDE DEF Sums
<1>4. PICK g : g \in Sums(Len(s))
  BY <1>3
<1> USE DEF Sums
<1>5. g = [i \in 0 .. Len(s) |-> IF i = 0 THEN 0 ELSE g[i - 1] + s[i]]
  BY <1>4
<1>6. QED
  BY <1>4, <1>5

\* What SumTo computes: one more summand at a time, so that sums of fewer
\* numbers are no larger.
LEMMA SumStep ==
  ASSUME NEW s \in Seq(Nat)
  PROVE  /\ SumTo(s, 0) = 0
         /\ \A n \in 0 .. Len(s) : SumTo(s, n) \in Nat
         /\ \A n \in 1 .. Len(s) : SumTo(s, n) = SumTo(s, n - 1) + s[n]
<1> DEFINE sum == CHOOSE g : g = [i \in 0 .. Len(s) |-> IF i = 0 THEN 0 ELSE g[i - 1] + s[i]]
<1>1. \A n : SumTo(s, n) = sum[n]
  BY DEF SumTo
<1>2. sum = [i \in 0 .. Len(s) |-> IF i = 0 THEN 0 ELSE sum[i - 1] + s[i]]
  BY SumExists
<1> HIDE DEF sum
<1>3. sum[0] = 0 /\ \A n \in 1 .. Len(s) : sum[n] = sum[n - 1] + s[n]
  BY <1>2
<1>4. \A n \in 0 .. Len(s) : sum[n] \in Nat
  <2> DEFINE S == {n \in Nat : n <= Len(s) => sum[n] \in Nat}
  <2>1. 0 \in S
    BY <1>3
  <2>2. ASSUME NEW n \in Nat, n \in S PROVE n + 1 \in S
    <3>1. SUFFICES ASSUME n + 1 <= Len(s) PROVE sum[n + 1] \in Nat
      OBVIOUS
    <3>2. n + 1 \in 1 .. Len(s) /\ n + 1 - 1 = n /\ sum[n] \in Nat /\ s[n + 1] \in Nat
      BY <2>2, <3>1
    <3>3. QED
      BY <1>3, <3>2
  <2>3. Nat \subseteq S
    <3> HIDE DEF S
    <3>1. QED
      BY <2>1, <2>2, NatInduct
  <2>4. QED
    BY <2>3
<1>5. QED
  BY <1>1, <1>3, <1>4

LEMMA SumGrows ==
  ASSUME NEW s \in Seq(Nat), NEW m \in 0 .. Len(s), NEW n \in m .. Len(s)
  PROVE  SumTo(s, m) <= SumTo(s, n)
<1> DEFINE S == {k \in Nat : m + k <= Len(s) => SumTo(s, m) <= SumTo(s, m + k)}
<1>1. 0 \in S
  BY SumStep
<1>2. ASSUME NEW k \in Nat, k \in S PROVE k + 1 \in S
  <2>1. SUFFICES ASSUME m + (k + 1) <= Len(s)
                 PROVE  SumTo(s, m) <= SumTo(s, m + (k + 1))
    OBVIOUS
  <2>2. m + (k + 1) \in 1 .. Len(s) /\ m + (k + 1) - 1 = m + k /\ m + k \in 0 .. Len(s)
    BY <2>1
  <2>3. SumTo(s, m + (k + 1)) = SumTo(s, m + k) + s[m + (k + 1)]
    BY <2>2, SumStep
  <2>4. s[m + (k + 1)] \in Nat /\ SumTo(s, m + k) \in Nat /\ SumTo(s, m) \in Nat
    BY <2>2, SumStep
  <2>5. QED
    BY <1>2, <2>1, <2>3, <2>4
<1>3. n - m \in S
  <2> HIDE DEF S
  <2>1. Nat \subseteq S
    BY <1>1, <1>2, NatInduct
  <2>2. QED
    BY <2>1
<1>4. QED
  BY <1>3

\* What a resolver is: a sequence of addresses; and what a call asks.
LEMMA ResolverShape ==
  /\ \A list \in SystemResolvers : list \in Seq(Addresses)
  /\ \A list \in DNSResolvers : list \in Seq(Addresses)
<1>1. \A a \in Addresses : WithPort(a) \in Addresses
  BY DEF WithPort, Addresses
<1>2. ASSUME NEW conf \in Seq(Addresses) PROVE NewSystemResolver(conf) \in Seq(Addresses)
  <2>1. \A i \in DOMAIN conf : WithPort(conf[i]) \in Addresses
    BY <1>1
  <2>2. [i \in DOMAIN conf |-> WithPort(conf[i])] \in Seq(Addresses)
    BY <2>1
  <2>3. QED
    BY <2>2, UpstreamAssumption DEF NewSystemResolver
<1>3. ASSUME NEW a \in Addresses PROVE NewDNSResolver(a) \in Seq(Addresses)
  BY <1>1 DEF NewDNSResolver
<1>4. QED
  BY <1>2, <1>3, UpstreamAssumption DEF SystemResolvers, DNSResolvers

LEMMA PlanShape ==
  ASSUME NEW p \in Plans
  PROVE  /\ Len(p) \in {1, 2} /\ DOMAIN p = 1 .. Len(p)
         /\ \A k \in 1 .. Len(p) : /\ p[k] \in Seq(Addresses) /\ Len(p[k]) \in Nat
                                   /\ DOMAIN p[k] = 1 .. Len(p[k])
<1>1. CASE \E f \in SystemResolvers \cup DNSResolvers : p = <<f>>
  BY <1>1, ResolverShape
<1>2. CASE \E x \in DNSResolvers, f \in SystemResolvers \cup DNSResolvers : p = <<x, f>>
  BY <1>2, ResolverShape
<1>3. QED
  BY <1>1, <1>2 DEF Plans

\* The first server that can answer is the least.
LEMMA FirstIsMin ==
  ASSUME NEW S \in SUBSET Nat, NEW n \in S, \A i \in 1 .. n - 1 : i \notin S,
         \A i \in S : i >= 1
  PROVE  Min(S) = n
<1>1. \A i \in S : n <= i
  OBVIOUS
<1>2. \A m \in S : (\A i \in S : m <= i) => m = n
  BY <1>1
<1>3. QED
  BY <1>1, <1>2 DEF Min

LEMMA MinIsLeast ==
  ASSUME NEW S \in SUBSET Nat, S # {}
  PROVE  Min(S) \in S /\ \A i \in S : Min(S) <= i
<1> DEFINE R == OpToRel(<, Nat)
<1>1. IsWellFoundedOn(R, Nat)
  BY NatLessThanWellFounded
<1> HIDE DEF R
<1>2. PICK m \in S : \A y \in S : ~ (<<y, m>> \in R)
  BY <1>1, WFMin
<1>3. \A y \in S : y < m => <<y, m>> \in R
  BY DEF R, OpToRel
<1>4. m \in Nat /\ \A y \in S : y \in Nat /\ ~ (y < m)
  BY <1>2, <1>3
<1>5. \E x \in S : \A y \in S : x <= y
  BY <1>4
<1>6. QED
  BY <1>5 DEF Min

LEMMA InitInv == ASSUME Init PROVE Inv
<1>1. plan \in Plans /\ stage = 1 /\ next = 1 /\ by = <<>> /\ now = 0 /\ pc = "ask"
  BY DEF Init
<1>2. TypeOK
  BY <1>1, PlanShape DEF Init, TypeOK
<1>3. WaitInv /\ TimeInv /\ CountInv
  BY <1>1, UpstreamAssumption DEF WaitInv, TimeInv, Passed, CountInv, AnswerFromFirstLive
<1>4. QED
  BY <1>2, <1>3 DEF Inv
-----------------------------------------------------------------------------
\* The types as they are used below.
LEMMA Shapes ==
  ASSUME TypeOK
  PROVE  /\ Len(plan) \in {1, 2} /\ stage \in 1 .. Len(plan) /\ DOMAIN plan = 1 .. Len(plan)
         /\ plan[stage] \in Seq(Addresses) /\ Len(plan[stage]) \in Nat
         /\ DOMAIN plan[stage] = 1 .. Len(plan[stage])
         /\ next \in 1 .. Len(plan[stage]) + 1 /\ now \in Nat /\ began \in Nat
         /\ by \in Seq(Nat) /\ Len(by) \in Nat /\ DOMAIN by = 1 .. Len(by)
         /\ Try \in Nat /\ Budget \in Nat /\ Latency \in Nat /\ Latency < Try
         /\ bounded \in BOOLEAN
BY PlanShape, UpstreamAssumption DEF TypeOK

\* Steps that leave the plan, the health of hosts and the answers alone.
Settled == UNCHANGED <<plan, bounded, health, by>>

LEMMA AnswersStay ==
  ASSUME AnswerFromFirstLive, Settled
  PROVE  AnswerFromFirstLive'
BY DEF AnswerFromFirstLive, Settled, Live

\* The server that is tried is passed over.
LEMMA MoveOn ==
  ASSUME TypeOK, next' = next + 1, next <= Len(plan[stage]), stage' = stage, Settled,
         Passed, next \notin Live(plan[stage])
  PROVE  Passed'
<1>1. Live(plan[stage])' = Live(plan[stage])
  BY DEF Settled, Live
<1>2. \A i \in 1 .. next : i = next \/ i \in 1 .. next - 1
  BY Shapes
<1>3. next' - 1 = next
  BY Shapes
<1>4. QED
  BY <1>1, <1>2, <1>3 DEF Passed, Settled

LEMMA AskInv == ASSUME Inv, Ask PROVE Inv'
<1>s. TypeOK /\ pc = "ask" /\ next <= Len(plan[stage]) /\ Settled /\ stage' = stage /\ now' = now
  BY DEF Inv, Ask, Settled
<1>1. CASE Expired \/ ~ Dials(Address)
  <2>1. next' = next + 1 /\ pc' = pc /\ began' = began
    BY <1>1 DEF Ask
  <2>2. TypeOK'
    BY <1>s, <2>1, Shapes DEF TypeOK, Settled
  <2>3. Passed' \/ Expired'
    <3>1. CASE Expired
      BY <1>s, <3>1 DEF Expired, Settled
    <3>2. CASE ~ Expired
      <4>1. next \notin Live(plan[stage]) /\ Passed
        BY <1>s, <1>1, <3>2 DEF Inv, TimeInv, Live, Address
      <4>2. QED
        BY <1>s, <2>1, <4>1, MoveOn
    <3>3. QED
      BY <3>1, <3>2
  <2>4. QED
    BY <1>s, <2>1, <2>2, <2>3, AnswersStay DEF Inv, WaitInv, TimeInv, CountInv, Settled
<1>2. CASE ~ (Expired \/ ~ Dials(Address))
  <2>1. pc' = "wait" /\ began' = now /\ next' = next
    BY <1>2 DEF Ask
  <2>2. TypeOK'
    BY <1>s, <2>1, Shapes DEF TypeOK, Settled
  <2>3. Passed'
    BY <1>s, <1>2, <2>1 DEF Inv, TimeInv, Passed, Live, Settled
  <2>4. bounded => now < Budget
    BY <1>s, <1>2, Shapes DEF Expired
  <2>5. WaitInv'
    BY <1>s, <1>2, <2>1, <2>3, <2>4, Shapes DEF WaitInv, Address, Settled
  <2>6. QED
    BY <1>s, <2>1, <2>2, <2>5, AnswersStay DEF Inv, TimeInv, CountInv, Settled
<1>3. QED
  BY <1>1, <1>2

LEMMA GiveUpInv == ASSUME Inv, GiveUp PROVE Inv'
<1>1. /\ Settled /\ pc' = "failed" /\ pc = "ask" /\ next' = next /\ stage' = stage
      /\ now' = now /\ began' = began
  BY DEF GiveUp, Settled
<1>2. TypeOK'
  BY <1>1 DEF Inv, TypeOK, Settled
<1>3. QED
  BY <1>1, <1>2, AnswersStay DEF Inv, WaitInv, TimeInv, CountInv, Settled

LEMMA ReplyInv == ASSUME Inv, Reply PROVE Inv'
<1>s. /\ TypeOK /\ pc = "wait" /\ next <= Len(plan[stage]) /\ Dials(Address) /\ Passed
      /\ health[Address.host] = "answers" /\ by' = Append(by, next)
      /\ UNCHANGED <<plan, bounded, health, now, began>>
  BY DEF Inv, WaitInv, Reply
<1>1. next \in Live(plan[stage])
  BY <1>s, Shapes DEF Live, Address
<1>2. Min(Live(plan[stage])) = next
  <2>1. Live(plan[stage]) \in SUBSET Nat /\ \A i \in Live(plan[stage]) : i >= 1
    BY <1>s, Shapes DEF Live
  <2>2. \A i \in 1 .. next - 1 : i \notin Live(plan[stage])
    BY <1>s DEF Passed
  <2>3. QED
    BY <1>1, <2>1, <2>2, FirstIsMin
<1>3. Len(by) = stage - 1 /\ AnswerFromFirstLive
  BY <1>s DEF Inv, CountInv
<1>4. /\ by' \in Seq(Nat) /\ Len(by') = stage /\ DOMAIN by' = 1 .. stage /\ by'[stage] = next
      /\ \A k \in 1 .. stage - 1 : by'[k] = by[k]
  <2>1. by \in Seq(Nat) /\ Len(by) = stage - 1 /\ stage \in Nat /\ next \in Nat
    BY <1>s, <1>3, Shapes
  <2>2. QED
    BY <1>s, <2>1
<1>5. \A k \in 1 .. stage : Live(plan[k])' = Live(plan[k])
  BY <1>s DEF Live
<1>6. AnswerFromFirstLive'
  <2>1. ASSUME NEW k \in 1 .. stage
        PROVE  Live(plan[k]) # {} /\ by'[k] = Min(Live(plan[k]))
    <3>1. CASE k = stage
      BY <1>1, <1>2, <1>4, <3>1
    <3>2. CASE k # stage
      <4>1. k \in DOMAIN by
        BY <1>s, <1>3, <3>2, Shapes
      <4>2. by'[k] = by[k]
        BY <1>s, <1>4, <3>2, Shapes
      <4>3. QED
        BY <1>3, <4>1, <4>2 DEF AnswerFromFirstLive
    <3>3. QED
      BY <3>1, <3>2
  <2>2. QED
    BY <1>s, <1>4, <1>5, <2>1 DEF AnswerFromFirstLive
<1>7. CASE stage < Len(plan)
  <2>1. pc' = "ask" /\ stage' = stage + 1 /\ next' = 1
    BY <1>7 DEF Reply
  <2>2. stage' \in DOMAIN plan /\ 1 \in 1 .. Len(plan[stage']) + 1
    BY <1>s, <1>7, <2>1, Shapes, PlanShape DEF TypeOK
  <2>3. TypeOK'
    BY <1>s, <1>4, <2>1, <2>2 DEF TypeOK
  <2>4. Passed'
    BY <2>1 DEF Passed
  <2>5. CountInv'
    BY <1>s, <1>4, <1>6, <2>1, Shapes DEF CountInv
  <2>6. QED
    BY <1>s, <2>1, <2>3, <2>4, <2>5 DEF Inv, WaitInv, TimeInv
<1>8. CASE ~ (stage < Len(plan))
  <2>1. pc' = "answered" /\ stage' = stage /\ next' = next
    BY <1>8 DEF Reply
  <2>2. TypeOK'
    BY <1>s, <1>4, <2>1 DEF TypeOK
  <2>3. CountInv'
    BY <1>4, <1>6, <2>1 DEF CountInv
  <2>4. QED
    BY <1>s, <2>1, <2>2, <2>3 DEF Inv, WaitInv, TimeInv
<1>9. QED
  BY <1>7, <1>8

\* Refused and Timeout both pass on to the next server.
LEMMA FailedTryInv == ASSUME Inv, Refused \/ Timeout PROVE Inv'
<1>s. /\ TypeOK /\ pc = "wait" /\ pc' = "ask" /\ next' = next + 1 /\ stage' = stage
      /\ now' = now /\ began' = began /\ Settled
      /\ next <= Len(plan[stage]) /\ Passed
  BY DEF Inv, WaitInv, Refused, Timeout, Settled
<1>1. TypeOK'
  BY <1>s, Shapes DEF TypeOK, Settled
<1>2. Passed' \/ Expired'
  <2>1. CASE next \notin Live(plan[stage])
    BY <1>s, <2>1, MoveOn
  <2>2. CASE next \in Live(plan[stage])
    <3>1. health[Address.host] = "answers"
      BY <2>2 DEF Live, Address
    <3>2. now = Limit /\ now <= began + Latency
      BY <1>s, <3>1 DEF Refused, Timeout, Inv, WaitInv
    <3>3. bounded /\ Budget <= now
      BY <1>s, <3>2, Shapes DEF Limit
    <3>4. QED
      BY <1>s, <3>3 DEF Expired, Settled
  <2>3. QED
    BY <2>1, <2>2
<1>3. QED
  BY <1>s, <1>1, <1>2, AnswersStay DEF Inv, WaitInv, TimeInv, CountInv, Settled

LEMMA TickInv == ASSUME Inv, Tick PROVE Inv'
<1>s. /\ TypeOK /\ pc = "wait" /\ now < Limit /\ now' = now + 1 /\ Settled
      /\ health[Address.host] # "silent" => now < began + Latency
      /\ UNCHANGED <<pc, stage, next, began>>
  BY DEF Inv, Tick, Settled
<1>1. TypeOK'
  BY <1>s, Shapes DEF TypeOK, Settled
<1>2. now + 1 <= began + Try /\ (bounded => now + 1 <= Budget)
  BY <1>s, Shapes DEF Limit
<1>3. Passed' /\ Address' = Address /\ (Dials(Address)' <=> Dials(Address))
  BY <1>s DEF Inv, WaitInv, Passed, Live, Address, Dials, Settled
<1>4. WaitInv'
  BY <1>s, <1>2, <1>3, Shapes DEF Inv, WaitInv, Settled
<1>5. QED
  BY <1>s, <1>1, <1>2, <1>4, AnswersStay DEF Inv, TimeInv, CountInv, Settled

LEMMA StutterInv == ASSUME Inv, UNCHANGED vars PROVE Inv'
<1>1. TypeOK' /\ Settled
  BY DEF Inv, TypeOK, Settled, vars
<1>2. Passed' <=> Passed
  BY DEF Passed, Live, vars
<1>3. QED
  BY <1>1, <1>2, AnswersStay DEF Inv, WaitInv, TimeInv, CountInv, Address, Dials, Expired, vars

\* The inductive invariant holds for any configuration of servers and times.
THEOREM InvHolds == Spec => []Inv
<1>1. Init => Inv
  BY InitInv
<1>2. Inv /\ [Next]_vars => Inv'
  BY AskInv, GiveUpInv, ReplyInv, FailedTryInv, TickInv, StutterInv DEF Next
<1>3. QED
  BY <1>1, <1>2, PTL DEF Spec

-----------------------------------------------------------------------------
\* The costs of the servers of one resolver, and of the resolvers.
LEMMA CostShape ==
  ASSUME TypeOK, NEW k \in 1 .. Len(plan)
  PROVE  /\ Costs(plan[k]) \in Seq(Nat) /\ Len(Costs(plan[k])) = Len(plan[k])
         /\ \A i \in 1 .. Len(plan[k]) : Costs(plan[k])[i] = Wasted(plan[k][i])
<1>1. Len(plan[k]) \in Nat
  BY PlanShape DEF TypeOK
<1>2. \A a : Wasted(a) \in Nat
  BY UpstreamAssumption DEF Wasted
<1>3. QED
  BY <1>1, <1>2 DEF Costs

LEMMA StageShape ==
  ASSUME TypeOK, AllLive
  PROVE  /\ StageCosts \in Seq(Nat) /\ Len(StageCosts) = Len(plan)
         /\ \A k \in 1 .. Len(plan) :
              LET first == Min(Live(plan[k]))
              IN  /\ first \in Live(plan[k]) /\ first \in 1 .. Len(plan[k])
                  /\ \A i \in Live(plan[k]) : first <= i
                  /\ StageCosts[k] = SumTo(Costs(plan[k]), first)
<1>1. Len(plan) \in Nat
  BY PlanShape DEF TypeOK
<1>2. ASSUME NEW k \in 1 .. Len(plan)
      PROVE  /\ Min(Live(plan[k])) \in Live(plan[k])
             /\ Min(Live(plan[k])) \in 1 .. Len(plan[k])
             /\ \A i \in Live(plan[k]) : Min(Live(plan[k])) <= i
             /\ TimeToAnswer(plan[k]) \in Nat
  <2>1. Live(plan[k]) \subseteq 1 .. Len(plan[k]) /\ Len(plan[k]) \in Nat
    BY PlanShape DEF TypeOK, Live
  <2>2. Live(plan[k]) \in SUBSET Nat /\ Live(plan[k]) # {}
    BY <2>1 DEF AllLive
  <2>3. Min(Live(plan[k])) \in Live(plan[k]) /\ \A i \in Live(plan[k]) : Min(Live(plan[k])) <= i
    BY <2>2, MinIsLeast
  <2>4. Min(Live(plan[k])) \in 0 .. Len(Costs(plan[k]))
    BY <2>1, <2>3, CostShape
  <2>5. TimeToAnswer(plan[k]) \in Nat
    BY <2>4, CostShape, SumStep DEF TimeToAnswer
  <2>6. QED
    BY <2>1, <2>3, <2>5
<1>3. StageCosts \in Seq(Nat) /\ Len(StageCosts) = Len(plan)
  BY <1>1, <1>2 DEF StageCosts
<1>4. \A k \in 1 .. Len(plan) : StageCosts[k] = SumTo(Costs(plan[k]), Min(Live(plan[k])))
  BY DEF StageCosts, TimeToAnswer
<1>5. QED
  BY <1>2, <1>3, <1>4

\* Plan and health are fixed, and with them what the servers cost.
LEMMA CostsStay ==
  ASSUME UNCHANGED <<plan, health>>
  PROVE  /\ AllLive' <=> AllLive
         /\ StageCosts' = StageCosts
         /\ \A k : Costs(plan[k])' = Costs(plan[k])
<1>1. \A a : Wasted(a)' = Wasted(a)
  BY DEF Wasted
<1>2. \A k : Live(plan[k])' = Live(plan[k]) /\ Costs(plan[k])' = Costs(plan[k])
  BY <1>1 DEF Live, Costs
<1>3. QED
  BY <1>2 DEF AllLive, StageCosts, TimeToAnswer

\* What a failed call shows, if each resolver has a server that answers.
LEMMA FailureMeans ==
  ASSUME TypeOK, AllLive
  PROVE  FailureIsDeserved
           <=> (pc = "failed" => bounded /\ Budget <= SumTo(StageCosts, Len(plan)))
BY PlanShape DEF TypeOK, AllLive, FailureIsDeserved, StageCosts

\* The sums that the steps below compare.
LEMMA Spent ==
  ASSUME TypeOK, AllLive
  PROVE  LET first == Min(Live(plan[stage]))
         IN  /\ SpentBefore(next) \in Nat
             /\ next <= Len(plan[stage]) =>
                  SpentBefore(next + 1) = SpentBefore(next) + Wasted(Address)
             /\ next <= first => SpentBefore(next) <= SumTo(StageCosts, stage)
             /\ next = first => SpentBefore(next + 1) = SumTo(StageCosts, stage)
             /\ SumTo(StageCosts, stage) <= SumTo(StageCosts, Len(plan))
             /\ SumTo(StageCosts, stage) \in Nat /\ SumTo(StageCosts, Len(plan)) \in Nat
<1> DEFINE first == Min(Live(plan[stage]))
           costs == Costs(plan[stage])
<1>1. /\ Len(plan) \in Nat /\ stage \in 1 .. Len(plan) /\ next \in 1 .. Len(plan[stage]) + 1
      /\ Len(plan[stage]) \in Nat /\ first \in 1 .. Len(plan[stage])
      /\ costs \in Seq(Nat) /\ Len(costs) = Len(plan[stage])
      /\ StageCosts \in Seq(Nat) /\ Len(StageCosts) = Len(plan)
      /\ StageCosts[stage] = SumTo(costs, first)
      /\ next <= Len(plan[stage]) => costs[next] = Wasted(Address)
  BY PlanShape, StageShape, CostShape DEF TypeOK, Address
<1> HIDE DEF first, costs
<1>2. /\ SumTo(StageCosts, stage) = SumTo(StageCosts, stage - 1) + SumTo(costs, first)
      /\ SumTo(StageCosts, stage - 1) \in Nat /\ SumTo(StageCosts, stage) \in Nat
      /\ SumTo(StageCosts, Len(plan)) \in Nat
      /\ SumTo(StageCosts, stage) <= SumTo(StageCosts, Len(plan))
  <2>1. /\ stage - 1 \in 0 .. Len(StageCosts) /\ stage \in 0 .. Len(StageCosts)
        /\ stage \in 1 .. Len(StageCosts) /\ Len(plan) \in stage .. Len(StageCosts)
        /\ Len(plan) \in 0 .. Len(StageCosts)
    BY <1>1
  <2>2. SumTo(StageCosts, stage) <= SumTo(StageCosts, Len(plan))
    BY <1>1, <2>1, SumGrows
  <2>3. QED
    BY <1>1, <2>1, <2>2, SumStep
<1>3. SumTo(costs, next - 1) \in Nat /\ SumTo(costs, first) \in Nat
  <2>1. next - 1 \in 0 .. Len(costs) /\ first \in 0 .. Len(costs)
    BY <1>1
  <2>2. QED
    BY <1>1, <2>1, SumStep
<1>4. next <= Len(plan[stage]) =>
        SumTo(costs, next) = SumTo(costs, next - 1) + Wasted(Address)
  <2>1. next <= Len(plan[stage]) => next \in 1 .. Len(costs)
    BY <1>1
  <2>2. QED
    BY <1>1, <2>1, SumStep
<1>5. next <= first => SumTo(costs, next - 1) <= SumTo(costs, first)
  <2>1. SUFFICES ASSUME next <= first PROVE SumTo(costs, next - 1) <= SumTo(costs, first)
    OBVIOUS
  <2>2. next - 1 \in 0 .. Len(costs) /\ first \in next - 1 .. Len(costs)
    BY <1>1, <2>1
  <2>3. QED
    BY <1>1, <2>2, SumGrows
<1>6. /\ SpentBefore(next) = SumTo(StageCosts, stage - 1) + SumTo(costs, next - 1)
      /\ SpentBefore(next + 1) = SumTo(StageCosts, stage - 1) + SumTo(costs, next)
  BY <1>1 DEF SpentBefore, costs
<1>7. next <= Len(plan[stage]) => Wasted(Address) \in Nat
  BY UpstreamAssumption DEF Wasted
<1>8. /\ SpentBefore(next) \in Nat
      /\ next <= Len(plan[stage]) => SpentBefore(next + 1) = SpentBefore(next) + Wasted(Address)
  BY <1>2, <1>3, <1>4, <1>6, <1>7
<1>9. /\ next <= first => SpentBefore(next) <= SumTo(StageCosts, stage)
      /\ next = first => SpentBefore(next + 1) = SumTo(StageCosts, stage)
  BY <1>2, <1>3, <1>5, <1>6
<1>10. QED
  BY <1>2, <1>8, <1>9 DEF first

LEMMA SpentInit == ASSUME Init PROVE SpentInv
<1>1. TypeOK /\ pc = "ask" /\ now = 0 /\ next = 1
  BY InitInv DEF Init, Inv
<1>2. Passed
  BY <1>1 DEF Passed
<1>3. ASSUME AllLive PROVE 0 <= SpentBefore(next)
  BY <1>1, <1>3, Spent
<1>4. QED
  BY <1>1, <1>2, <1>3 DEF SpentInv, FailureIsDeserved

\* Before the first server that answers, and only there, the servers passed
\* over could not answer.
LEMMA PassedMeans ==
  ASSUME TypeOK, AllLive
  PROVE  Passed <=> next <= Min(Live(plan[stage]))
<1>1. /\ Min(Live(plan[stage])) \in Live(plan[stage])
      /\ Min(Live(plan[stage])) \in 1 .. Len(plan[stage])
      /\ \A i \in Live(plan[stage]) : Min(Live(plan[stage])) <= i
  BY StageShape, Shapes
<1>2. QED
  BY <1>1, Shapes DEF Passed

LEMMA SpentAsk == ASSUME Inv, SpentInv, Ask, Inv' PROVE SpentInv'
<1>s. /\ TypeOK /\ TypeOK' /\ pc = "ask" /\ next <= Len(plan[stage])
      /\ Settled /\ stage' = stage /\ now' = now
  BY DEF Inv, Ask, Settled
<1>1. SUFFICES ASSUME AllLive PROVE SpentInv'
  BY <1>s, CostsStay DEF SpentInv, Settled
<1>2. StageCosts' = StageCosts /\ AllLive' /\ \A n : SpentBefore(n)' = SpentBefore(n)
  BY <1>s, <1>1, CostsStay DEF SpentBefore, Settled
<1>3. pc' # "failed"
  BY <1>s DEF Ask
<1>4. \/ Passed /\ now <= SpentBefore(next)
      \/ Expired /\ now <= SumTo(StageCosts, stage)
  BY <1>s, <1>1 DEF SpentInv
<1>5. CASE Expired
  <2>1. next' = next + 1 /\ pc' = pc /\ Expired'
    BY <1>s, <1>5 DEF Ask, Expired, Settled
  <2>2. now <= SumTo(StageCosts, stage)
    BY <1>s, <1>1, <1>4, PassedMeans, Spent, Shapes
  <2>3. QED
    BY <1>s, <1>2, <1>3, <2>1, <2>2 DEF SpentInv, FailureIsDeserved
<1>6. CASE ~ Expired /\ ~ Dials(Address)
  <2>1. next' = next + 1 /\ pc' = pc
    BY <1>6 DEF Ask
  <2>2. Passed'
    <3>1. Passed /\ next \notin Live(plan[stage])
      BY <1>4, <1>6 DEF Live, Address
    <3>2. QED
      BY <1>s, <2>1, <3>1, MoveOn
  <2>3. now <= SpentBefore(next + 1)
    <3>1. Wasted(Address) = 0
      BY <1>6 DEF Wasted
    <3>2. QED
      BY <1>s, <1>1, <1>4, <1>6, <3>1, Spent, Shapes
  <2>4. SpentBefore(next)' = SpentBefore(next + 1)
    BY <1>s, <2>1, CostsStay DEF SpentBefore, Settled
  <2>5. QED
    BY <1>s, <1>3, <2>1, <2>2, <2>3, <2>4 DEF SpentInv, FailureIsDeserved
<1>7. CASE ~ Expired /\ Dials(Address)
  <2>1. pc' = "wait" /\ began' = now /\ next' = next
    BY <1>7 DEF Ask
  <2>2. SpentBefore(next)' = SpentBefore(next)
    BY <1>s, <2>1, CostsStay DEF SpentBefore, Settled
  <2>3. QED
    BY <1>4, <1>7, <2>1, <2>2 DEF SpentInv, FailureIsDeserved
<1>8. QED
  BY <1>5, <1>6, <1>7

\* The loop is left only when the deadline has come: with a server that
\* answers in the list, it would not have been passed over before.
LEMMA SpentGiveUp == ASSUME Inv, SpentInv, GiveUp, Inv' PROVE SpentInv'
<1>s. /\ TypeOK /\ TypeOK' /\ pc = "ask" /\ next > Len(plan[stage]) /\ pc' = "failed"
      /\ Settled /\ UNCHANGED <<now, next, stage, began>>
  BY DEF Inv, GiveUp, Settled
<1>1. SUFFICES ASSUME AllLive PROVE SpentInv'
  BY <1>s, CostsStay DEF SpentInv, Settled
<1>2. StageCosts' = StageCosts /\ AllLive'
  BY <1>s, <1>1, CostsStay DEF Settled
<1>3. ~ Passed
  <2>1. Min(Live(plan[stage])) \in 1 .. Len(plan[stage])
    BY <1>s, <1>1, StageShape, Shapes
  <2>2. QED
    BY <1>s, <1>1, <2>1, PassedMeans, Shapes
<1>4. Expired /\ now <= SumTo(StageCosts, stage)
  BY <1>s, <1>1, <1>3 DEF SpentInv
<1>5. bounded /\ Budget <= SumTo(StageCosts, Len(plan))
  BY <1>s, <1>1, <1>4, Spent, Shapes DEF Expired
<1>6. FailureIsDeserved'
  BY <1>s, <1>2, <1>5 DEF FailureIsDeserved, StageCosts, Settled
<1>7. QED
  BY <1>s, <1>6 DEF SpentInv

LEMMA SpentReply == ASSUME Inv, SpentInv, Reply, Inv' PROVE SpentInv'
<1>s. /\ TypeOK /\ TypeOK' /\ pc = "wait" /\ next <= Len(plan[stage]) /\ Dials(Address) /\ Passed
      /\ health[Address.host] = "answers" /\ now <= began + Latency
      /\ UNCHANGED <<plan, bounded, health, now, began>>
  BY DEF Inv, WaitInv, Reply
<1>1. SUFFICES ASSUME AllLive PROVE SpentInv'
  BY <1>s, CostsStay DEF SpentInv
<1>2. StageCosts' = StageCosts /\ pc' # "failed" /\ pc' # "wait"
  BY <1>s, <1>1, CostsStay DEF Reply
<1>3. CASE stage < Len(plan)
  <2>1. pc' = "ask" /\ stage' = stage + 1 /\ next' = 1
    BY <1>3 DEF Reply
  <2>2. next = Min(Live(plan[stage]))
    <3>1. next \in Live(plan[stage])
      BY <1>s, Shapes DEF Live, Address
    <3>2. Min(Live(plan[stage])) \in 1 .. Len(plan[stage]) /\ Min(Live(plan[stage])) <= next
      BY <1>s, <1>1, <3>1, StageShape, Shapes
    <3>3. QED
      BY <1>s, <1>1, <3>2, PassedMeans, Shapes
  <2>3. now <= SumTo(StageCosts, stage)
    <3>1. began <= SpentBefore(next) /\ Wasted(Address) = Latency
      BY <1>s, <1>1 DEF SpentInv, Wasted
    <3>2. /\ SumTo(StageCosts, stage) = SpentBefore(next) + Latency
          /\ SpentBefore(next) \in Nat
      BY <1>s, <1>1, <2>2, <3>1, Spent
    <3>3. QED
      BY <1>s, <3>1, <3>2, Shapes
  <2>4. SpentBefore(next)' = SumTo(StageCosts, stage) + SumTo(Costs(plan[stage + 1]), 0)
    <3>1. SpentBefore(next)' = SumTo(StageCosts', stage' - 1) + SumTo(Costs(plan[stage])', next' - 1)
      BY DEF SpentBefore
    <3>2. Costs(plan[stage])' = Costs(plan[stage + 1])
      BY <1>s, <2>1 DEF Costs, Wasted
    <3>3. stage' - 1 = stage /\ next' - 1 = 0
      BY <1>s, <2>1, Shapes
    <3>4. QED
      BY <1>2, <3>1, <3>2, <3>3
  <2>5. SumTo(Costs(plan[stage + 1]), 0) = 0
    <3>1. stage + 1 \in 1 .. Len(plan)
      BY <1>s, <1>3, Shapes
    <3>2. Costs(plan[stage + 1]) \in Seq(Nat)
      BY <1>s, <3>1, CostShape
    <3>3. QED
      BY <3>2, SumStep
  <2>6. now' <= SpentBefore(next)' /\ Passed'
    BY <1>s, <1>1, <2>1, <2>3, <2>4, <2>5, Spent, Shapes DEF Passed
  <2>7. QED
    BY <1>2, <2>1, <2>6 DEF SpentInv, FailureIsDeserved
<1>4. CASE ~ (stage < Len(plan))
  <2>1. pc' = "answered"
    BY <1>4 DEF Reply
  <2>2. QED
    BY <2>1 DEF SpentInv, FailureIsDeserved
<1>5. QED
  BY <1>3, <1>4

LEMMA SpentFailedTry == ASSUME Inv, SpentInv, Refused \/ Timeout, Inv' PROVE SpentInv'
<1>s. /\ TypeOK /\ TypeOK' /\ pc = "wait" /\ pc' = "ask" /\ next' = next + 1 /\ stage' = stage
      /\ now' = now /\ began' = began /\ Settled
      /\ next <= Len(plan[stage]) /\ Passed /\ Dials(Address)
      /\ now <= began + Try
      /\ health[Address.host] # "silent" => now <= began + Latency
  BY DEF Inv, WaitInv, Refused, Timeout, Settled
<1>1. SUFFICES ASSUME AllLive PROVE SpentInv'
  BY <1>s, CostsStay DEF SpentInv, Settled
<1>2. StageCosts' = StageCosts /\ SpentBefore(next)' = SpentBefore(next + 1)
  BY <1>s, CostsStay DEF SpentBefore, Settled
<1>3. now <= SpentBefore(next + 1)
  <2>1. began <= SpentBefore(next) /\ now <= began + Wasted(Address)
    BY <1>s, <1>1 DEF SpentInv, Wasted
  <2>2. Wasted(Address) \in Nat
    BY UpstreamAssumption DEF Wasted
  <2>3. /\ SpentBefore(next + 1) = SpentBefore(next) + Wasted(Address)
        /\ SpentBefore(next) \in Nat
    BY <1>s, <1>1, Spent
  <2>4. QED
    BY <1>s, <2>1, <2>2, <2>3, Shapes
<1>4. CASE Passed'
  BY <1>s, <1>2, <1>3, <1>4 DEF SpentInv, FailureIsDeserved
<1>5. CASE ~ Passed'
  <2>1. Expired'
    BY <1>s, <1>5 DEF Inv, TimeInv
  <2>2. next = Min(Live(plan[stage]))
    <3>1. next \in Live(plan[stage])
      BY <1>s, <1>5, MoveOn
    <3>2. /\ Min(Live(plan[stage])) \in 1 .. Len(plan[stage])
          /\ Min(Live(plan[stage])) <= next
      BY <1>s, <1>1, <3>1, StageShape, Shapes
    <3>3. QED
      BY <1>s, <1>1, <3>2, PassedMeans, Shapes
  <2>3. now <= SumTo(StageCosts, stage)
    BY <1>s, <1>1, <1>3, <2>2, Spent
  <2>4. QED
    BY <1>s, <1>2, <2>1, <2>3 DEF SpentInv, FailureIsDeserved
<1>6. QED
  BY <1>4, <1>5

LEMMA SpentTick == ASSUME Inv, SpentInv, Tick \/ UNCHANGED vars, Inv' PROVE SpentInv'
<1>s. /\ UNCHANGED <<plan, bounded, health, pc, stage, next, began>>
      /\ pc = "wait" \/ now' = now
  BY DEF Tick, vars
<1>1. SUFFICES ASSUME AllLive PROVE SpentInv'
  BY <1>s, CostsStay DEF SpentInv
<1>2. StageCosts' = StageCosts /\ SpentBefore(next)' = SpentBefore(next) /\ (Passed' <=> Passed)
  BY <1>s, CostsStay DEF SpentBefore, Passed, Live
<1>3. FailureIsDeserved'
  <2>1. \A k : Live(plan[k])' = Live(plan[k])
    BY <1>s DEF Live
  <2>2. FailureIsDeserved
    BY <1>1 DEF SpentInv
  <2>3. QED
    BY <1>s, <1>2, <2>1, <2>2 DEF FailureIsDeserved, StageCosts
<1>4. QED
  BY <1>s, <1>1, <1>2, <1>3 DEF SpentInv, Expired

\* The account of the time spent holds throughout.
THEOREM SpentHolds == Spec => []SpentInv
<1>1. Init => SpentInv
  BY SpentInit
<1>2. Inv /\ Inv' /\ SpentInv /\ [Next]_vars => SpentInv'
  BY SpentAsk, SpentGiveUp, SpentReply, SpentFailedTry, SpentTick DEF Next
<1>3. QED
  BY <1>1, <1>2, InvHolds, PTL DEF Spec

\* A call fails only if one of its resolvers has no server that answers, or
\* if the servers before those that do used up its deadline: without one, a
\* good server is found however many bad ones come first (resolver.go:128-146).
THEOREM FailureTheorem == Spec => []FailureIsDeserved
<1>1. TypeOK /\ SpentInv => FailureIsDeserved
  BY PlanShape DEF TypeOK, SpentInv, AllLive, FailureIsDeserved
<1>2. Inv => TypeOK
  BY DEF Inv
<1>3. QED
  BY <1>1, <1>2, InvHolds, SpentHolds, PTL

\* The call is at one of its resolvers and at one of its addresses or just
\* past the last.
THEOREM TypeCorrect == Spec => []TypeOK
<1>1. Inv => TypeOK
  BY DEF Inv
<1>2. QED
  BY <1>1, InvHolds, PTL

\* A call with a deadline is over by it, however many servers there are and
\* whatever they do (dns/server.go:151, resolver.go:133-140).
THEOREM BudgetTheorem == Spec => []WithinBudget
<1>1. Inv => WithinBudget
  BY DEF Inv, WaitInv, TimeInv, WithinBudget
<1>2. QED
  BY <1>1, InvHolds, PTL

\* Each resolver's answer comes from the first of its servers that can give
\* one, whatever the deadline (resolver.go:128-146).
THEOREM PreferenceTheorem == Spec => []AnswerFromFirstLive
<1>1. Inv => AnswerFromFirstLive
  BY DEF Inv, CountInv
<1>2. QED
  BY <1>1, InvHolds, PTL
-----------------------------------------------------------------------------
(***************************************************************************)
(* That a call ends, and when: the part of EveryCallEnds which a safety    *)
(* proof reaches.  A call with a deadline is over by it (BudgetTheorem);   *)
(* one without, as the gRPC handlers make them, takes the client's timeout *)
(* for every server that it may ask, and no more.                          *)
(***************************************************************************)

\* How many servers the call is done with, and how many there are.
Tried == (IF stage = 1 THEN 0 ELSE Len(plan[1])) + (next - 1)

Total == IF Len(plan) = 1 THEN Len(plan[1]) ELSE Len(plan[1]) + Len(plan[2])

TimeIsBounded == now <= Try * Total

CostInv ==
  /\ pc = "ask" => now <= Try * Tried
  /\ pc = "wait" => began <= Try * Tried
  /\ TimeIsBounded

LEMMA TryTimes ==
  ASSUME NEW m \in Nat, NEW n \in Nat, m <= n
  PROVE  /\ Try * m \in Nat /\ Try * n \in Nat /\ Try * m <= Try * n
         /\ Try * (m + 1) = Try * m + Try
<1>1. Try \in Nat
  BY UpstreamAssumption
<1>2. Try * m \in Nat /\ Try * n \in Nat /\ Try * (m + 1) = Try * m + Try
  BY <1>1
<1>3. n - m \in Nat /\ n = m + (n - m) /\ Try * (n - m) \in Nat
  BY <1>1
<1>4. Try * (m + (n - m)) = Try * m + Try * (n - m)
  BY <1>1
<1>5. QED
  BY <1>2, <1>3, <1>4

LEMMA TriedShape ==
  ASSUME TypeOK
  PROVE  /\ Tried \in Nat /\ Total \in Nat /\ Tried <= Total
         /\ next <= Len(plan[stage]) => Tried + 1 <= Total
         /\ stage \in 1 .. Len(plan) /\ Len(plan) \in {1, 2} /\ Len(plan[stage]) \in Nat
         /\ Len(plan[1]) \in Nat
         /\ stage < Len(plan) => stage = 1 /\ Len(plan) = 2 /\ Total = Len(plan[1]) + Len(plan[2])
         /\ now \in Nat /\ began \in Nat /\ next \in Nat \ {0}
<1>1. /\ plan \in Plans /\ stage \in DOMAIN plan /\ next \in 1 .. Len(plan[stage]) + 1
      /\ now \in Nat /\ began \in Nat
  BY DEF TypeOK
<1>2. /\ Len(plan) \in {1, 2} /\ DOMAIN plan = 1 .. Len(plan)
      /\ \A k \in 1 .. Len(plan) : Len(plan[k]) \in Nat
  BY <1>1, PlanShape
<1>3. CASE Len(plan) = 1
  <2>1. stage = 1 /\ Len(plan[1]) \in Nat
    BY <1>1, <1>2, <1>3
  <2>2. QED
    BY <1>1, <1>2, <1>3, <2>1 DEF Tried, Total
<1>4. CASE Len(plan) = 2
  <2>1. stage \in {1, 2} /\ Len(plan[1]) \in Nat /\ Len(plan[2]) \in Nat
    BY <1>1, <1>2, <1>4
  <2>2. QED
    BY <1>1, <1>2, <1>4, <2>1 DEF Tried, Total
<1>5. QED
  BY <1>2, <1>3, <1>4

\* What every step but Tick does to the count, to the time and to the place.
LEMMA TriedStep ==
  ASSUME TypeOK, WaitInv, Next, ~ Tick
  PROVE  /\ now' = now /\ Total' = Total /\ Tried' \in Nat
         /\ \/ pc = "ask" /\ pc' = "ask" /\ Tried' = Tried + 1
            \/ pc = "ask" /\ pc' = "wait" /\ Tried' = Tried /\ began' = now
            \/ pc = "ask" /\ pc' = "failed"
            \/ pc = "wait" /\ pc' = "ask" /\ next <= Len(plan[stage]) /\ Tried' = Tried + 1
            \/ pc = "wait" /\ pc' = "ask" /\ next <= Len(plan[stage]) /\ Tried' >= Tried + 1
            \/ pc = "wait" /\ pc' = "answered" /\ next <= Len(plan[stage])
<1>t. /\ stage \in 1 .. Len(plan) /\ next \in Nat \ {0} /\ Len(plan[stage]) \in Nat
      /\ stage < Len(plan) => stage = 1
      /\ Tried \in Nat /\ Len(plan[1]) \in Nat
  BY TriedShape
<1>1. now' = now /\ Total' = Total /\ plan' = plan
  BY DEF Next, Ask, GiveUp, Reply, Refused, Timeout, Total
<1>2. CASE Ask
  BY <1>t, <1>1, <1>2 DEF Ask, Tried
<1>3. CASE GiveUp
  BY <1>t, <1>1, <1>3 DEF GiveUp, Tried
<1>4. CASE Refused \/ Timeout
  BY <1>t, <1>1, <1>4 DEF Refused, Timeout, Tried, WaitInv
<1>5. CASE Reply
  <2>1. pc = "wait" /\ next <= Len(plan[stage])
    BY <1>5 DEF Reply, WaitInv
  <2>2. CASE stage < Len(plan)
    <3>1. stage = 1 /\ stage' = 2 /\ next' = 1 /\ pc' = "ask"
      BY <1>t, <1>5, <2>2 DEF Reply
    <3>2. Tried = next - 1 /\ Tried' = Len(plan[1])
      BY <1>t, <1>1, <3>1 DEF Tried
    <3>3. QED
      BY <1>t, <1>1, <2>1, <3>1, <3>2
  <2>3. CASE ~ (stage < Len(plan))
    BY <1>t, <1>1, <1>5, <2>1, <2>3 DEF Reply, Tried
  <2>4. QED
    BY <2>2, <2>3
<1>6. QED
  BY <1>2, <1>3, <1>4, <1>5 DEF Next

LEMMA CostNext ==
  ASSUME Inv, Inv', CostInv, Next
  PROVE  CostInv'
<1>t. /\ Tried \in Nat /\ Total \in Nat /\ Tried <= Total /\ now \in Nat /\ began \in Nat
      /\ next <= Len(plan[stage]) => Tried + 1 <= Total
      /\ Try \in Nat /\ Budget \in Nat
  BY TriedShape, UpstreamAssumption DEF Inv, TypeOK
<1>w. pc = "wait" => now <= began + Try /\ next <= Len(plan[stage])
  BY DEF Inv, WaitInv
<1>1. CASE Tick
  <2>1. pc = "wait" /\ pc' = pc /\ began' = began /\ now' = now + 1 /\ now < began + Try
        /\ Tried' = Tried /\ Total' = Total
    BY <1>1, <1>t DEF Tick, Limit, Tried, Total
  <2>2. began <= Try * Tried /\ Tried + 1 <= Total
    BY <1>t, <1>w, <2>1 DEF CostInv
  <2>3. now' <= Try * (Tried + 1) /\ Try * (Tried + 1) <= Try * Total
    BY <1>t, <2>1, <2>2, TryTimes
  <2>4. now' <= Try * Total
    BY <1>t, <2>1, <2>3, TryTimes
  <2>5. QED
    BY <2>1, <2>2, <2>4 DEF CostInv, TimeIsBounded
<1>2. CASE ~ Tick
  <2>1. now' = now /\ Total' = Total
    BY <1>2, TriedStep DEF Inv
  <2>2. TimeIsBounded'
    BY <2>1 DEF TimeIsBounded, CostInv
  <2>3. ASSUME pc' = "ask" PROVE now <= Try * Tried'
    <3>1. CASE pc = "ask"
      <4>1. Tried' = Tried + 1 /\ now <= Try * Tried
        BY <1>2, <2>3, <3>1, TriedStep DEF Inv, CostInv
      <4>2. Try * Tried \in Nat /\ Try * Tried' = Try * Tried + Try
        BY <1>t, <4>1, TryTimes
      <4>3. QED
        BY <1>t, <4>1, <4>2
    <3>2. CASE pc = "wait"
      <4>1. Tried' >= Tried + 1 /\ began <= Try * Tried
        BY <1>t, <1>2, <2>3, <3>2, TriedStep DEF Inv, CostInv
      <4>2. Tried' \in Nat
        BY <1>2, TriedStep DEF Inv
      <4>3. Try * (Tried + 1) <= Try * Tried' /\ Try * (Tried + 1) = Try * Tried + Try
            /\ Try * Tried \in Nat /\ Try * Tried' \in Nat
        <5>1. Try * (Tried + 1) = Try * Tried + Try /\ Try * Tried \in Nat
          BY <1>t, TryTimes
        <5>2. ASSUME NEW m \in Nat, NEW n \in Nat, m <= n
              PROVE  Try * m <= Try * n /\ Try * n \in Nat
          BY <5>2, TryTimes
        <5>3. Tried + 1 \in Nat /\ Tried + 1 <= Tried'
          BY <1>t, <4>1, <4>2
        <5>4. Try * (Tried + 1) <= Try * Tried' /\ Try * Tried' \in Nat
          BY <4>2, <5>2, <5>3
        <5>5. QED
          BY <5>1, <5>4
      <4>4. now <= Try * Tried + Try
        <5>1. now <= began + Try
          BY <1>w, <3>2
        <5> DEFINE x == Try * Tried
        <5>2. x \in Nat /\ began <= x
          BY <4>1, <4>3
        <5> HIDE DEF x
        <5>3. now <= x + Try
          BY <1>t, <5>1, <5>2
        <5>4. QED
          BY <5>3 DEF x
      <4>5. QED
        BY <1>t, <4>3, <4>4
    <3>3. QED
      BY <1>2, <2>3, <3>1, <3>2, TriedStep DEF Inv
  <2>4. ASSUME pc' = "wait" PROVE began' <= Try * Tried'
    BY <1>2, <2>4, TriedStep DEF Inv, CostInv
  <2>5. QED
    BY <2>1, <2>2, <2>3, <2>4 DEF CostInv
<1>3. QED
  BY <1>1, <1>2

\* A call takes at most the client's timeout for every server of its
\* resolvers, with or without a deadline: the bound on a call of a gRPC
\* client, whose handler sets none (resolver.go:128-146).
THEOREM TimeTheorem == Spec => []TimeIsBounded
<1>1. Init => CostInv
  <2> SUFFICES ASSUME Init PROVE CostInv
    OBVIOUS
  <2>1. TypeOK
    BY InitInv DEF Inv
  <2>2. Try \in Nat /\ Tried \in Nat /\ Total \in Nat /\ now = 0 /\ pc = "ask"
    BY <2>1, TriedShape, UpstreamAssumption DEF Init
  <2>3. QED
    BY <2>2, TryTimes DEF CostInv, TimeIsBounded
<1>2. Inv /\ Inv' /\ CostInv /\ [Next]_vars => CostInv'
  <2>1. ASSUME CostInv, UNCHANGED vars PROVE CostInv'
    BY <2>1 DEF vars, CostInv, TimeIsBounded, Tried, Total
  <2>2. QED
    BY <2>1, CostNext
<1>3. CostInv => TimeIsBounded
  BY DEF CostInv
<1>4. QED
  BY <1>1, <1>2, <1>3, InvHolds, PTL DEF Spec

\* The guards of the actions of Next, of which those of Tick and Timeout
\* leave an exchange that nothing is heard of no gap.
MayGoOn ==
  \/ pc = "ask" /\ next <= Len(plan[stage])
  \/ pc = "ask" /\ next > Len(plan[stage])
  \/ pc = "wait" /\ health[Address.host] = "answers"
  \/ pc = "wait" /\ health[Address.host] = "refuses"
  \/ pc = "wait" /\ now = Limit
  \/ pc = "wait" /\ now < Limit /\ (health[Address.host] # "silent" => now < began + Latency)

\* A step ends the call, is done with a server, or lets time pass up to the
\* limit of an exchange that has just been begun.
CallLeadsOn ==
  [][/\ MayGoOn
     /\ \/ pc' \in {"answered", "failed"}
        \/ Tried' > Tried
        \/ Tried' = Tried /\ pc = "ask" /\ pc' = "wait"
        \/ Tried' = Tried /\ pc' = pc /\ now' = now + 1 /\ now' <= Limit']_vars

NeverStuck == pc \notin {"answered", "failed"} => MayGoOn

\* An exchange always has a way to end: at the timeout or at the deadline, if
\* nothing is heard of the server (resolver.go:133-140).
THEOREM NeverStuckTheorem == Spec => []NeverStuck
<1>1. Inv => NeverStuck
  <2> SUFFICES ASSUME Inv, pc \notin {"answered", "failed"} PROVE MayGoOn
    BY DEF NeverStuck
  <2>1. CASE pc = "ask"
    BY <2>1, TriedShape DEF Inv, MayGoOn
  <2>2. CASE pc = "wait"
    <3>1. /\ now <= began + Try /\ (bounded => now <= Budget) /\ now \in Nat /\ began \in Nat
          /\ Try \in Nat /\ Budget \in Nat
      BY <2>2, UpstreamAssumption DEF Inv, WaitInv, TimeInv, TypeOK
    <3>2. Limit \in Nat /\ now <= Limit
      BY <3>1 DEF Limit
    <3>3. Address.host \in Hosts
      <4>1. plan \in Plans /\ stage \in DOMAIN plan /\ next \in 1 .. Len(plan[stage])
        BY <2>2, TriedShape DEF Inv, WaitInv, TypeOK
      <4>2. plan[stage][next] \in Addresses
        BY <4>1, PlanShape
      <4>3. QED
        BY <4>2 DEF Address, Addresses
    <3>4. health[Address.host] \in {"answers", "silent", "refuses"}
      BY <3>3 DEF Inv, TypeOK
    <3>5. QED
      BY <2>2, <3>1, <3>2, <3>4 DEF MayGoOn
  <2>3. QED
    BY <2>1, <2>2 DEF Inv, TypeOK
<1>2. QED
  BY <1>1, InvHolds, PTL

\* Every step brings the end of a call nearer: the servers are finitely many
\* and an exchange is limited, so that with NeverStuckTheorem and the passing
\* of time it ends.
THEOREM CallTheorem == Spec => CallLeadsOn
<1> DEFINE Leads ==
      /\ MayGoOn
      /\ \/ pc' \in {"answered", "failed"}
         \/ Tried' > Tried
         \/ Tried' = Tried /\ pc = "ask" /\ pc' = "wait"
         \/ Tried' = Tried /\ pc' = pc /\ now' = now + 1 /\ now' <= Limit'
<1>1. ASSUME Inv, Inv', Next PROVE Leads
  <2>1. MayGoOn
    BY <1>1 DEF Next, Ask, GiveUp, Reply, Refused, Timeout, Tick, MayGoOn
  <2>2. Tried \in Nat /\ now \in Nat
    BY <1>1, TriedShape DEF Inv, TypeOK
  <2>3. CASE Tick
    <3>1. pc' = pc /\ now' = now + 1 /\ now < Limit /\ Tried' = Tried /\ Limit' = Limit
      BY <2>3 DEF Tick, Tried, Limit
    <3>2. Limit \in Nat
      BY <1>1, UpstreamAssumption DEF Limit, Inv, TypeOK
    <3>3. QED
      BY <2>1, <2>2, <3>1, <3>2
  <2>4. CASE ~ Tick
    BY <1>1, <2>1, <2>2, <2>4, TriedStep DEF Inv
  <2>5. QED
    BY <2>3, <2>4
<1>2. Inv /\ Inv' /\ [Next]_vars => [Leads]_vars
  BY <1>1
<1> HIDE DEF Leads
<1>3. Spec => [][Leads]_vars
  BY <1>2, InvHolds, PTL DEF Spec
<1>4. QED
  BY <1>3 DEF CallLeadsOn, Leads
=============================================================================
