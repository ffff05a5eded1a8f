------------------------------- MODULE Upstream -------------------------------
(***************************************************************************)
(* Where one call of Route spends its time: the exchanges of               *)
(* internal/resolver/resolver.go with DNS servers, under the client's      *)
(* timeout for each exchange and the deadline that handleRequest puts on   *)
(* the whole call (the gRPC handlers put none).  A resolver is the list of *)
(* addresses it tries in order: one for a DNSResolver, those of            *)
(* resolv.conf for a SystemResolver.  Route asks one resolver, or two one  *)
(* after the other, and gives up at the first that fails; which two is the *)
(* matter of Router.                                                       *)
(*                                                                         *)
(* Time passes, in ticks, only while an exchange is outstanding: what the  *)
(* handler computes in between takes none.  Calls share nothing here, so   *)
(* one call is modelled.                                                   *)
(***************************************************************************)
EXTENDS Naturals, Sequences, FiniteSetsExt, Functions

CONSTANTS
  Hosts,    \* hosts that may run a DNS server
  Public,   \* the addresses used when the system names no server
  Explicit, \* addresses that an option may give
  Conf,     \* server lists of resolv.conf; <<>> if it is not readable
  Try,      \* the Timeout of dns.Client: 5 s
  Budget,   \* the deadline of handleRequest: 10 s
  Latency   \* a host that reacts to a datagram does so within this time

\* How an address is written: without a port, with one, or as an IPv6 address
\* without a port, which contains colons too.
Addresses == [host : Hosts, form : {"host", "hostPort", "bareIPv6"}]

ASSUME UpstreamAssumption ==
  /\ Public \in Seq(Addresses) /\ Conf \subseteq Seq(Addresses)
  /\ Explicit \subseteq Addresses
  /\ Try \in Nat /\ Budget \in Nat /\ Latency \in Nat
  /\ Latency < Try

\* A port is added unless the address contains a colon.
WithPort(a) == IF a.form = "host" THEN [a EXCEPT !.form = "hostPort"] ELSE a

NewDNSResolver(a) == <<WithPort(a)>>

\* NewSystemResolver, and NewApp's list in its place when it fails.
NewSystemResolver(conf) ==
  IF conf = <<>> THEN Public ELSE [i \in DOMAIN conf |-> WithPort(conf[i])]

SystemResolvers == {NewSystemResolver(conf) : conf \in Conf}
DNSResolvers == {NewDNSResolver(a) : a \in Explicit}

\* The resolvers that a call asks one after the other.
Plans ==
  LET final == SystemResolvers \cup DNSResolvers
  IN  {<<f>> : f \in final} \cup {<<x, f>> : x \in DNSResolvers, f \in final}

VARIABLES
  plan,    \* the resolvers of this call
  bounded, \* whether its context has a deadline
  health,  \* what each host does with a datagram, throughout the call
  now,     \* time since the call began
  pc,      \* ask, wait, answered or failed
  stage,   \* the resolver being asked: plan[stage]
  next,    \* the address in it that is tried
  began,   \* when the exchange under way began
  by       \* by[k]: the position of the address that answered at stage k

vars == <<plan, bounded, health, now, pc, stage, next, began, by>>

Init ==
  /\ plan \in Plans /\ bounded \in BOOLEAN
  /\ health \in [Hosts -> {"answers", "silent", "refuses"}]
  /\ now = 0 /\ pc = "ask" /\ stage = 1 /\ next = 1 /\ began = 0 /\ by = <<>>

Address == plan[stage][next]

\* Dialling fails at once for an address without a port.
Dials(a) == a.form = "hostPort"

\* The exchange ends at the client's timeout or the deadline, if that is first.
Limit == IF bounded /\ Budget < began + Try THEN Budget ELSE began + Try

Expired == bounded /\ Budget <= now

\* Mutant of Ask: the deadline is not looked at before dialling.
AskLate ==
  /\ pc = "ask" /\ next <= Len(plan[stage])
  /\ IF ~ Dials(Address)
     THEN next' = next + 1 /\ UNCHANGED <<pc, began>>
     ELSE pc' = "wait" /\ began' = now /\ UNCHANGED next
  /\ UNCHANGED <<plan, bounded, health, now, stage, by>>

\* One turn of the loop over the servers, up to the wait for the answer.
Ask ==
  /\ pc = "ask" /\ next <= Len(plan[stage])
  /\ IF Expired \/ ~ Dials(Address)
     THEN next' = next + 1 /\ UNCHANGED <<pc, began>>
     ELSE pc' = "wait" /\ began' = now /\ UNCHANGED next
  /\ UNCHANGED <<plan, bounded, health, now, stage, by>>

\* The loop ends without an answer; Route returns the error.
GiveUp ==
  /\ pc = "ask" /\ next > Len(plan[stage])
  /\ pc' = "failed"
  /\ UNCHANGED <<plan, bounded, health, now, stage, next, began, by>>

\* Mutant of Reply: Route does not stop at the last resolver.
ReplyGoesOn ==
  /\ pc = "wait" /\ health[Address.host] = "answers"
  /\ by' = Append(by, next)
  /\ pc' = "ask" /\ stage' = stage + 1 /\ next' = 1
  /\ UNCHANGED <<plan, bounded, health, now, began>>

\* The answer arrives: Resolve returns it, and Route goes on or is done.
Reply ==
  /\ pc = "wait" /\ health[Address.host] = "answers"
  /\ by' = Append(by, next)
  /\ IF stage < Len(plan) THEN pc' = "ask" /\ stage' = stage + 1 /\ next' = 1
     ELSE pc' = "answered" /\ UNCHANGED <<stage, next>>
  /\ UNCHANGED <<plan, bounded, health, now, began>>

\* Mutants of Refused: the error is final; the same server is tried again;
\* the one after it is passed over.
RefusedIsFinal ==
  /\ pc = "wait" /\ health[Address.host] = "refuses"
  /\ pc' = "failed"
  /\ UNCHANGED <<plan, bounded, health, now, stage, next, began, by>>

RefusedMovesBy(n) ==
  /\ pc = "wait" /\ health[Address.host] = "refuses"
  /\ pc' = "ask" /\ next' = next + n
  /\ UNCHANGED <<plan, bounded, health, now, stage, began, by>>

RefusedRetries == RefusedMovesBy(0)
RefusedSkips == RefusedMovesBy(2)

\* The host reports that nobody listens.
Refused ==
  /\ pc = "wait" /\ health[Address.host] = "refuses"
  /\ pc' = "ask" /\ next' = next + 1
  /\ UNCHANGED <<plan, bounded, health, now, stage, began, by>>

\* The exchange is cut off, even if the answer is just arriving.
Timeout ==
  /\ pc = "wait" /\ now = Limit
  /\ pc' = "ask" /\ next' = next + 1
  /\ UNCHANGED <<plan, bounded, health, now, stage, began, by>>

Tick ==
  /\ pc = "wait" /\ now < Limit
  /\ health[Address.host] # "silent" => now < began + Latency
  /\ now' = now + 1
  /\ UNCHANGED <<plan, bounded, health, pc, stage, next, began, by>>

Next == Ask \/ GiveUp \/ Reply \/ Refused \/ Timeout \/ Tick

\* The handler runs on, and time passes.
Spec == Init /\ [][Next]_vars /\ WF_vars(Next)
-----------------------------------------------------------------------------
\* The call is at one of its resolvers and, in it, at one of its addresses or
\* just past the last (resolver.go:133).
TypeOK ==
  /\ plan \in Plans /\ bounded \in BOOLEAN
  /\ health \in [Hosts -> {"answers", "silent", "refuses"}]
  /\ now \in Nat /\ began \in Nat
  /\ pc \in {"ask", "wait", "answered", "failed"}
  /\ stage \in DOMAIN plan
  /\ next \in 1 .. Len(plan[stage]) + 1
  /\ by \in Seq(Nat)

\* A call with a deadline is over by it: the exchange under way is cut off
\* there and the servers left are given up without waiting, however many they
\* are (dns/server.go:151, resolver.go:133-140).
WithinBudget ==
  bounded => /\ now <= Budget
             /\ pc = "wait" => began < Budget /\ began <= now /\ now <= began + Try

\* The servers of a list that can answer, and the time until the first does.
Live(list) == {i \in DOMAIN list : Dials(list[i]) /\ health[list[i].host] = "answers"}

Wasted(a) == IF ~ Dials(a) THEN 0 ELSE IF health[a.host] = "silent" THEN Try ELSE Latency

\* The sum of the first n numbers of s.
SumTo(s, n) ==
  LET sum[i \in 0 .. Len(s)] == IF i = 0 THEN 0 ELSE sum[i - 1] + s[i]
  IN  sum[n]

Costs(list) == [i \in 1 .. Len(list) |-> Wasted(list[i])]

TimeToAnswer(list) == SumTo(Costs(list), Min(Live(list)))

\* A call fails only if one of its resolvers has no server that answers, or
\* if what the silent servers before the good ones cost used up the deadline
\* that the resolvers share.  Without a deadline a good server is always
\* found (resolver.go:128-146).
FailureIsDeserved ==
  pc = "failed" =>
    \/ \E k \in DOMAIN plan : Live(plan[k]) = {}
    \/ /\ bounded
       /\ Budget <= SumTo([k \in 1 .. Len(plan) |-> TimeToAnswer(plan[k])], Len(plan))

\* Each resolver's answer comes from the first of its servers that can give
\* one: the order of the configuration is the order of preference.
AnswerFromFirstLive ==
  \A k \in DOMAIN by : Live(plan[k]) # {} /\ by[k] = Min(Live(plan[k]))

\* Every call ends.
EveryCallEnds == <>(pc \in {"answered", "failed"})

\* resolver.go:81: "NewSystemResolver creates a resolver using system DNS
\* settings", so that the servers of resolv.conf are the ones that are asked:
\* if all of them answer, so does the resolver.
SystemServersAreUsed ==
  \A conf \in Conf :
    /\ plan = <<NewSystemResolver(conf)>>
    /\ \A i \in DOMAIN conf : health[conf[i].host] = "answers"
    /\ \A i \in DOMAIN Public : health[Public[i].host] = "answers"
    => pc # "failed"
=============================================================================
