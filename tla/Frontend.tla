------------------------------- MODULE Frontend -------------------------------
(***************************************************************************)
(* The three ways in: handleRequest of internal/dns/server.go, and the     *)
(* Resolve and Query calls of internal/grpc/server.go, with the metrics    *)
(* they record and the replies they give.  Each request has a goroutine of *)
(* its own; they share the counters, and every increment is a step.  Route *)
(* is reduced to its outcome, of which RoutingContract says that           *)
(* CNAMEMatched implies RequestMatched.                                    *)
(*                                                                         *)
(* Counters are summed over their labels.  A request is made once, so      *)
(* Requests bounds the counters.  The handler of /metrics is external: it  *)
(* reads one metric after another, in any order, while requests go on.     *)
(* Reading changes nothing, so two readings of a scrape stand for all: one *)
(* that was made, and one that may be made now.                            *)
(***************************************************************************)
EXTENDS Integers, Sequences, FiniteSets

CONSTANT Requests  \* the requests that clients make

ASSUME FrontendAssumption == IsFiniteSet(Requests)

Kinds == {"dns", "grpc", "coredns"}

\* The counters of internal/metrics and the gRPC server's totalRequests.
Counters == {"requests", "active", "errors", "duration", "resolverUsed",
             "pattern", "cname", "codes", "total"}

\* What Route returns, as far as the handlers look at it.
Outcomes == {[ok |-> FALSE, request |-> FALSE, cname |-> FALSE]} \cup
            {o \in [ok : {TRUE}, request : BOOLEAN, cname : BOOLEAN] :
               o.cname => o.request}

VARIABLES
  metered, \* the servers were given a Metrics
  count,   \* the counters
  pc,      \* pc[r]: where the handler of r is
  kind,    \* which handler it is
  question,\* whether the message has a question
  todo,    \* counters it will increment before its next other step
  outcome, \* what Route returned
  sent,    \* replies it gave
  stats,   \* the TotalRequests that GetStats reported last
  scrape   \* the metric that a scrape read, its value then, and the requests
           \* that were at work at some moment since (history)

vars == <<metered, count, pc, kind, question, todo, outcome, sent, stats, scrape>>

\* What is registered with Prometheus; totalRequests is not.
Metrics == Counters \ {"total"}

NoOutcome == [ok |-> FALSE, request |-> FALSE, cname |-> FALSE]

Init ==
  /\ metered \in BOOLEAN
  /\ count = [c \in Counters |-> 0]
  /\ pc = [r \in Requests |-> "waiting"]
  /\ kind = [r \in Requests |-> "dns"]
  /\ question = [r \in Requests |-> TRUE]
  /\ todo = [r \in Requests |-> <<>>]
  /\ outcome = [r \in Requests |-> NoOutcome]
  /\ sent = [r \in Requests |-> <<>>]
  /\ stats = 0
  /\ scrape = [metric |-> "requests", value |-> 0, moving |-> {}]

Goto(r, label) == pc' = [pc EXCEPT ![r] = label]

\* Without a Metrics there is only totalRequests.
Kept(counters) ==
  IF metered THEN counters
  ELSE IF "total" \in {counters[i] : i \in DOMAIN counters} THEN <<"total">> ELSE <<>>

\* The handler is to increment these counters.
Then(r, counters) == todo' = [todo EXCEPT ![r] = Kept(counters)]

Say(r, reply) == sent' = [sent EXCEPT ![r] = Append(@, reply)]

\* Mutant of OnEntry: CoreDNS queries are not in totalRequests.
OnEntryUncounted(k, hasQuestion) ==
  CASE k = "dns" -> <<"requests", "active">>
    [] k = "grpc" -> <<"total", "requests">>
    [] k = "coredns" -> IF hasQuestion THEN <<"requests">> ELSE <<>>

OnEntry(k, hasQuestion) ==
  CASE k = "dns" -> <<"requests", "active">>
    [] k = "grpc" -> <<"total", "requests">>
    [] k = "coredns" -> IF hasQuestion THEN <<"total", "requests">> ELSE <<"total">>

\* A DNS message is handed over only if it has one question, Resolve makes the
\* message itself, and Query takes what it is given.
Arrive(r) ==
  /\ pc[r] = "waiting"
  /\ \E k \in Kinds, hasQuestion \in BOOLEAN :
       /\ hasQuestion \/ k = "coredns"
       /\ kind' = [kind EXCEPT ![r] = k]
       /\ question' = [question EXCEPT ![r] = hasQuestion]
       /\ Then(r, OnEntry(k, hasQuestion))
  /\ Goto(r, "route")
  /\ scrape' = [scrape EXCEPT !.moving = @ \cup {r}]
  /\ UNCHANGED <<metered, count, outcome, sent, stats>>

\* Query is given bytes that are no DNS message.
Reject(r) ==
  /\ pc[r] = "waiting"
  /\ kind' = [kind EXCEPT ![r] = "coredns"]
  /\ question' = [question EXCEPT ![r] = FALSE]
  /\ Say(r, "error") /\ Goto(r, "done")
  /\ UNCHANGED <<metered, count, todo, outcome, stats, scrape>>

\* One increment; the counters are atomic.
Record(r) ==
  /\ todo[r] # <<>>
  /\ count' = [count EXCEPT ![Head(todo[r])] = @ + 1]
  /\ todo' = [todo EXCEPT ![r] = Tail(@)]
  /\ UNCHANGED <<metered, pc, kind, question, outcome, sent, stats, scrape>>

Ready(r, label) == pc[r] = label /\ todo[r] = <<>>

\* Mutant of OfOutcome: the verdict on the alias is recorded first.
OfOutcomeReversed(k, o) ==
  IF k = "coredns" THEN <<>>
  ELSE IF ~ o.ok THEN <<"errors">>
  ELSE (IF o.cname THEN <<"cname">> ELSE <<>>)
       \o (IF o.request THEN <<"pattern">> ELSE <<>>)
       \o (IF k = "dns" THEN <<"duration">> ELSE <<>>) \o <<"resolverUsed", "codes">>

\* What is recorded of an outcome before the reply; Query records nothing.
OfOutcome(k, o) ==
  IF k = "coredns" THEN <<>>
  ELSE IF ~ o.ok THEN <<"errors">>
  ELSE (IF k = "dns" THEN <<"duration">> ELSE <<>>) \o <<"resolverUsed">>
       \o (IF o.request THEN <<"pattern">> ELSE <<>>)
       \o (IF o.cname THEN <<"cname">> ELSE <<>>) \o <<"codes">>

\* Route returns.  Query does not call it for a message without a question.
Route(r) ==
  /\ Ready(r, "route")
  /\ \E o \in Outcomes :
       /\ question[r] \/ o = NoOutcome
       /\ outcome' = [outcome EXCEPT ![r] = o]
       /\ Then(r, OfOutcome(kind[r], o))
  /\ Goto(r, IF outcome'[r].ok THEN "answer" ELSE "refuse")
  /\ UNCHANGED <<metered, count, kind, question, sent, stats, scrape>>

\* Mutant of Refuse: the handler does not return after its SERVFAIL.
RefuseAndGoOn(r) ==
  /\ Ready(r, "refuse")
  /\ Say(r, IF kind[r] = "grpc" THEN "error" ELSE "SERVFAIL")
  /\ Then(r, IF kind[r] = "dns" THEN <<"codes">> ELSE <<>>)
  /\ Goto(r, IF kind[r] = "dns" THEN "answer" ELSE "leave")
  /\ UNCHANGED <<metered, count, kind, question, outcome, stats, scrape>>

\* The error paths: SERVFAIL to a DNS client, whether or not it can be
\* written, and to CoreDNS; an error to a caller of Resolve.
Refuse(r) ==
  /\ Ready(r, "refuse")
  /\ Say(r, IF kind[r] = "grpc" THEN "error" ELSE "SERVFAIL")
  /\ Then(r, IF kind[r] = "dns" THEN <<"codes">> ELSE <<>>)
  /\ Goto(r, "leave")
  /\ UNCHANGED <<metered, count, kind, question, outcome, stats, scrape>>

\* The reply is written; a DNS reply may fail to be, which is an error of its
\* own, and a CoreDNS reply may fail to be packed.
Answer(r) ==
  /\ Ready(r, "answer")
  /\ \/ Say(r, "answer") /\ Then(r, <<>>)
     \/ kind[r] = "dns" /\ Say(r, "lost") /\ Then(r, <<"errors">>)
     \/ kind[r] = "coredns" /\ Say(r, "error") /\ Then(r, <<>>)
  /\ Goto(r, "leave")
  /\ UNCHANGED <<metered, count, kind, question, outcome, stats, scrape>>

\* Mutant of Leave: the gauge goes down on the paths with an answer only.
LeaveEarly(r) ==
  /\ Ready(r, "leave")
  /\ count' = IF kind[r] = "dns" /\ metered /\ outcome[r].ok
              THEN [count EXCEPT !["active"] = @ - 1] ELSE count
  /\ Goto(r, "done")
  /\ UNCHANGED <<metered, kind, question, todo, outcome, sent, stats, scrape>>

\* The handler returns; its deferred call lowers the gauge on every path.
Leave(r) ==
  /\ Ready(r, "leave")
  /\ count' = IF kind[r] = "dns" /\ metered
              THEN [count EXCEPT !["active"] = @ - 1] ELSE count
  /\ Goto(r, "done")
  /\ UNCHANGED <<metered, kind, question, todo, outcome, sent, stats, scrape>>

Step(r) == Record(r) \/ Route(r) \/ Refuse(r) \/ Answer(r) \/ Leave(r)

\* GetStats reads totalRequests; its maps by resolver and pattern are empty.
GetStats ==
  /\ stats' = count["total"]
  /\ UNCHANGED <<metered, count, pc, kind, question, todo, outcome, sent, scrape>>

\* A scrape reads one metric; its other readings come at any later moment.
Collect(c) ==
  /\ scrape' = [metric |-> c, value |-> count[c],
                moving |-> {r \in Requests : pc[r] \notin {"waiting", "done"}}]
  /\ UNCHANGED <<metered, count, pc, kind, question, todo, outcome, sent, stats>>

Next ==
  \/ GetStats
  \/ \E c \in Metrics : Collect(c)
  \/ \E r \in Requests : Arrive(r) \/ Reject(r) \/ Step(r)

Spec == Init /\ [][Next]_vars
-----------------------------------------------------------------------------
Replies == {"answer", "lost", "SERVFAIL", "error"}

\* One reply a request is all that sent holds, and no counter is below zero.
TypeOK ==
  /\ metered \in BOOLEAN
  /\ count \in [Counters -> Nat]
  /\ pc \in [Requests -> {"waiting", "route", "answer", "refuse", "leave", "done"}]
  /\ kind \in [Requests -> Kinds] /\ question \in [Requests -> BOOLEAN]
  /\ todo \in [Requests -> Seq(Counters)]
  /\ outcome \in [Requests -> Outcomes]
  /\ sent \in [Requests -> Seq(Replies)]
  /\ stats \in Nat
  /\ scrape \in [metric : Metrics, value : Nat, moving : SUBSET Requests]
  /\ \A r \in Requests : Len(sent[r]) <= 1

Quiet == \A r \in Requests : pc[r] \in {"waiting", "done"}

Number(P(_)) == Cardinality({r \in Requests : pc[r] = "done" /\ P(r)})

\* Pairs of metrics of which a handler increments the second first.
PartAndWhole ==
  {<<"cname", "pattern">>, <<"pattern", "resolverUsed">>, <<"duration", "requests">>}

\* A scrape that reads a part before its whole never sees the part exceed it:
\* alias matches, pattern matches and resolvers used, durations and requests.
\* One that reads the whole first may, but by no more than there were handlers
\* at work during the scrape; nor is a gauge above their number (main.go:153,
\* dns/server.go:143-183, grpc/server.go:184-190).
ScrapesAreConsistent ==
  /\ \A pair \in PartAndWhole :
       /\ scrape.metric = pair[1] => scrape.value <= count[pair[2]]
       /\ scrape.metric = pair[2] =>
            count[pair[1]] <= scrape.value + Cardinality(scrape.moving)
  /\ scrape.metric = "active" => scrape.value <= Cardinality(scrape.moving)

\* Requests that have neither a response code nor will have one: a Resolve that
\* failed, and every Query.
Uncoded(r) ==
  question[r] /\ (kind[r] = "coredns" \/ (kind[r] = "grpc" /\ ~ outcome[r].ok))

\* When no handler is at work the gauge is back at zero, and what the paths of
\* the handlers have booked adds up: every request that is counted has its one
\* response code, but for the Resolves that failed and for all of CoreDNS's;
\* every DNS request or Resolve that failed, and every DNS reply that could not
\* be written, has its one error, and the others of the two kinds a resolver.
\* A Query is in no book but the requests': monitoring.adoc:130, 257 and 303
\* speak of all resolvers, errors and responses, and fall short by the Queries
\* (dns/server.go:145-235, grpc/server.go:163-190, 293-381).
BooksBalance ==
  Quiet /\ metered =>
    /\ count["active"] = 0
    /\ count["requests"] = count["codes"] + Number(LAMBDA r : Uncoded(r))
    /\ count["errors"] = Number(LAMBDA r : \/ kind[r] # "coredns" /\ ~ outcome[r].ok
                                           \/ sent[r] = <<"lost">>)
    /\ count["resolverUsed"] = Number(LAMBDA r : kind[r] # "coredns" /\ outcome[r].ok)

\* A finished request had one reply, of the sort its outcome calls for: a
\* failure never looks like an answer, and only a reply that could not be
\* written or packed is missing (dns/server.go:156-236, grpc/server.go:316-381).
ReplyFitsOutcome ==
  \A r \in Requests :
    pc[r] = "done" =>
      /\ Len(sent[r]) = 1
      /\ sent[r][1] = "answer" => outcome[r].ok
      /\ outcome[r].ok => sent[r][1] # "SERVFAIL"
      /\ sent[r][1] = "error" => kind[r] # "dns"

Grpc(label(_)) == Cardinality({r \in Requests : kind[r] # "dns" /\ label(r)})

\* Bytes that are no DNS message are refused before they are counted.
Rejected(r) == kind[r] = "coredns" /\ ~ question[r] /\ sent[r] = <<"error">>

\* What GetStats reports never goes back, and lies between the gRPC calls that
\* have been answered and those that have come in, wherever among the handlers'
\* increments it falls.  It says nothing of DNS requests, which are never in it,
\* although switcher.proto:114 has "Total requests processed"
\* (grpc/server.go:117, 266, 291).
StatsCountGrpcCalls ==
  [][GetStats =>
       /\ stats' >= stats
       /\ stats' >= Grpc(LAMBDA r : sent[r] # <<>> /\ ~ Rejected(r))
       /\ stats' <= Grpc(LAMBDA r : pc[r] # "waiting" /\ ~ Rejected(r))]_vars
=============================================================================
