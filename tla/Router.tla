-------------------------------- MODULE Router --------------------------------
(***************************************************************************)
(* internal/resolver/router.go: calls of Router.Route by the handler       *)
(* goroutines of the DNS and the gRPC server, while clients of the admin   *)
(* service replace the pattern lists through UpdatePatterns.               *)
(*                                                                         *)
(* One action is the code between two points where another goroutine can   *)
(* be noticed: a lock of a matcher (Match and MatchingPattern each take    *)
(* their own) or an exchange with a server, which ends whenever the answer *)
(* or the error arrives.  pc names what the call does next:                *)
(*   idle -> match -> label -> explicit -> cname -> labelCNAME -> again    *)
(* with the fallback roles passthrough, noCnameResponse and noCnameMatch   *)
(* as further control states, and answered or failed at the end.           *)
(* window and log are history: what an outside observer could have seen.   *)
(***************************************************************************)
EXTENDS Wiring

CONSTANTS
  Requests,  \* slots for concurrent calls of Route
  Queries,   \* names that may be asked, and NoQuestion
  Updates,   \* pattern lists, as text, of flags and of update requests
  Configs    \* configurations that NewRouter is called with

Matchers == {"request", "cname"}

Lists == {Compile(u) : u \in {v \in Updates : Compiles(v)}}

Routers == {NewRouter(cfg) : cfg \in Configs}

ASSUME RouterAssumption ==
  /\ Queries \subseteq Name \cup {NoQuestion}
  /\ Updates \subseteq Seq(Text)
  /\ Configs \subseteq RouterConfigs

VARIABLES
  router,  \* the Router, never assigned after NewRouter
  lists,   \* lists[m]: the compiled list of matcher m
  pc,      \* pc[r]: where call r is
  qname,   \* the question it was given
  result,  \* its RouteResult so far
  names,   \* positions of the alias records the loop has still to look at
  log,     \* exchanges made
  window   \* window[r][m]: the lists of m in force since call r began

vars == <<router, lists, pc, qname, result, names, log, window>>

Fallbacks == {"passthrough", "noCnameResponse", "noCnameMatch"}

Ended == {"idle", "answered", "failed"}

PCs == Ended \cup Fallbacks \cup
       {"match", "label", "explicit", "cname", "labelCNAME", "again"}

Init ==
  /\ router \in Routers
  /\ lists \in [Matchers -> Lists]
  /\ pc = [r \in Requests |-> "idle"]
  /\ qname = [r \in Requests |-> NoQuestion]
  /\ result = [r \in Requests |-> EmptyResult]
  /\ names = [r \in Requests |-> {}]
  /\ log = [r \in Requests |-> <<>>]
  /\ window = [r \in Requests |-> [m \in Matchers |-> {}]]

Goto(r, label) == pc' = [pc EXCEPT ![r] = label]

\* Route is entered with a message; a slot whose call has ended serves again.
Arrive(r) ==
  /\ pc[r] \in Ended
  /\ \E q \in Queries : qname' = [qname EXCEPT ![r] = q]
  /\ Goto(r, "match")
  /\ result' = [result EXCEPT ![r] = EmptyResult]
  /\ names' = [names EXCEPT ![r] = {}]
  /\ log' = [log EXCEPT ![r] = <<>>]
  /\ window' = [window EXCEPT ![r] = [m \in Matchers |-> {lists[m]}]]
  /\ UNCHANGED <<router, lists>>

\* Every error return of Route is (nil, err): the result is dropped.
Fail(r) == Goto(r, "failed") /\ result' = [result EXCEPT ![r] = EmptyResult]

\* The length check of Route and shouldUseRequestMatcher.
MatchRequest(r) ==
  /\ pc[r] = "match"
  /\ IF qname[r] = NoQuestion THEN Fail(r)
     ELSE /\ Goto(r, IF router.requestMatcher /\ Match(lists["request"], qname[r])
                     THEN "label" ELSE "passthrough")
          /\ UNCHANGED result
  /\ UNCHANGED <<router, lists, qname, names, log, window>>

\* routeMatchedRequest up to its first exchange: the label is a second read.
LabelRequest(r) ==
  /\ pc[r] = "label"
  /\ result' = [result EXCEPT ![r] = MatchedResult(lists["request"], qname[r])]
  /\ Goto(r, IF router.explicit = Nil THEN "noCnameResponse" ELSE "explicit")
  /\ UNCHANGED <<router, lists, qname, names, log, window>>

\* Mutant of QueryExplicit: a failed probe falls back instead of failing.
QueryExplicitFallsBack(r) ==
  /\ pc[r] = "explicit"
  /\ \E reply \in Replies :
       /\ log' = [log EXCEPT ![r] = Append(@, Exchange(router.explicit, reply))]
       /\ names' = [names EXCEPT ![r] = CNAMEs(reply.answer)]
       /\ Goto(r, IF CNAMEs(reply.answer) = {} \/ ~ router.cnameMatcher
                  THEN "noCnameResponse" ELSE "cname")
  /\ UNCHANGED <<router, lists, qname, result, window>>

\* The first lookup and processExplicitResponse.
QueryExplicit(r) ==
  /\ pc[r] = "explicit"
  /\ \E reply \in Replies :
       /\ log' = [log EXCEPT ![r] = Append(@, Exchange(router.explicit, reply))]
       /\ names' = [names EXCEPT ![r] = CNAMEs(reply.answer)]
       /\ IF ~ reply.ok THEN Fail(r)
          ELSE /\ Goto(r, IF CNAMEs(reply.answer) = {} \/ ~ router.cnameMatcher
                          THEN "noCnameResponse" ELSE "cname")
               /\ UNCHANGED result
  /\ UNCHANGED <<router, lists, qname, window>>

\* The aliases of the first answer, by position.
Target(r, k) == log[r][1].reply.answer[k].target

\* The loop variable of processCNAMEMatch: the first alias not yet passed.
Current(r, k) == k \in names[r] /\ \A j \in names[r] : k <= j

\* Mutants of MatchCNAME: only the first alias is looked at; the loop does not
\* move on.
MatchCNAMEFirstOnly(r) ==
  /\ pc[r] = "cname"
  /\ \E k \in names[r] :
       /\ Current(r, k)
       /\ IF Match(lists["cname"], Target(r, k))
          THEN Goto(r, "labelCNAME") /\ UNCHANGED names
          ELSE names' = [names EXCEPT ![r] = {}] /\ UNCHANGED pc
  /\ UNCHANGED <<router, lists, qname, result, log, window>>

MatchCNAMEStuck(r) ==
  /\ pc[r] = "cname"
  /\ \E k \in names[r] :
       /\ Current(r, k)
       /\ IF Match(lists["cname"], Target(r, k))
          THEN Goto(r, "labelCNAME") ELSE UNCHANGED pc
  /\ UNCHANGED <<router, lists, qname, result, names, log, window>>

\* One turn of the loop; every turn takes the lock anew.
MatchCNAME(r) ==
  /\ pc[r] = "cname"
  /\ \E k \in names[r] :
       /\ Current(r, k)
       /\ IF Match(lists["cname"], Target(r, k))
          THEN Goto(r, "labelCNAME") /\ UNCHANGED names
          ELSE names' = [names EXCEPT ![r] = @ \ {k}] /\ UNCHANGED pc
  /\ UNCHANGED <<router, lists, qname, result, log, window>>

\* The loop ends without a match.
NoCNAMEMatches(r) ==
  /\ pc[r] = "cname" /\ names[r] = {}
  /\ Goto(r, "noCnameMatch")
  /\ UNCHANGED <<router, lists, qname, result, names, log, window>>

\* Mutant of LabelCNAME: the alias is probed again, as if followed.
LabelCNAMEFollows(r) ==
  /\ pc[r] = "labelCNAME"
  /\ \E k \in names[r] :
       /\ Current(r, k)
       /\ result' = [result EXCEPT ![r] =
                       CNAMEResult(@, lists["cname"], Target(r, k))]
  /\ Goto(r, "explicit")
  /\ UNCHANGED <<router, lists, qname, names, log, window>>

\* handleMatchedCNAME up to its lookup: again a second read.
LabelCNAME(r) ==
  /\ pc[r] = "labelCNAME"
  /\ \E k \in names[r] :
       /\ Current(r, k)
       /\ result' = [result EXCEPT ![r] =
                       CNAMEResult(@, lists["cname"], Target(r, k))]
  /\ Goto(r, "again")
  /\ UNCHANGED <<router, lists, qname, names, log, window>>

\* Resolve of the resolver that has the last word, and the end of Route.
Answer(r, resolver) ==
  /\ \E reply \in Replies :
       /\ log' = [log EXCEPT ![r] = Append(@, Exchange(resolver, reply))]
       /\ IF ~ reply.ok THEN Fail(r)
          ELSE /\ result' = [result EXCEPT ![r] = AnsweredResult(@, resolver, reply)]
               /\ Goto(r, "answered")
  /\ UNCHANGED <<router, lists, qname, names, window>>

\* Mutant of QueryExplicitAgain: the wrong role is asked.
QueryOtherRole(r) == pc[r] = "again" /\ Answer(r, router.noCnameMatch)

\* The second lookup of handleMatchedCNAME.
QueryExplicitAgain(r) == pc[r] = "again" /\ Answer(r, router.explicit)

\* routePassthrough, useNoCnameResponseResolver, useNoCnameMatchResolver.
QueryFallback(r, role) ==
  /\ pc[r] = role
  /\ IF router[role] = Nil
     THEN Fail(r) /\ UNCHANGED <<router, lists, qname, names, log, window>>
     ELSE Answer(r, router[role])

\* UpdatePatterns of a matcher that exists; inputs that do not compile change
\* nothing, and so are no step.
Update(m) ==
  /\ IF m = "request" THEN router.requestMatcher ELSE router.cnameMatcher
  /\ \E inputs \in Updates :
       /\ Compiles(inputs)
       /\ lists' = [lists EXCEPT ![m] = Compile(inputs)]
       /\ window' = [r \in Requests |->
            IF pc[r] \in Ended THEN window[r]
            ELSE [window[r] EXCEPT ![m] = @ \cup {Compile(inputs)}]]
  /\ UNCHANGED <<router, pc, qname, result, names, log>>

Step(r) ==
  \/ MatchRequest(r) \/ LabelRequest(r) \/ QueryExplicit(r)
  \/ MatchCNAME(r) \/ NoCNAMEMatches(r) \/ LabelCNAME(r)
  \/ QueryExplicitAgain(r)
  \/ \E role \in Fallbacks : QueryFallback(r, role)

Next == \/ \E r \in Requests : Arrive(r) \/ Step(r)
        \/ \E m \in Matchers : Update(m)

Safe == Init /\ [][Next]_vars

\* A handler goroutine always runs on, and every exchange ends: the client's
\* own timeout turns a missing answer into an error.
Spec == Safe /\ \A r \in Requests : WF_vars(Step(r))
=============================================================================
