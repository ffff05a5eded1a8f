-------------------------------- MODULE Wiring --------------------------------
(***************************************************************************)
(* How the resolvers of a router are chosen: the constructors of           *)
(* internal/resolver and the part of NewApp that picks one resolver per    *)
(* role.  A resolver is [name, recursive]: the name that results and       *)
(* metrics carry, and the RD bit that its Resolve sets on what it sends.   *)
(* Addresses are left to the resolver's own model.  The records that one   *)
(* call of Route fills in are here too: RouteResult, and the exchanges it  *)
(* makes with the upstream servers.                                        *)
(***************************************************************************)
EXTENDS Matcher

CONSTANTS
  Answers,   \* answer sections: sequences of [type, target]
  NoQuestion \* the name in a message whose question section is empty

ASSUME WiringAssumption ==
  /\ \A answer \in Answers : answer \in Seq([type : {"CNAME", "A"}, target : Name])
  /\ NoQuestion \notin Name

\* A nil resolver or matcher.
Nil == [name |-> "nil", recursive |-> FALSE]

Resolvers == [name : STRING, recursive : BOOLEAN]

\* RouterConfig, with a matcher reduced to whether there is one.
RouterConfigs ==
  [requestMatcher : BOOLEAN, cnameMatcher : BOOLEAN, explicit : Resolvers,
   passthrough : Resolvers, noCnameResponse : Resolvers,
   noCnameMatch : Resolvers, system : Resolvers]

NewDNSResolver(recursive, name) == [name |-> name, recursive |-> recursive]

\* SystemResolver.Resolve sets RD unconditionally; its Name is "system".
NewSystemResolver == [name |-> "system", recursive |-> TRUE]

\* The settings that name a server, one per role and one for the system.
ResolverFlags == {"request", "explicit", "passthrough",
                  "noCnameResponse", "noCnameMatch"}

\* NewRouter: a role without a resolver falls back to the system resolver,
\* which may be nil too; the explicit role has no fallback.
NewRouter(cfg) ==
  LET orSystem(resolver) == IF resolver = Nil THEN cfg.system ELSE resolver
  IN  [requestMatcher  |-> cfg.requestMatcher,
       cnameMatcher    |-> cfg.cnameMatcher,
       explicit        |-> cfg.explicit,
       passthrough     |-> orSystem(cfg.passthrough),
       noCnameResponse |-> orSystem(cfg.noCnameResponse),
       noCnameMatch    |-> orSystem(cfg.noCnameMatch)]

\* The RouterConfig that NewApp builds when the settings in given are not
\* empty: both matchers always exist, and every role except the explicit one
\* has a resolver even before NewRouter's own fallback.
AppConfig(given) ==
  LET system == IF "request" \in given THEN NewDNSResolver(TRUE, "system")
                                       ELSE NewSystemResolver
      role(flag, name) == IF flag \in given THEN NewDNSResolver(TRUE, name)
                                            ELSE system
  IN  [requestMatcher  |-> TRUE,
       cnameMatcher    |-> TRUE,
       explicit        |-> IF "explicit" \in given
                           THEN NewDNSResolver(TRUE, "explicit") ELSE Nil,
       passthrough     |-> role("passthrough", "passthrough"),
       noCnameResponse |-> role("noCnameResponse", "no-cname-response"),
       noCnameMatch    |-> role("noCnameMatch", "no-cname-match"),
       system          |-> Nil]
-----------------------------------------------------------------------------
\* What Resolve returns: an answer, or the error of a failed exchange.
Failure == [ok |-> FALSE, answer |-> <<>>]
Replies == {Failure} \cup [ok : {TRUE}, answer : Answers]

\* One round trip: the resolver it went to, the RD bit sent, what came back.
Exchange(resolver, reply) ==
  [to |-> resolver.name, recursive |-> resolver.recursive, reply |-> reply]

\* HasCNAME and ExtractCNAME: the positions of the alias records.
CNAMEs(answer) == {k \in DOMAIN answer : answer[k].type = "CNAME"}

\* RouteResult before anything is known.
EmptyResult == [Response |-> <<>>, ResolverUsed |-> Blank, RequestMatched |-> FALSE,
                CNAMEMatched |-> FALSE, MatchedPattern |-> Blank,
                CNAMEPattern |-> Blank]

\* The fields set once the question, or the name of an alias, has matched:
\* list is the one in force when the label is read.
MatchedResult(list, q) ==
  [EmptyResult EXCEPT !.RequestMatched = TRUE,
                      !.MatchedPattern = MatchingPattern(list, q)]

CNAMEResult(result, list, target) ==
  [result EXCEPT !.CNAMEMatched = TRUE,
                 !.CNAMEPattern = MatchingPattern(list, target)]

AnsweredResult(result, resolver, reply) ==
  [result EXCEPT !.Response = reply.answer, !.ResolverUsed = resolver.name]

\* The alias that the handlers' debug record names beside the CNAME pattern:
\* the first one of the answer that is returned.
DebugCNAME(result) ==
  IF result.CNAMEMatched /\ CNAMEs(result.Response) # {}
  THEN LET first == CHOOSE k \in CNAMEs(result.Response) :
                      \A j \in CNAMEs(result.Response) : k <= j
       IN  result.Response[first].target
  ELSE Blank
=============================================================================
