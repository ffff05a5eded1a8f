--------------------------- MODULE RoutingContract ---------------------------
(***************************************************************************)
(* What a router promises to the caller of Route, without saying how it    *)
(* works.  A request is submitted, and one step later or never settled:    *)
(* the settlement records the answer the caller gets and the exchanges     *)
(* with upstream servers that were spent on it.  Meanwhile the pattern     *)
(* lists may change at any moment.  A settlement is legal when every       *)
(* decision behind it is right for some list that was in force while the   *)
(* request was in flight (its window); decisions need not agree on one     *)
(* list, which is all that a lock taken per match can give.                *)
(***************************************************************************)
EXTENDS Wiring

CONSTANTS
  Requests,  \* slots for concurrent calls of Route
  Matchers,  \* "request" and "cname"
  Queries,   \* names that may be asked, and NoQuestion
  Lists,     \* compiled pattern lists
  Routers    \* the routers that NewRouter may have built

VARIABLES router, lists, qname, window, outcome

cvars == <<router, lists, qname, window, outcome>>

NotAsked == [state |-> "idle",    result |-> EmptyResult, log |-> <<>>]
Pending  == [state |-> "pending", result |-> EmptyResult, log |-> <<>>]

(***************************************************************************)
(* The parts of a legal settlement o for question q, router rt and window  *)
(* w, the function from matcher to the lists that were in force.           *)
(***************************************************************************)
FailedWith(o, log) ==
  o = [state |-> "failed", result |-> EmptyResult, log |-> log]

\* After the exchanges in log, resolver has the last word: a nil resolver is
\* an error without a further exchange, else its one reply is the answer.
SettledBy(o, resolver, result, log) ==
  IF resolver = Nil THEN FailedWith(o, log)
  ELSE \E reply \in Replies :
         LET after == Append(log, Exchange(resolver, reply))
         IN  IF reply.ok
             THEN o = [state  |-> "answered", log |-> after,
                       result |-> AnsweredResult(result, resolver, reply)]
             ELSE FailedWith(o, after)

\* Rule 5 of Route: some list in force did not match the name.
PassedThrough(rt, q, w, o) ==
  /\ rt.requestMatcher => \E list \in w["request"] : ~ Match(list, q)
  /\ SettledBy(o, rt.passthrough, EmptyResult, <<>>)

\* Rules 1 to 4, after the probe of the explicit resolver returned answer.
ProbedTo(rt, w, o, result, log, answer) ==
  \/ /\ CNAMEs(answer) = {} \/ ~ rt.cnameMatcher
     /\ SettledBy(o, rt.noCnameResponse, result, log)
  \/ /\ CNAMEs(answer) # {} /\ rt.cnameMatcher
     /\ \A k \in CNAMEs(answer) :
          \E list \in w["cname"] : ~ Match(list, answer[k].target)
     /\ SettledBy(o, rt.noCnameMatch, result, log)
  \/ /\ rt.cnameMatcher
     /\ \E k \in CNAMEs(answer), labelled \in w["cname"] :
          /\ \E list \in w["cname"] : Match(list, answer[k].target)
          /\ \A j \in CNAMEs(answer) :
               j < k => \E list \in w["cname"] : ~ Match(list, answer[j].target)
          /\ SettledBy(o, rt.explicit,
                       CNAMEResult(result, labelled, answer[k].target), log)

\* Some list in force matched the name; the label is what some list in force
\* answers for it.  A failed probe is final: no other resolver is asked.
Matched(rt, q, w, o) ==
  /\ rt.requestMatcher
  /\ \E list \in w["request"] : Match(list, q)
  /\ \E labelled \in w["request"] :
       LET result == MatchedResult(labelled, q)
       IN  IF rt.explicit = Nil
           THEN SettledBy(o, rt.noCnameResponse, result, <<>>)
           ELSE \E reply \in Replies :
                  LET log == <<Exchange(rt.explicit, reply)>>
                  IN  IF reply.ok
                      THEN ProbedTo(rt, w, o, result, log, reply.answer)
                      ELSE FailedWith(o, log)

Legal(rt, q, w, o) ==
  IF q = NoQuestion THEN FailedWith(o, <<>>)
                    ELSE PassedThrough(rt, q, w, o) \/ Matched(rt, q, w, o)
-----------------------------------------------------------------------------
CInit ==
  /\ router \in Routers
  /\ lists \in [Matchers -> Lists]
  /\ qname = [r \in Requests |-> NoQuestion]
  /\ window = [r \in Requests |-> [m \in Matchers |-> {}]]
  /\ outcome = [r \in Requests |-> NotAsked]

Submit(r) ==
  /\ outcome[r].state # "pending"
  /\ \E q \in Queries : qname' = [qname EXCEPT ![r] = q]
  /\ window' = [window EXCEPT ![r] = [m \in Matchers |-> {lists[m]}]]
  /\ outcome' = [outcome EXCEPT ![r] = Pending]
  /\ UNCHANGED <<router, lists>>

\* A new list is in the window of every request that is in flight.
Change(m) ==
  /\ \E list \in Lists :
       /\ lists' = [lists EXCEPT ![m] = list]
       /\ window' = [r \in Requests |->
            IF outcome[r].state = "pending"
            THEN [window[r] EXCEPT ![m] = @ \cup {list}]
            ELSE window[r]]
  /\ UNCHANGED <<router, qname, outcome>>

Settle(r) ==
  /\ outcome[r].state = "pending"
  /\ Legal(router, qname[r], window[r], outcome'[r])
  /\ outcome' = [outcome EXCEPT ![r] = outcome'[r]]
  /\ UNCHANGED <<router, lists, qname, window>>

CNext == \/ \E r \in Requests : Submit(r) \/ Settle(r)
         \/ \E m \in Matchers : Change(m)

CSpec == CInit /\ [][CNext]_cvars
=============================================================================
