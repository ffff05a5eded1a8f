---------------------------- MODULE RouterCorrect ----------------------------
(***************************************************************************)
(* What Router must satisfy.  The main property is that it implements      *)
(* RoutingContract; Inv is the inductive invariant behind that, one        *)
(* conjunct per control state, and the rest are consequences and liveness. *)
(***************************************************************************)
EXTENDS Router

\* What the caller of r can see: nothing until the call has ended.
Outcome ==
  [r \in Requests |->
     IF pc[r] \in Ended
     THEN [state |-> pc[r], result |-> result[r], log |-> log[r]]
     ELSE [state |-> "pending", result |-> EmptyResult, log |-> <<>>]]

Contract == INSTANCE RoutingContract WITH outcome <- Outcome

\* Route does what the contract promises: every answer, label and error is
\* justified by the exchanges made and by lists in force during the call,
\* whatever updates come between its lock acquisitions (router.go:78-216).
ImplementsContract == Contract!CSpec
-----------------------------------------------------------------------------
Labels(domain) ==
  {Blank} \cup {MatchingPattern(l, name) : l \in Lists, name \in domain}

ResolverNames == {Blank} \cup STRING

RouteResults ==
  [Response : Answers \cup {<<>>}, ResolverUsed : ResolverNames,
   RequestMatched : BOOLEAN, CNAMEMatched : BOOLEAN,
   MatchedPattern : Labels(Queries), CNAMEPattern : Labels(Name)]

Exchanges == [to : STRING, recursive : BOOLEAN, reply : Replies]

Logs == {l \in Seq(Exchanges) : Len(l) <= 2}

\* The variables keep the shapes that the code's types and slices give them;
\* a call makes at most two exchanges.
TypeOK ==
  /\ router \in Routers
  /\ lists \in [Matchers -> Lists]
  /\ pc \in [Requests -> PCs]
  /\ qname \in [Requests -> Queries \cup {NoQuestion}]
  /\ result \in [Requests -> RouteResults]
  /\ names \in [Requests -> SUBSET Nat]
  /\ log \in [Requests -> Logs]
  /\ window \in [Requests -> [Matchers -> SUBSET Lists]]
-----------------------------------------------------------------------------
\* Some list in force during the call misses, or matches, a name.
Missed(r, m, name) == \E l \in window[r][m] : ~ Match(l, name)
Found(r, m, name)  == \E l \in window[r][m] : Match(l, name)

\* Nothing but the question is known.
Fresh(r) == log[r] = <<>> /\ result[r] = EmptyResult

\* The question matched, and the label is the answer of some list in force.
Labelled(r) ==
  /\ qname[r] # NoQuestion /\ router.requestMatcher
  /\ Found(r, "request", qname[r])
  /\ \E l \in window[r]["request"] : result[r] = MatchedResult(l, qname[r])

\* The explicit resolver answered the probe, and nobody else was asked.
Probed(r) ==
  /\ router.explicit # Nil
  /\ \E reply \in Replies : reply.ok /\ log[r] = <<Exchange(router.explicit, reply)>>

Aliases(r) == CNAMEs(log[r][1].reply.answer)

\* All aliases before the loop's position were missed by some list in force.
Looking(r) ==
  /\ Labelled(r) /\ Probed(r) /\ router.cnameMatcher
  /\ Aliases(r) # {} /\ names[r] \subseteq Aliases(r)
  /\ \A k \in Aliases(r) \ names[r] : Missed(r, "cname", Target(r, k))

ChosenAlias(r) ==
  \E k \in Aliases(r) :
    /\ Found(r, "cname", Target(r, k))
    /\ \A j \in Aliases(r) : j < k => Missed(r, "cname", Target(r, j))
    /\ \E l1 \in window[r]["request"], l2 \in window[r]["cname"] :
         result[r] = CNAMEResult(MatchedResult(l1, qname[r]), l2, Target(r, k))

Settled(r) == Contract!Legal(router, qname[r], window[r],
                [state |-> pc[r], result |-> result[r], log |-> log[r]])

\* The list in force now is one of those in force during a running call.
InWindow(r) == \A m \in Matchers : lists[m] \in window[r][m]

StateInv(r) ==
  /\ pc[r] \notin Ended => InWindow(r)
  /\ pc[r] \in {"idle", "match", "label", "passthrough"} => Fresh(r)
  /\ pc[r] = "passthrough" => /\ qname[r] # NoQuestion
                              /\ router.requestMatcher => Missed(r, "request", qname[r])
  /\ pc[r] = "label" => /\ qname[r] # NoQuestion /\ router.requestMatcher
                        /\ Found(r, "request", qname[r])
  /\ pc[r] = "explicit" => Labelled(r) /\ router.explicit # Nil /\ log[r] = <<>>
  /\ pc[r] = "noCnameResponse" =>
       /\ Labelled(r)
       /\ \/ router.explicit = Nil /\ log[r] = <<>>
          \/ Probed(r) /\ (Aliases(r) = {} \/ ~ router.cnameMatcher)
  /\ pc[r] = "cname" => Looking(r)
  /\ pc[r] = "noCnameMatch" => Looking(r) /\ names[r] = {}
  /\ pc[r] = "labelCNAME" =>
       /\ Looking(r)
       /\ \E k \in names[r] : Current(r, k) /\ Found(r, "cname", Target(r, k))
  /\ pc[r] = "again" =>
       /\ qname[r] # NoQuestion /\ router.requestMatcher /\ router.cnameMatcher
       /\ Found(r, "request", qname[r]) /\ Probed(r) /\ ChosenAlias(r)
  /\ pc[r] \in {"answered", "failed"} => Settled(r)

\* At every control state of Route the facts that its later steps rely on
\* hold, although other goroutines update the lists in between.
Inv == \A r \in Requests : StateInv(r)
-----------------------------------------------------------------------------
\* The pattern label of an answer is blank only if some list in force during
\* the call did not match the question: reading the label after the match
\* (router.go:97, 103) costs the label only under a concurrent update.
LabelLostOnlyByUpdate ==
  \A r \in Requests :
    /\ pc[r] = "answered" /\ result[r].RequestMatched
    /\ \A l \in window[r]["request"] : Match(l, qname[r])
    => result[r].MatchedPattern # Blank

\* The CNAME verdict has a cause: CNAMEMatched is set only if some alias of
\* the probe's answer matched a list in force, and the answer then comes from
\* the explicit resolver, as does the probe (router.go:138-162).
CNAMEVerdictHasCause ==
  \A r \in Requests :
    pc[r] = "answered" /\ result[r].CNAMEMatched =>
      /\ \E k \in Aliases(r) : Found(r, "cname", Target(r, k))
      /\ \A i \in DOMAIN log[r] : log[r][i].to = router.explicit.name
      /\ result[r].ResolverUsed = router.explicit.name

\* With the lists unchanged during a call, its outcome is what the rules of
\* Route say of those lists: matched exactly if the question matches, and
\* the alias verdict exactly if some alias does (router.go:73-77).
UndisturbedCallIsExact ==
  \A r \in Requests :
    pc[r] = "answered" =>
      /\ \A l \in Lists :
           window[r]["request"] = {l} /\ router.requestMatcher =>
             (result[r].RequestMatched <=> Match(l, qname[r]))
      /\ \A l \in Lists :
           /\ window[r]["cname"] = {l} /\ router.cnameMatcher
           /\ router.explicit # Nil /\ result[r].RequestMatched
           => (result[r].CNAMEMatched <=>
                 \E k \in Aliases(r) : Match(l, Target(r, k)))

\* Every call of Route returns, with an answer or an error, however often the
\* lists change under it (router.go:138-147 loops over them).
EveryCallEnds ==
  \A r \in Requests : pc[r] = "match" ~> pc[r] \in {"answered", "failed"}
-----------------------------------------------------------------------------
\* workflow.adoc: the debug record says "CNAME_PATTERN matched" of a pattern and
\* an alias, so that some list in force during the call matches that alias
\* (dns/server.go:211-218).
DebugNamesMatchedAlias ==
  \A r \in Requests :
    pc[r] = "answered" /\ DebugCNAME(result[r]) # Blank =>
      Found(r, "cname", DebugCNAME(result[r]))
=============================================================================
