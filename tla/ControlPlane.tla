----------------------------- MODULE ControlPlane -----------------------------
(***************************************************************************)
(* The admin calls of internal/grpc/server.go that read and replace the    *)
(* pattern lists: UpdateRequestPatterns, UpdateCNAMEPatterns and GetConfig.*)
(* Each call runs in a goroutine of the gRPC server, and each takes a      *)
(* matcher's lock twice: an update to swap the list and again to read back *)
(* what it reports, GetConfig once for each matcher.                       *)
(*                                                                         *)
(* A call is made once, so Calls bounds the installs.  Lists are told      *)
(* apart by their place in installed[m], every list matcher m ever had;    *)
(* the last one is in force.  Patterns() returns a copy, so what a reply   *)
(* holds is the version read.                                              *)
(***************************************************************************)
EXTENDS Matcher, FiniteSets

CONSTANTS
  Calls,   \* the admin calls that clients make
  Updates  \* what they send: pattern lists as text

Matchers == {"request", "cname"}

Lists == {Compile(u) : u \in {v \in Updates : Compiles(v)}}

Requests == [kind : {"update"}, matcher : Matchers, inputs : Updates]
            \cup [kind : {"config"}]

VARIABLES
  configured, \* matchers that NewServer was given, the others being nil
  installed,  \* installed[m]: the lists of m so far, oldest first
  pc,         \* pc[c]: where call c is
  request,    \* request[c]: what it was asked
  success,    \* the Success of its reply
  own,        \* own[c]: the version it installed, 0 if none
  seen,       \* seen[c][m]: the version its reply shows of m, 0 if none
  inForce     \* inForce[c]: pairs of versions in force while c ran (history)

vars == <<configured, installed, pc, request, success, own, seen, inForce>>

PCs == {"waiting", "apply", "readBack", "request", "cname", "replied"}

Version(m) == Len(installed[m])

\* The pair of versions in force.
Pair(list) == [m \in Matchers |-> Len(list[m])]

Init ==
  /\ configured \in SUBSET Matchers
  /\ installed \in [Matchers -> {<<l>> : l \in Lists}]
  /\ pc = [c \in Calls |-> "waiting"]
  /\ request = [c \in Calls |-> [kind |-> "config"]]
  /\ success = [c \in Calls |-> FALSE]
  /\ own = [c \in Calls |-> 0]
  /\ seen = [c \in Calls |-> [m \in Matchers |-> 0]]
  /\ inForce = [c \in Calls |-> {}]

Running(c) == pc[c] \notin {"waiting", "replied"}

Goto(c, label) == pc' = [pc EXCEPT ![c] = label]

\* A handler is entered.  An update of a matcher that is not configured is
\* refused before anything is read.
Call(c) ==
  /\ pc[c] = "waiting"
  /\ \E q \in Requests :
       /\ request' = [request EXCEPT ![c] = q]
       /\ Goto(c, IF q.kind = "config" THEN "request"
                  ELSE IF q.matcher \in configured THEN "apply" ELSE "replied")
  /\ inForce' = [inForce EXCEPT ![c] = {Pair(installed)}]
  /\ UNCHANGED <<configured, installed, success, own, seen>>

\* Mutant of Install: the inputs before the one that is refused are kept.
InstallPartly(c, m, inputs) ==
  /\ installed' = [installed EXCEPT ![m] =
       Append(@, LET accepted(t) == TrimSpace[t] \notin Broken
                 IN  Compile(SelectSeq(inputs, accepted)))]
  /\ own' = [own EXCEPT ![c] = Version(m) + 1]
  /\ success' = [success EXCEPT ![c] = Compiles(inputs)]
  /\ inForce' = [d \in Calls |-> IF Running(d) THEN inForce[d] \cup {Pair(installed')}
                                 ELSE inForce[d]]

\* UpdatePatterns: all of the new list, or nothing and the error.
Install(c, m, inputs) ==
  IF Compiles(inputs)
  THEN /\ installed' = [installed EXCEPT ![m] = Append(@, Compile(inputs))]
       /\ own' = [own EXCEPT ![c] = Version(m) + 1]
       /\ success' = [success EXCEPT ![c] = TRUE]
       /\ inForce' = [d \in Calls |-> IF Running(d)
                                      THEN inForce[d] \cup {Pair(installed')}
                                      ELSE inForce[d]]
  ELSE UNCHANGED <<installed, own, success, inForce>>

Apply(c) ==
  /\ pc[c] = "apply"
  /\ Install(c, request[c].matcher, request[c].inputs)
  /\ Goto(c, "readBack")
  /\ UNCHANGED <<configured, request, seen>>

\* Mutant of ReadBack: the list is taken to be the one this call found.
ReadBackOld(c) ==
  /\ pc[c] = "readBack"
  /\ LET m == request[c].matcher
     IN  \E pair \in inForce[c] : seen' = [seen EXCEPT ![c][m] = pair[m]]
  /\ Goto(c, "replied")
  /\ UNCHANGED <<configured, installed, request, success, own, inForce>>

\* Both replies of an update, with and without error, read the list anew.
ReadBack(c) ==
  /\ pc[c] = "readBack"
  /\ LET m == request[c].matcher IN seen' = [seen EXCEPT ![c][m] = Version(m)]
  /\ Goto(c, "replied")
  /\ UNCHANGED <<configured, installed, request, success, own, inForce>>

\* Mutants of ReadConfig: the nil check is missing; the matchers are read in
\* the other order.
ReadConfigUnchecked(c, m) ==
  /\ pc[c] = m
  /\ seen' = [seen EXCEPT ![c][m] = Version(m)]
  /\ Goto(c, IF m = "request" THEN "cname" ELSE "replied")
  /\ UNCHANGED <<configured, installed, request, success, own, inForce>>

ReadConfigReversed(c, m) ==
  /\ pc[c] = IF m = "request" THEN "cname" ELSE "request"
  /\ seen' = [seen EXCEPT ![c][m] = IF m \in configured THEN Version(m) ELSE 0]
  /\ Goto(c, IF m = "request" THEN "replied" ELSE "cname")
  /\ UNCHANGED <<configured, installed, request, success, own, inForce>>

\* GetConfig reads the request matcher's list, then the CNAME matcher's.
ReadConfig(c, m) ==
  /\ pc[c] = m
  /\ seen' = [seen EXCEPT ![c][m] = IF m \in configured THEN Version(m) ELSE 0]
  /\ Goto(c, IF m = "request" THEN "cname" ELSE "replied")
  /\ UNCHANGED <<configured, installed, request, success, own, inForce>>

Step(c) == Apply(c) \/ ReadBack(c) \/ \E m \in Matchers : ReadConfig(c, m)

Next == \E c \in Calls : Call(c) \/ Step(c)

Spec == Init /\ [][Next]_vars
-----------------------------------------------------------------------------
\* Versions stay within the history, and a version is shown of a configured
\* matcher only.
TypeOK ==
  /\ configured \in SUBSET Matchers
  /\ installed \in [Matchers -> Seq(Lists) \ {<<>>}]
  /\ pc \in [Calls -> PCs]
  /\ request \in [Calls -> Requests]
  /\ success \in [Calls -> BOOLEAN]
  /\ own \in [Calls -> Nat]
  /\ seen \in [Calls -> [Matchers -> Nat]]
  /\ inForce \in [Calls -> SUBSET [Matchers -> Nat]]
  /\ \A c \in Calls, m \in Matchers : seen[c][m] # 0 => m \in configured

Updating(c) == request[c].kind = "update"

\* Call c put version v of matcher m in force.
Owns(c, m, v) ==
  Updating(c) /\ request[c].matcher = m /\ success[c] /\ own[c] = v

\* What call c asks for can be done.
Acceptable(c) == request[c].matcher \in configured /\ Compiles(request[c].inputs)

\* Versions a and b were in force together while c ran, or a was replaced
\* before b came.
Consistent(c, a, b) ==
  \/ [m \in Matchers |-> IF m = "request" THEN a ELSE b] \in inForce[c]
  \/ \E pair \in inForce[c] : pair["request"] > a /\ pair["cname"] < b

StateInv(c) ==
  /\ pc[c] \in {"waiting", "apply", "request", "cname"} => ~ success[c]
  /\ pc[c] \in {"apply", "readBack"} => Updating(c) /\ request[c].matcher \in configured
  /\ pc[c] \in {"request", "cname"} => ~ Updating(c)
  /\ success[c] => /\ Updating(c) /\ own[c] \in 2 .. Version(request[c].matcher)
                   /\ installed[request[c].matcher][own[c]] = Compile(request[c].inputs)
  /\ pc[c] \in {"readBack", "replied"} /\ Updating(c) => (success[c] <=> Acceptable(c))
  /\ success[c] /\ pc[c] = "replied" => own[c] <= seen[c][request[c].matcher]
  /\ Running(c) => Pair(installed) \in inForce[c]
  /\ configured = Matchers /\ pc[c] = "cname" =>
       /\ seen[c]["request"] <= Version("request")
       /\ Consistent(c, seen[c]["request"], Version("cname"))
  /\ configured = Matchers /\ pc[c] = "replied" /\ ~ Updating(c) =>
       Consistent(c, seen[c]["request"], seen[c]["cname"])

\* The inductive invariant: what each call has done so far, as far as the
\* lists show it, and whose each version is (grpc/server.go:198-259).
Inv ==
  /\ \A c \in Calls : StateInv(c)
  /\ \A m \in Matchers : \A v \in 2 .. Version(m) : \E c \in Calls : Owns(c, m, v)
  /\ \A c, d \in Calls :
       success[c] /\ success[d] /\ request[c].matcher = request[d].matcher /\ own[c] = own[d]
       => c = d

\* What the reply of a successful update shows is the caller's list or a later
\* one, never an earlier one, although other updates run between the swap and
\* the read (grpc/server.go:224-234).
ReadsOwnUpdate ==
  \A c \in Calls :
    pc[c] = "replied" /\ success[c] =>
      LET m == request[c].matcher IN own[c] > 1 /\ own[c] <= seen[c][m]

\* The lists change only as Router assumes: one configured matcher at a time,
\* to the whole of a list that compiles; refused updates, reads and replies
\* change nothing (matcher.go:98-123).
ChangesAsRouterAssumes ==
  [][ \A m \in Matchers :
        installed'[m] # installed[m] =>
          /\ m \in configured
          /\ \E u \in Updates : /\ Compiles(u)
                                /\ installed'[m] = Append(installed[m], Compile(u))
          /\ \A n \in Matchers \ {m} : installed'[n] = installed[n] ]_vars

\* Installed lists and successful updates are one to one, whatever calls run
\* side by side.  Every list but the first of a matcher is the doing of one
\* update that says so; every update that says so put a list in its matcher,
\* the whole of its own inputs; and it says so exactly if it could be done, so
\* none is lost, doubled, mixed up with another or reported wrongly
\* (grpc/server.go:214-259).
InstallsAreAcknowledged ==
  /\ \A m \in Matchers : \A v \in 2 .. Version(m) :
       Cardinality({c \in Calls : Owns(c, m, v)}) = 1
  /\ \A c \in Calls : success[c] =>
       \E m \in Matchers : \E v \in 2 .. Version(m) :
         Owns(c, m, v) /\ installed[m][v] = Compile(request[c].inputs)
  /\ \A c \in Calls : pc[c] = "replied" /\ Updating(c) => (success[c] <=> Acceptable(c))

\* A pair that GetConfig reports and that was never in force is the mark of
\* two updates during the call, one of the request list and after it one of
\* the CNAME list: the reads come in that order (grpc/server.go:204-210).
TornOnlyByTwoUpdates ==
  \A c \in Calls :
    /\ pc[c] = "replied" /\ request[c].kind = "config"
    /\ configured = Matchers /\ seen[c] \notin inForce[c]
    => \E later \in inForce[c] : /\ later["request"] > seen[c]["request"]
                                 /\ later["cname"] < seen[c]["cname"]
=============================================================================
