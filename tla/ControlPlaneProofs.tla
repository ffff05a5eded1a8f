-------------------------- MODULE ControlPlaneProofs --------------------------
(***************************************************************************)
(* Proofs about ControlPlane for any calls and any updates: the type       *)
(* invariant, the inductive invariant Inv and what follows from it, and    *)
(* that the admin calls do nothing to a call of Route but the action       *)
(* Update of Router.                                                       *)
(***************************************************************************)
EXTENDS ControlPlane, FiniteSetTheorems, TLAPS

\* The steps of an update that swaps a list: the list grows by one version.
LEMMA InstallGrows ==
  ASSUME TypeOK, NEW m \in Matchers, NEW l \in Lists,
         installed' = [installed EXCEPT ![m] = Append(@, l)]
  PROVE  /\ installed' \in [Matchers -> Seq(Lists) \ {<<>>}]
         /\ installed'[m] = Append(installed[m], l)
         /\ Len(installed'[m]) = Len(installed[m]) + 1
         /\ installed'[m][Len(installed[m]) + 1] = l
         /\ \A v \in 1 .. Len(installed[m]) : installed'[m][v] = installed[m][v]
         /\ \A n \in Matchers \ {m} : installed'[n] = installed[n]
<1> DEFINE S == Lists
<1>1. installed \in [Matchers -> Seq(S) \ {<<>>}]
  BY DEF TypeOK
<1>2. l \in S
  OBVIOUS
<1> HIDE DEF S
<1>3. installed[m] \in Seq(S) \ {<<>>}
  BY <1>1
<1>4. /\ Append(installed[m], l) \in Seq(S) \ {<<>>}
      /\ Len(Append(installed[m], l)) = Len(installed[m]) + 1
      /\ Append(installed[m], l)[Len(installed[m]) + 1] = l
      /\ \A v \in 1 .. Len(installed[m]) : Append(installed[m], l)[v] = installed[m][v]
  BY <1>2, <1>3
<1>5. installed' \in [Matchers -> Seq(S) \ {<<>>}]
  BY <1>1, <1>4
<1>6. /\ installed'[m] = Append(installed[m], l)
      /\ \A n \in Matchers \ {m} : installed'[n] = installed[n]
  BY <1>1
<1>7. QED
  BY <1>4, <1>5, <1>6 DEF S

\* Versions are positive numbers.
LEMMA ListsShape ==
  ASSUME NEW lists \in [Matchers -> Seq(Lists) \ {<<>>}]
  PROVE  /\ \A m \in Matchers : Len(lists[m]) \in Nat /\ Len(lists[m]) >= 1
         /\ Pair(lists) \in [Matchers -> Nat]
         /\ \A m \in Matchers : Pair(lists)[m] = Len(lists[m])
<1> DEFINE S == Lists
<1>1. lists \in [Matchers -> Seq(S) \ {<<>>}]
  OBVIOUS
<1> HIDE DEF S
<1>2. \A m \in Matchers : Len(lists[m]) \in Nat /\ Len(lists[m]) >= 1
  BY <1>1
<1>3. QED
  BY <1>2 DEF Pair

LEMMA VersionShape ==
  ASSUME TypeOK
  PROVE  /\ \A m \in Matchers : Version(m) \in Nat /\ Version(m) >= 1
         /\ Pair(installed) \in [Matchers -> Nat]
         /\ \A m \in Matchers : Pair(installed)[m] = Version(m)
BY ListsShape DEF TypeOK, Version
-----------------------------------------------------------------------------
\* The type invariant holds at first.
LEMMA InitTypeOK == Init => TypeOK
<1> SUFFICES ASSUME Init PROVE TypeOK
  OBVIOUS
<1>1. installed \in [Matchers -> Seq(Lists) \ {<<>>}]
  <2> DEFINE S == Lists
  <2>1. installed \in [Matchers -> {<<l>> : l \in S}]
    BY DEF Init
  <2> HIDE DEF S
  <2>2. \A l \in S : <<l>> \in Seq(S) \ {<<>>}
    OBVIOUS
  <2>3. \A t \in {<<l>> : l \in S} : t \in Seq(S) \ {<<>>}
    BY <2>2
  <2> DEFINE Singles == {<<l>> : l \in S}
             Histories == Seq(S) \ {<<>>}
  <2>4. installed \in [Matchers -> Singles] /\ \A t \in Singles : t \in Histories
    BY <2>1, <2>3
  <2> HIDE DEF Singles, Histories
  <2>5. installed \in [Matchers -> Histories]
    BY <2>4
  <2>6. QED
    BY <2>5 DEF S, Histories
<1>2. QED
  BY <1>1 DEF Init, TypeOK, PCs, Requests

\* A call that updates has a configured matcher and inputs.
LEMMA UpdateShape ==
  ASSUME TypeOK, Inv, NEW c \in Calls, pc[c] \in {"apply", "readBack"}
  PROVE  /\ Updating(c)
         /\ request[c].matcher \in Matchers \cap configured
         /\ request[c].inputs \in Updates
<1>1. Updating(c) /\ request[c].matcher \in configured
  BY DEF Inv, StateInv
<1>2. request[c] \in Requests /\ configured \subseteq Matchers
  BY DEF TypeOK
<1>3. QED
  BY <1>1, <1>2 DEF Requests, Updating

\* Every step keeps the type invariant.
LEMMA NextTypeOK == TypeOK /\ Inv /\ [Next]_vars => TypeOK'
<1> SUFFICES ASSUME TypeOK, Inv, [Next]_vars PROVE TypeOK'
  OBVIOUS
<1>1. ASSUME NEW c \in Calls, Call(c) PROVE TypeOK'
  <2>1. Pair(installed) \in [Matchers -> Nat]
    BY VersionShape
  <2>2. pc' \in [Calls -> PCs] /\ request' \in [Calls -> Requests]
    BY <1>1 DEF Call, Goto, TypeOK, PCs
  <2>3. inForce' \in [Calls -> SUBSET [Matchers -> Nat]]
    BY <1>1, <2>1 DEF Call, TypeOK
  <2>4. QED
    BY <1>1, <2>2, <2>3 DEF Call, TypeOK
<1>2. ASSUME NEW c \in Calls, Apply(c) PROVE TypeOK'
  <2> DEFINE m == request[c].matcher
             l == Compile(request[c].inputs)
  <2>1. pc' \in [Calls -> PCs]
    BY <1>2 DEF Apply, Goto, TypeOK, PCs
  <2>2. CASE ~ Compiles(request[c].inputs)
    BY <1>2, <2>1, <2>2 DEF Apply, Install, TypeOK
  <2>3. CASE Compiles(request[c].inputs)
    <3>1. m \in Matchers /\ l \in Lists
      BY <1>2, <2>3, UpdateShape DEF Apply, Lists
    <3>2. /\ installed' = [installed EXCEPT ![m] = Append(@, l)]
          /\ own' = [own EXCEPT ![c] = Version(m) + 1]
          /\ success' = [success EXCEPT ![c] = TRUE]
          /\ inForce' = [d \in Calls |-> IF Running(d)
                                         THEN inForce[d] \cup {Pair(installed')}
                                         ELSE inForce[d]]
      BY <1>2, <2>3 DEF Apply, Install
    <3> HIDE DEF m, l
    <3>3. installed' \in [Matchers -> Seq(Lists) \ {<<>>}]
      BY <3>1, <3>2, InstallGrows
    <3>4. own' \in [Calls -> Nat] /\ success' \in [Calls -> BOOLEAN]
      BY <3>1, <3>2, VersionShape DEF TypeOK
    <3>5. Pair(installed') \in [Matchers -> Nat]
      BY <3>3, ListsShape
    <3>6. inForce' \in [Calls -> SUBSET [Matchers -> Nat]]
      BY <3>2, <3>5 DEF TypeOK
    <3>7. QED
      BY <1>2, <2>1, <3>3, <3>4, <3>6 DEF Apply, TypeOK
  <2>4. QED
    BY <2>2, <2>3
<1>3. ASSUME NEW c \in Calls, ReadBack(c) PROVE TypeOK'
  <2> DEFINE m == request[c].matcher
  <2>1. m \in Matchers \cap configured
    BY <1>3, UpdateShape DEF ReadBack
  <2>2. seen' = [seen EXCEPT ![c][m] = Version(m)]
    BY <1>3 DEF ReadBack
  <2> HIDE DEF m
  <2>3. seen' \in [Calls -> [Matchers -> Nat]]
    BY <2>1, <2>2, VersionShape DEF TypeOK
  <2>4. \A d \in Calls, n \in Matchers : seen'[d][n] # 0 => n \in configured
    BY <2>1, <2>2 DEF TypeOK
  <2>5. pc' \in [Calls -> PCs]
    BY <1>3 DEF ReadBack, Goto, TypeOK, PCs
  <2>6. QED
    BY <1>3, <2>3, <2>4, <2>5 DEF ReadBack, TypeOK
<1>4. ASSUME NEW c \in Calls, NEW m \in Matchers, ReadConfig(c, m) PROVE TypeOK'
  <2>1. seen' = [seen EXCEPT ![c][m] = IF m \in configured THEN Version(m) ELSE 0]
    BY <1>4 DEF ReadConfig
  <2>2. seen' \in [Calls -> [Matchers -> Nat]]
    BY <2>1, VersionShape DEF TypeOK
  <2>3. \A d \in Calls, n \in Matchers : seen'[d][n] # 0 => n \in configured
    BY <2>1 DEF TypeOK
  <2>4. pc' \in [Calls -> PCs]
    BY <1>4 DEF ReadConfig, Goto, TypeOK, PCs
  <2>5. QED
    BY <1>4, <2>2, <2>3, <2>4 DEF ReadConfig, TypeOK
<1>5. CASE UNCHANGED vars
  BY <1>5 DEF vars, TypeOK
<1>6. QED
  BY <1>1, <1>2, <1>3, <1>4, <1>5 DEF Next, Step
-----------------------------------------------------------------------------
\* Inv holds at first: no call has run and no list was replaced.
LEMMA InitInv == Init => Inv
<1> SUFFICES ASSUME Init PROVE Inv
  OBVIOUS
<1>1. \A c \in Calls : StateInv(c)
  BY DEF Init, StateInv, Running, Updating
<1>2. \A m \in Matchers : Version(m) = 1
  <2>1. \A m \in Matchers : \E l \in Lists : installed[m] = <<l>>
    BY DEF Init
  <2>2. \A l : Len(<<l>>) = 1
    OBVIOUS
  <2>3. QED
    BY <2>1, <2>2 DEF Version
<1>3. \A c \in Calls : ~ success[c]
  BY DEF Init
<1>4. QED
  BY <1>1, <1>2, <1>3 DEF Inv

\* What a call has done and seen stays true of it in a step of another call,
\* which may give one of the matchers a new list: the call sees the new pair.
LEMMA OthersKeep ==
  ASSUME TypeOK, TypeOK', NEW d \in Calls, StateInv(d), configured' = configured,
         pc'[d] = pc[d], request'[d] = request[d], success'[d] = success[d],
         own'[d] = own[d], seen'[d] = seen[d],
         inForce[d] \subseteq inForce'[d],
         Running(d) => Pair(installed') \in inForce'[d],
         NEW m \in Matchers,
         \A n \in Matchers \ {m} : Version(n)' = Version(n),
         Version(m)' \in {Version(m), Version(m) + 1},
         \A n \in Matchers : \A v \in 1 .. Version(n) : installed'[n][v] = installed[n][v]
  PROVE  StateInv(d)'
<1>1. /\ \A n \in Matchers : Version(n) \in Nat
      /\ \A n \in Matchers : Pair(installed)[n] = Version(n)
      /\ Pair(installed) \in [Matchers -> Nat]
  BY VersionShape
<1>2. /\ \A n \in Matchers : Version(n)' \in Nat
      /\ \A n \in Matchers : Pair(installed')[n] = Version(n)'
      /\ Pair(installed') \in [Matchers -> Nat]
  BY ListsShape DEF TypeOK, Version
<1>3. \A a, b : Consistent(d, a, b) => Consistent(d, a, b)'
  BY DEF Consistent
<1>4. ASSUME configured = Matchers, pc[d] = "cname"
      PROVE  /\ seen[d]["request"] <= Version("request")'
             /\ Consistent(d, seen[d]["request"], Version("cname"))'
  <2> DEFINE a == seen[d]["request"]
             b == Version("cname")
  <2>1. a <= Version("request") /\ Consistent(d, a, b)
    BY <1>4 DEF StateInv
  <2>2. a \in Nat
    BY DEF TypeOK, Matchers
  <2>3. a <= Version("request")'
    BY <1>1, <2>1, <2>2 DEF Matchers
  <2>4. CASE Version("cname")' = b
    BY <1>3, <2>1, <2>3, <2>4 DEF Consistent
  <2>5. CASE Version("cname")' = b + 1 /\ Version("request")' = Version("request")
    <3>1. Running(d)
      BY <1>4 DEF Running
    <3>2. Pair(installed) \in inForce'[d] /\ Pair(installed') \in inForce'[d]
      BY <3>1 DEF StateInv
    <3>3. CASE a = Version("request")
      <4>1. Pair(installed') = [n \in Matchers |-> IF n = "request" THEN a ELSE Version("cname")']
        BY <1>2, <2>5, <3>3 DEF Matchers
      <4>2. QED
        BY <2>3, <3>2, <4>1 DEF Consistent
    <3>4. CASE a < Version("request")
      <4>1. Pair(installed)["request"] > a /\ Pair(installed)["cname"] < Version("cname")'
        BY <1>1, <2>2, <2>5, <3>4 DEF Matchers
      <4>2. QED
        BY <2>3, <3>2, <4>1 DEF Consistent
    <3>5. QED
      BY <1>1, <2>1, <2>2, <3>3, <3>4 DEF Matchers
  <2>6. QED
    BY <1>1, <2>4, <2>5 DEF Matchers
<1>5. ASSUME success[d]
      PROVE  /\ own[d] \in 2 .. Version(request[d].matcher)'
             /\ installed'[request[d].matcher][own[d]] = Compile(request[d].inputs)
  <2>1. request[d] \in Requests /\ Updating(d) /\ own[d] \in 2 .. Version(request[d].matcher)
    BY <1>5 DEF TypeOK, StateInv
  <2>2. request[d].matcher \in Matchers
    BY <2>1 DEF Requests, Updating
  <2>3. Version(request[d].matcher)' \in Nat
          /\ Version(request[d].matcher)' >= Version(request[d].matcher)
    BY <1>1, <1>2, <2>2
  <2>4. own[d] \in 1 .. Version(request[d].matcher)
    BY <1>1, <2>1, <2>2
  <2>5. installed'[request[d].matcher][own[d]] = installed[request[d].matcher][own[d]]
    BY <2>2, <2>4
  <2>6. QED
    BY <1>1, <1>5, <2>1, <2>2, <2>3, <2>5 DEF StateInv
<1>6. Updating(d)' = Updating(d) /\ Running(d)' = Running(d) /\ Acceptable(d)' = Acceptable(d)
  BY DEF Updating, Running, Acceptable
<1>7. QED
  BY <1>3, <1>4, <1>5, <1>6 DEF StateInv

\* A step that installs nothing keeps the ownership of versions.
LEMMA OwnersKeep ==
  ASSUME Inv, UNCHANGED installed,
         \A d \in Calls : \/ request'[d] = request[d] /\ success'[d] = success[d]
                             /\ own'[d] = own[d]
                          \/ ~ success[d] /\ ~ success'[d],
         \A d \in Calls : StateInv(d)'
  PROVE  Inv'
<1>1. \A m : Version(m)' = Version(m)
  BY DEF Version
<1>2. \A d \in Calls : \A m, v : Owns(d, m, v)' <=> Owns(d, m, v)
  BY DEF Owns, Updating
<1>3. QED
  BY <1>1, <1>2 DEF Inv

\* Every step keeps Inv.
LEMMA NextInv == TypeOK /\ TypeOK' /\ Inv /\ [Next]_vars => Inv'
<1> SUFFICES ASSUME TypeOK, TypeOK', Inv, [Next]_vars PROVE Inv'
  OBVIOUS
<1>a. /\ \A n \in Matchers : Version(n) \in Nat /\ Version(n) >= 1
      /\ \A n \in Matchers : Pair(installed)[n] = Version(n)
      /\ Pair(installed) \in [Matchers -> Nat]
  BY VersionShape
<1>b. \A c \in Calls : StateInv(c)
  BY DEF Inv
<1>1. ASSUME NEW c \in Calls, Call(c) PROVE Inv'
  <2>1. /\ ~ success[c] /\ ~ success'[c]
        /\ \A d \in Calls \ {c} : request'[d] = request[d]
        /\ UNCHANGED <<configured, installed, success, own, seen>>
    BY <1>1, <1>b DEF Call, StateInv, TypeOK
  <2>2. ASSUME NEW d \in Calls \ {c} PROVE StateInv(d)'
    <3>1. /\ pc'[d] = pc[d] /\ request'[d] = request[d] /\ inForce'[d] = inForce[d]
          /\ UNCHANGED <<configured, installed, success, own, seen>>
      BY <1>1, <2>1 DEF Call, Goto, TypeOK
    <3>2. Running(d) => Pair(installed') \in inForce'[d]
      BY <1>b, <3>1 DEF StateInv
    <3>3. /\ \A n \in Matchers : Version(n)' = Version(n)
          /\ \A n \in Matchers : \A v \in 1 .. Version(n) : installed'[n][v] = installed[n][v]
      BY <3>1 DEF Version
    <3>4. StateInv(d) /\ "request" \in Matchers
      BY <1>b DEF Matchers
    <3>5. QED
      BY <3>1, <3>2, <3>3, <3>4, OthersKeep
  <2>3. StateInv(c)'
    <3>1. PICK q \in Requests :
            /\ request'[c] = q
            /\ pc'[c] = IF q.kind = "config" THEN "request"
                        ELSE IF q.matcher \in configured THEN "apply" ELSE "replied"
      BY <1>1 DEF Call, Goto, TypeOK
    <3>2. q.kind = "config" \/ q.kind = "update"
      BY DEF Requests
    <3>3. inForce'[c] = {Pair(installed)}
      BY <1>1 DEF Call, TypeOK
    <3>4. QED
      BY <2>1, <3>1, <3>2, <3>3 DEF StateInv, Updating, Running, Acceptable
  <2>4. QED
    BY <2>1, <2>2, <2>3, OwnersKeep
<1>2. ASSUME NEW c \in Calls, Apply(c) PROVE Inv'
  <2>0. PICK m \in Matchers \cap configured : request[c].matcher = m
    BY <1>2, UpdateShape DEF Apply
  <2> DEFINE l == Compile(request[c].inputs)
  <2>1. /\ Updating(c) /\ ~ success[c]
        /\ pc[c] = "apply" /\ pc'[c] = "readBack" /\ request' = request /\ seen' = seen
        /\ configured' = configured /\ \A d \in Calls \ {c} : pc'[d] = pc[d]
    BY <1>2, <1>b, UpdateShape DEF Apply, StateInv, Goto, TypeOK
  <2>2. CASE ~ Compiles(request[c].inputs)
    <3>1. UNCHANGED <<installed, own, success, inForce>>
      BY <1>2, <2>2 DEF Apply, Install
    <3>2. ASSUME NEW d \in Calls \ {c} PROVE StateInv(d)'
      BY <1>b, <2>1, <3>1 DEF StateInv, Updating, Running, Consistent, Version, Acceptable
    <3>3. StateInv(c)'
      <4>1. Updating(c)' /\ ~ success'[c] /\ Running(c)
        BY <2>1, <3>1 DEF Updating, Running
      <4>2. Pair(installed') \in inForce'[c]
        BY <1>b, <3>1, <4>1 DEF StateInv
      <4>3. ~ Acceptable(c)'
        BY <2>1, <2>2 DEF Acceptable
      <4>4. QED
        BY <2>0, <2>1, <4>1, <4>2, <4>3 DEF StateInv
    <3>4. QED
      BY <2>1, <3>1, <3>2, <3>3, OwnersKeep
  <2>3. CASE Compiles(request[c].inputs)
    <3>1. l \in Lists
      BY <1>2, <2>3, UpdateShape DEF Apply, Lists
    <3>2. /\ installed' = [installed EXCEPT ![m] = Append(@, l)]
          /\ own' = [own EXCEPT ![c] = Version(m) + 1]
          /\ success' = [success EXCEPT ![c] = TRUE]
          /\ inForce' = [d \in Calls |-> IF Running(d)
                                         THEN inForce[d] \cup {Pair(installed')}
                                         ELSE inForce[d]]
      BY <1>2, <2>0, <2>3 DEF Apply, Install
    <3>3. request'[c].matcher = m /\ request[c].matcher = m
      BY <2>0, <2>1
    <3> HIDE DEF l
    <3>4. /\ Version(m)' = Version(m) + 1
          /\ \A n \in Matchers \ {m} : Version(n)' = Version(n)
          /\ installed'[m][Version(m) + 1] = l
          /\ \A n \in Matchers : \A v \in 1 .. Version(n) : installed'[n][v] = installed[n][v]
      BY <2>1, <3>1, <3>2, InstallGrows DEF Version
    <3>5. /\ success'[c] /\ own'[c] = Version(m) + 1
          /\ \A d \in Calls \ {c} : success'[d] = success[d] /\ own'[d] = own[d]
      BY <3>2 DEF TypeOK
    <3>6. ASSUME NEW d \in Calls \ {c} PROVE StateInv(d)'
      <4>1. /\ inForce[d] \subseteq inForce'[d]
            /\ Running(d) => Pair(installed') \in inForce'[d]
        BY <3>2
      <4>2. QED
        BY <1>b, <2>1, <3>4, <3>5, <4>1, OthersKeep
    <3>7. StateInv(c)'
      <4>1. Updating(c)' /\ Pair(installed') \in inForce'[c]
        BY <2>1, <3>2 DEF Updating, Running
      <4>2. own'[c] \in 2 .. Version(m)'
        BY <1>a, <2>1, <3>4, <3>5
      <4>3. own'[c] \in 2 .. Version(request[c].matcher)'
        BY <3>3, <4>2 DEF Version
      <4>4. installed'[request'[c].matcher][own'[c]] = Compile(request'[c].inputs)
        BY <2>1, <3>3, <3>4, <3>5 DEF l
      <4>5. Acceptable(c)' /\ success'[c]
        BY <2>0, <2>1, <2>3, <3>5 DEF Acceptable
      <4>6. QED
        BY <2>0, <2>1, <4>1, <4>3, <4>4, <4>5 DEF StateInv
    <3>8. \A d \in Calls \ {c} : \A n, v : Owns(d, n, v)' <=> Owns(d, n, v)
      BY <2>1, <3>5 DEF Owns, Updating
    <3>9. ASSUME NEW n \in Matchers, NEW v \in 2 .. Version(n)'
           PROVE  \E d \in Calls : Owns(d, n, v)'
      <4>1. CASE v \in 2 .. Version(n)
        <5>1. PICK d \in Calls : Owns(d, n, v)
          BY <4>1 DEF Inv
        <5>2. d # c
          BY <2>1, <5>1 DEF Owns
        <5>3. QED
          BY <3>8, <5>1, <5>2
      <4>2. CASE n = m /\ v = Version(m) + 1
        BY <3>5, <2>1, <3>3, <4>2 DEF Owns, Updating
      <4>3. QED
        BY <1>a, <2>1, <3>4, <4>1, <4>2
    <3>10. ASSUME NEW d \in Calls \ {c}, success'[d], request'[d].matcher = m
           PROVE  own'[d] < Version(m) + 1
      <4>1. success[d] /\ request[d].matcher = m /\ own'[d] = own[d]
        BY <2>1, <3>5, <3>10
      <4>2. own[d] \in 2 .. Version(m)
        BY <1>b, <4>1 DEF StateInv
      <4>3. QED
        BY <1>a, <2>1, <4>1, <4>2
    <3>11. ASSUME NEW d \in Calls, NEW e \in Calls, success'[d], success'[e],
                  request'[d].matcher = request'[e].matcher, own'[d] = own'[e]
           PROVE  d = e
      <4>1. CASE d # c /\ e # c
        BY <2>1, <3>5, <3>11, <4>1 DEF Inv
      <4>2. CASE d = c /\ e # c
        BY <1>a, <2>1, <3>3, <3>5, <3>10, <3>11, <4>2
      <4>3. CASE d # c /\ e = c
        BY <1>a, <2>1, <3>3, <3>5, <3>10, <3>11, <4>3
      <4>4. QED
        BY <4>1, <4>2, <4>3
    <3>12. QED
      BY <3>6, <3>7, <3>9, <3>11 DEF Inv
  <2>4. QED
    BY <2>2, <2>3
<1>3. ASSUME NEW c \in Calls, ReadBack(c) PROVE Inv'
  <2> DEFINE m == request[c].matcher
  <2>1. /\ m \in Matchers \cap configured /\ Updating(c)
        /\ pc[c] = "readBack" /\ pc'[c] = "replied"
        /\ UNCHANGED <<configured, installed, request, success, own, inForce>>
        /\ \A d \in Calls \ {c} : pc'[d] = pc[d] /\ seen'[d] = seen[d]
        /\ seen'[c][m] = Version(m)
    BY <1>3, UpdateShape DEF ReadBack, Goto, TypeOK
  <2>2. ASSUME NEW d \in Calls \ {c} PROVE StateInv(d)'
    BY <1>b, <2>1 DEF StateInv, Updating, Running, Consistent, Version, Acceptable
  <2>3. StateInv(c)'
    <3>1. /\ success[c] => own[c] \in 2 .. Version(m)
                           /\ installed[m][own[c]] = Compile(request[c].inputs)
          /\ success[c] <=> Acceptable(c)
      BY <1>b, <2>1 DEF StateInv
    <3>2. /\ Version(m)' = Version(m) /\ Updating(c)' = Updating(c)
          /\ Acceptable(c)' = Acceptable(c)
      BY <2>1 DEF Version, Updating, Acceptable
    <3>3. success'[c] => own'[c] <= seen'[c][request'[c].matcher]
      BY <1>a, <2>1, <3>1
    <3>4. QED
      BY <2>1, <3>1, <3>2, <3>3 DEF StateInv, Running
  <2>4. QED
    BY <2>1, <2>2, <2>3, OwnersKeep
<1>4. ASSUME NEW c \in Calls, NEW m \in Matchers, ReadConfig(c, m) PROVE Inv'
  <2>1. /\ pc[c] = m
        /\ pc'[c] = IF m = "request" THEN "cname" ELSE "replied"
        /\ UNCHANGED <<configured, installed, request, success, own, inForce>>
        /\ \A d \in Calls \ {c} : pc'[d] = pc[d] /\ seen'[d] = seen[d]
        /\ \A n \in Matchers \ {m} : seen'[c][n] = seen[c][n]
        /\ m \in configured => seen'[c][m] = Version(m)
    BY <1>4 DEF ReadConfig, Goto, TypeOK
  <2>2. ASSUME NEW d \in Calls \ {c} PROVE StateInv(d)'
    BY <1>b, <2>1 DEF StateInv, Updating, Running, Consistent, Version, Acceptable
  <2>3. StateInv(c)'
    <3>1. ~ success[c] /\ ~ Updating(c) /\ Running(c) /\ Pair(installed) \in inForce[c]
      BY <1>b, <2>1 DEF StateInv, Matchers, Running
    <3>2. /\ ~ success'[c] /\ ~ Updating(c)' /\ Pair(installed') \in inForce'[c]
          /\ \A n : Version(n)' = Version(n)
      BY <2>1, <3>1 DEF Updating, Version
    <3>3. CASE m = "request"
      <4>1. Pair(installed) = [n \in Matchers |-> IF n = "request" THEN Version("request")
                                                 ELSE Version("cname")]
        BY DEF Pair, Version, Matchers
      <4>2. Consistent(c, Version("request"), Version("cname"))'
        BY <2>1, <3>1, <3>2, <4>1 DEF Consistent
      <4>3. configured = Matchers =>
              /\ seen'[c]["request"] <= Version("request")'
              /\ Consistent(c, seen[c]["request"], Version("cname"))'
        <5> SUFFICES ASSUME configured = Matchers
                     PROVE  /\ seen'[c]["request"] <= Version("request")'
                            /\ Consistent(c, seen[c]["request"], Version("cname"))'
          OBVIOUS
        <5>1. seen'[c]["request"] = Version("request")'
          BY <2>1, <3>2, <3>3
        <5>2. Version("request")' \in Nat
          BY <1>a, <3>2, <3>3
        <5>3. QED
          BY <4>2, <5>1, <5>2 DEF Consistent
      <4>4. QED
        BY <2>1, <3>2, <3>3, <4>3 DEF StateInv
    <3>4. CASE m = "cname"
      <4>1. configured = Matchers =>
              /\ Consistent(c, seen[c]["request"], Version("cname"))
              /\ seen'[c]["request"] = seen[c]["request"] /\ seen'[c]["cname"] = Version("cname")
        BY <1>b, <2>1, <3>4 DEF StateInv, Matchers
      <4>2. configured = Matchers =>
              Consistent(c, seen[c]["request"], seen[c]["cname"])'
        BY <2>1, <4>1 DEF Consistent
      <4>3. QED
        BY <2>1, <3>2, <3>4, <4>2 DEF StateInv
    <3>5. QED
      BY <3>3, <3>4 DEF Matchers
  <2>4. QED
    BY <2>1, <2>2, <2>3, OwnersKeep
<1>5. CASE UNCHANGED vars
  <2>1. \A c \in Calls : StateInv(c)'
    BY <1>b, <1>5 DEF vars, StateInv, Updating, Running, Consistent, Version, Acceptable
  <2>2. QED
    BY <1>5, <2>1, OwnersKeep DEF vars
<1>6. QED
  BY <1>1, <1>2, <1>3, <1>4, <1>5 DEF Next, Step
-----------------------------------------------------------------------------
\* The types of the control plane hold in every state.
THEOREM TypeCorrect == Spec => []TypeOK
<1>1. TypeOK /\ Inv /\ [Next]_vars => TypeOK' /\ Inv'
  BY NextTypeOK, NextInv
<1>2. QED
  BY InitTypeOK, InitInv, <1>1, PTL DEF Spec

\* What each call did and saw, and whose each version is, in every state.
THEOREM InvHolds == Spec => []Inv
<1>1. TypeOK /\ Inv /\ [Next]_vars => TypeOK' /\ Inv'
  BY NextTypeOK, NextInv
<1>2. QED
  BY InitTypeOK, InitInv, <1>1, PTL DEF Spec

\* The reply to a successful update shows the list it installed or a later
\* one, whatever other calls run between the swap and the read.
THEOREM ReadsOwnUpdateTheorem == Spec => []ReadsOwnUpdate
<1>1. TypeOK /\ Inv => ReadsOwnUpdate
  <2> SUFFICES ASSUME TypeOK, Inv, NEW c \in Calls, pc[c] = "replied", success[c]
               PROVE  /\ own[c] > 1
                      /\ own[c] <= seen[c][request[c].matcher]
    BY DEF ReadsOwnUpdate
  <2>1. /\ Updating(c) /\ own[c] \in 2 .. Version(request[c].matcher)
        /\ own[c] <= seen[c][request[c].matcher]
    BY DEF Inv, StateInv
  <2>2. request[c].matcher \in Matchers
    BY <2>1 DEF TypeOK, Requests, Updating
  <2>3. QED
    BY <2>1, <2>2, VersionShape
<1>2. QED
  BY TypeCorrect, InvHolds, <1>1, PTL

\* Installed lists and successful updates are one to one, and an update
\* succeeds exactly if it could be done.
THEOREM AcknowledgedTheorem == Spec => []InstallsAreAcknowledged
<1>1. TypeOK /\ Inv => InstallsAreAcknowledged
  <2> SUFFICES ASSUME TypeOK, Inv PROVE InstallsAreAcknowledged
    OBVIOUS
  <2>1. ASSUME NEW m \in Matchers, NEW v \in 2 .. Version(m)
        PROVE  Cardinality({c \in Calls : Owns(c, m, v)}) = 1
    <3>1. PICK c \in Calls : Owns(c, m, v)
      BY DEF Inv
    <3>2. \A d \in Calls : Owns(d, m, v) => d = c
      BY <3>1 DEF Inv, Owns
    <3>3. {d \in Calls : Owns(d, m, v)} = {c}
      BY <3>1, <3>2
    <3>4. QED
      BY <3>3, FS_Singleton
  <2>2. ASSUME NEW c \in Calls, success[c]
        PROVE  \E m \in Matchers : \E v \in 2 .. Version(m) :
                 Owns(c, m, v) /\ installed[m][v] = Compile(request[c].inputs)
    <3> DEFINE m == request[c].matcher
    <3>1. /\ Updating(c) /\ own[c] \in 2 .. Version(m)
          /\ installed[m][own[c]] = Compile(request[c].inputs)
      BY <2>2 DEF Inv, StateInv
    <3>2. m \in Matchers
      BY <3>1 DEF TypeOK, Requests, Updating
    <3>3. Owns(c, m, own[c])
      BY <2>2, <3>1 DEF Owns
    <3>4. QED
      BY <3>1, <3>2, <3>3
  <2>3. \A c \in Calls : pc[c] = "replied" /\ Updating(c) => (success[c] <=> Acceptable(c))
    BY DEF Inv, StateInv
  <2>4. QED
    BY <2>1, <2>2, <2>3 DEF InstallsAreAcknowledged
<1>2. QED
  BY TypeCorrect, InvHolds, <1>1, PTL

\* A pair that GetConfig reports was in force while it ran, or the request
\* list was replaced before the CNAME list during the call.
THEOREM TornTheorem == Spec => []TornOnlyByTwoUpdates
<1>1. TypeOK /\ Inv => TornOnlyByTwoUpdates
  <2> SUFFICES ASSUME TypeOK, Inv, NEW c \in Calls,
                      pc[c] = "replied", request[c].kind = "config",
                      configured = Matchers, seen[c] \notin inForce[c]
               PROVE  \E later \in inForce[c] : /\ later["request"] > seen[c]["request"]
                                                /\ later["cname"] < seen[c]["cname"]
    BY DEF TornOnlyByTwoUpdates
  <2>1. Consistent(c, seen[c]["request"], seen[c]["cname"])
    BY DEF Inv, StateInv, Updating
  <2>2. seen[c] = [m \in Matchers |-> IF m = "request" THEN seen[c]["request"]
                                     ELSE seen[c]["cname"]]
    <3>1. seen[c] \in [Matchers -> Nat]
      BY DEF TypeOK
    <3>2. QED
      BY <3>1 DEF Matchers
  <2>3. QED
    BY <2>1, <2>2 DEF Consistent
<1>2. QED
  BY TypeCorrect, InvHolds, <1>1, PTL

\* The lists change one at a time, of a configured matcher, to a whole list
\* that compiles: what Router takes for granted of its environment.
THEOREM ChangesTheorem == Spec => ChangesAsRouterAssumes
<1> DEFINE Change ==
      \A m \in Matchers :
        installed'[m] # installed[m] =>
          /\ m \in configured
          /\ \E u \in Updates : /\ Compiles(u)
                                /\ installed'[m] = Append(installed[m], Compile(u))
          /\ \A n \in Matchers \ {m} : installed'[n] = installed[n]
<1>1. TypeOK /\ Inv /\ [Next]_vars => [Change]_vars
  <2> SUFFICES ASSUME TypeOK, Inv, [Next]_vars PROVE Change
    OBVIOUS
  <2>1. ASSUME NEW c \in Calls, Apply(c), Compiles(request[c].inputs) PROVE Change
    <3>1. PICK m \in Matchers \cap configured, u \in Updates :
            request[c].matcher = m /\ request[c].inputs = u
      BY <2>1, UpdateShape DEF Apply
    <3>2. installed' = [installed EXCEPT ![m] = Append(@, Compile(u))] /\ Compiles(u)
      BY <2>1, <3>1 DEF Apply, Install
    <3>3. Compile(u) \in Lists
      BY <3>1, <3>2 DEF Lists
    <3>4. /\ installed'[m] = Append(installed[m], Compile(u))
          /\ \A n \in Matchers \ {m} : installed'[n] = installed[n]
      BY <3>1, <3>2, <3>3, InstallGrows
    <3>5. QED
      BY <3>1, <3>2, <3>4
  <2>2. CASE UNCHANGED installed
    BY <2>2
  <2>3. ASSUME NEW c \in Calls, Apply(c), ~ Compiles(request[c].inputs)
        PROVE  UNCHANGED installed
    BY <2>3 DEF Apply, Install
  <2>4. QED
    BY <2>1, <2>2, <2>3
    DEF Next, Step, Call, ReadBack, ReadConfig, vars
<1>2. QED
  BY TypeCorrect, InvHolds, <1>1, PTL DEF Spec, ChangesAsRouterAssumes
-----------------------------------------------------------------------------
\* The control plane as a call of Route sees it that began when the program
\* did and has not read a list yet: the newest version is in force, and the
\* call's window is every version so far.  Update of Router depends on nothing
\* else, so its other parameters are arbitrary.
Newest == [m \in Matchers |-> installed[m][Len(installed[m])]]

SoFar == [m \in Matchers |-> {installed[m][v] : v \in DOMAIN installed[m]}]

Matching == [requestMatcher |-> "request" \in configured,
             cnameMatcher   |-> "cname" \in configured]

Routing == INSTANCE Router WITH
  Answers <- {}, NoQuestion <- CHOOSE q : q \notin Name,
  Queries <- {}, Configs <- {},
  Requests <- {"observer"},
  router <- Matching,
  lists <- Newest,
  window <- [r \in {"observer"} |-> SoFar],
  pc <- [r \in {"observer"} |-> "match"],
  qname <- [r \in {"observer"} |-> Blank],
  result <- [r \in {"observer"} |-> Blank],
  names <- [r \in {"observer"} |-> {}],
  log <- [r \in {"observer"} |-> <<>>]

\* Every step of every admin call is a step Update of Router, or one that a
\* call of Route cannot notice.
StepsAreUpdates == [][\E m \in Matchers : Routing!Update(m)]_(Routing!vars)

LEMMA SameCompile ==
  ASSUME NEW u
  PROVE  Routing!Compiles(u) = Compiles(u) /\ Routing!Compile(u) = Compile(u)
BY DEF Compiles, Compile, Routing!Compiles, Routing!Compile

\* Appending a list makes it the newest and adds it to those so far.
LEMMA AppendIsNewest ==
  ASSUME TypeOK, NEW m \in Matchers, NEW l \in Lists,
         installed' = [installed EXCEPT ![m] = Append(@, l)]
  PROVE  /\ Newest' = [Newest EXCEPT ![m] = l]
         /\ SoFar' = [SoFar EXCEPT ![m] = @ \cup {l}]
<1> DEFINE S == Lists
           old == installed[m]
           new == installed'[m]
<1>1. /\ new = Append(old, l)
      /\ \A n \in Matchers \ {m} : installed'[n] = installed[n]
  BY InstallGrows
<1>2. old \in Seq(S) \ {<<>>}
  BY DEF TypeOK
<1>3. l \in S
  OBVIOUS
<1> HIDE DEF S, old, new
<1>4. /\ DOMAIN old = 1 .. Len(old)
      /\ DOMAIN new = 1 .. Len(old) + 1
      /\ Len(old) \in Nat
      /\ Len(new) = Len(old) + 1
      /\ new[Len(old) + 1] = l
      /\ \A v \in 1 .. Len(old) : new[v] = old[v]
  BY <1>1, <1>2, <1>3
<1>5. {new[v] : v \in DOMAIN new} = {old[v] : v \in DOMAIN old} \cup {l}
  BY <1>4
<1>6. Newest'[m] = l
  BY <1>4 DEF Newest, new
<1>7. SoFar'[m] = SoFar[m] \cup {l}
  BY <1>5 DEF SoFar, new, old
<1>8. \A n \in Matchers \ {m} : Newest'[n] = Newest[n] /\ SoFar'[n] = SoFar[n]
  BY <1>1 DEF Newest, SoFar
<1>9. QED
  BY <1>6, <1>7, <1>8 DEF Newest, SoFar

\* The admin calls implement the environment that Router assumes: together
\* with RouterProofs, what holds of Route for any Update holds of Route beside
\* the code of grpc/server.go:198-259.
THEOREM UpdateTheorem == Spec => StepsAreUpdates
<1>1. TypeOK /\ Inv /\ [Next]_vars =>
        [\E m \in Matchers : Routing!Update(m)]_(Routing!vars)
  <2> SUFFICES ASSUME TypeOK, Inv, [Next]_vars
               PROVE  [\E m \in Matchers : Routing!Update(m)]_(Routing!vars)
    OBVIOUS
  <2>1. ASSUME NEW c \in Calls, Apply(c), Compiles(request[c].inputs)
        PROVE  \E m \in Matchers : Routing!Update(m)
    <3>1. PICK m \in Matchers \cap configured, u \in Updates :
            request[c].matcher = m /\ request[c].inputs = u
      BY <2>1, UpdateShape DEF Apply
    <3>2. /\ installed' = [installed EXCEPT ![m] = Append(@, Compile(u))]
          /\ Compiles(u)
          /\ UNCHANGED configured
      BY <2>1, <3>1 DEF Apply, Install
    <3>3. Compile(u) \in Lists
      BY <3>1, <3>2 DEF Lists
    <3>4. /\ Newest' = [Newest EXCEPT ![m] = Compile(u)]
          /\ SoFar' = [SoFar EXCEPT ![m] = @ \cup {Compile(u)}]
      BY <3>1, <3>2, <3>3, AppendIsNewest
    <3>5. IF m = "request" THEN Matching.requestMatcher ELSE Matching.cnameMatcher
      BY <3>1 DEF Matching, Matchers
    <3>6. UNCHANGED Matching
      BY <3>2 DEF Matching
    <3> DEFINE Window == [r \in {"observer"} |-> SoFar]
    <3>7. \A r \in {"observer"} :
            Window'[r] = [Window[r] EXCEPT ![m] = @ \cup {Compile(u)}]
      BY <3>4
    <3>8. Window' = [r \in {"observer"} |->
            IF [o \in {"observer"} |-> "match"][r] \in {"idle", "answered", "failed"}
            THEN Window[r] ELSE [Window[r] EXCEPT ![m] = @ \cup {Compile(u)}]]
      BY <3>7
    <3>9. \E inputs \in Updates :
            /\ Routing!Compiles(inputs)
            /\ Newest' = [Newest EXCEPT ![m] = Routing!Compile(inputs)]
            /\ Window' = [r \in {"observer"} |->
                 IF [o \in {"observer"} |-> "match"][r] \in {"idle", "answered", "failed"}
                 THEN Window[r]
                 ELSE [Window[r] EXCEPT ![m] = @ \cup {Routing!Compile(inputs)}]]
      BY <3>1, <3>2, <3>4, <3>8, SameCompile, Zenon
    <3>10. Routing!Update(m)
      BY <3>5, <3>6, <3>9, Zenon DEF Routing!Update, Routing!Ended
    <3>11. QED
      BY <3>1, <3>10
  <2>2. ASSUME UNCHANGED <<installed, configured>> PROVE UNCHANGED Routing!vars
    BY <2>2 DEF Routing!vars, Newest, SoFar, Matching
  <2>3. ASSUME NEW c \in Calls, Apply(c), ~ Compiles(request[c].inputs)
        PROVE  UNCHANGED <<installed, configured>>
    BY <2>3 DEF Apply, Install
  <2>4. QED
    BY <2>1, <2>2, <2>3
    DEF Next, Step, Call, ReadBack, ReadConfig, vars
<1>2. QED
  BY TypeCorrect, InvHolds, <1>1, PTL DEF Spec, StepsAreUpdates
=============================================================================
