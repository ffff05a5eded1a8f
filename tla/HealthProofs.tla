----------------------------- MODULE HealthProofs -----------------------------
(***************************************************************************)
(* Proofs about Health for any probes, setters and checks: the type        *)
(* invariant with the owners of the lock, that a verdict is founded, that  *)
(* a check which meets a writer stops the Checker for good, and that       *)
(* nothing else stops it.  The lock excludes writers from readers          *)
(* (LockInv); a verdict follows from what a probe has seen (ProbeInv), and *)
(* that calls go on from who waits for whom (WaitInv).                     *)
(***************************************************************************)
EXTENDS Health, TLAPS

\* A check that asks has a name.
RunsOne == \A p \in Probes : pc[p] = "asks" => running[p] \in Names

\* The lock: nobody has it and waits for it, one writer at most is announced,
\* and a handler whose check is under way reads.
LockInv ==
  /\ \A g \in mu.readers : g \notin mu.parked
  /\ \A g, h \in mu.writer : g = h
  /\ \A p \in Probes : pc[p] \in {"asks", "sets"} => p \in mu.readers

\* VerdictIsFounded for one probe.
Founded(p) ==
  /\ reply[p] = "ready" => \E c \in Moments(p) : c.ready
  /\ reply[p] = "not ready" => \E c \in Moments(p) : ~ c.ready
  /\ reply[p] \in {"healthy", "unhealthy"} =>
       \E c \in Moments(p) : Checked(p) = Registered(c)
  /\ reply[p] = "healthy" => AllPassed(p) /\ \E c \in Moments(p) : c.healthy
  /\ reply[p] = "unhealthy" /\ AllPassed(p) => \E c \in Moments(p) : ~ c.healthy

Active(p) == pc[p] \notin {"idle", "done", "aborted"}

\* What a probe under way has seen, and what one that has answered relied on.
ProbeInv(p) ==
  /\ Active(p) => checker \in Moments(p)
  /\ pc[p] # "done" => reply[p] = "none"
  /\ pc[p] \in {"again", "checks", "asks", "sets"} =>
       \E c \in Moments(p) : c.healthy = flag[p]
  /\ Founded(p)

\* The inductive invariant.
Inv == TypeOK /\ LockInv /\ RunsOne /\ \A p \in Probes : ProbeInv(p)
-----------------------------------------------------------------------------
\* TypeOK without LockOwners.
Shapes ==
  /\ mu \in RWMutexes(Goroutines)
  /\ checker \in Checkers
  /\ pc \in [Probes \cup Setters -> States]
  /\ probe \in [Probes -> {"health", "ready", "live"}]
  /\ flag \in [Probes -> BOOLEAN]
  /\ results \in [Probes -> SUBSET (Names \X BOOLEAN)]
  /\ running \in [Probes -> Names \cup {Absent}]
  /\ reply \in [Probes -> {"none", "alive", "ready", "not ready", "healthy", "unhealthy"}]
  /\ writing \in [Setters -> Writings]
  /\ seen \in [Probes -> Seq(Checkers)]

LEMMA TypeIsShapes == TypeOK <=> Shapes /\ LockOwners
BY DEF TypeOK, Shapes

\* The operations of the lock keep its shape.
LEMMA LockShape ==
  ASSUME NEW g \in Goroutines, NEW m \in RWMutexes(Goroutines)
  PROVE  /\ RLock(m, g) \in RWMutexes(Goroutines)
         /\ RUnlock(m, g) \in RWMutexes(Goroutines)
         /\ Lock(m, g) \in RWMutexes(Goroutines)
         /\ Unlock(m) \in RWMutexes(Goroutines)
BY DEF RWMutexes, RLock, RUnlock, Lock, Unlock

\* A setter leaves a Checker.
LEMMA WrittenShape ==
  ASSUME NEW c \in Checkers, NEW w \in Writings
  PROVE  Written(c, w) \in Checkers
<1>1. CASE \E b \in BOOLEAN : w = [field |-> "ready", to |-> b]
  BY <1>1 DEF Written, Checkers
<1>2. CASE \E b \in BOOLEAN : w = [field |-> "healthy", to |-> b]
  BY <1>2 DEF Written, Checkers
<1>3. CASE \E n \in Names, k \in Kinds : w = [field |-> "checks", name |-> n, to |-> k]
  <2>1. PICK n \in Names, k \in Kinds : w = [field |-> "checks", name |-> n, to |-> k]
    BY <1>3
  <2>2. Written(c, w) = [c EXCEPT !.checks[n] = k]
    BY <2>1 DEF Written
  <2>3. [c.checks EXCEPT ![n] = k] \in [Names -> Kinds \cup {Absent}]
    BY <2>1 DEF Checkers
  <2>4. QED
    BY <2>2, <2>3 DEF Checkers
<1>4. QED
  BY <1>1, <1>2, <1>3 DEF Writings

\* What a probe has seen only grows.
LEMMA MomentsGrow ==
  ASSUME NEW sigma \in Seq(Checkers), NEW c
  PROVE  /\ DOMAIN Append(sigma, c) = 1 .. Len(sigma) + 1
         /\ \A i \in DOMAIN sigma : i \in DOMAIN Append(sigma, c) /\ Append(sigma, c)[i] = sigma[i]
         /\ Append(sigma, c)[Len(sigma) + 1] = c
         /\ c \in Checkers => Append(sigma, c) \in Seq(Checkers)
OBVIOUS

LEMMA InitInv == ASSUME Init PROVE Inv
<1>1. Shapes
  <2>1. mu \in RWMutexes(Goroutines)
    BY DEF Init, Unlocked, RWMutexes
  <2>2. pc \in [Probes \cup Setters -> States]
    BY DEF Init, States
  <2>3. seen \in [Probes -> Seq(Checkers)]
    BY DEF Init
  <2>4. QED
    BY <2>1, <2>2, <2>3 DEF Init, Shapes
<1>2. LockOwners /\ LockInv /\ RunsOne
  BY DEF Init, Unlocked, LockOwners, LockInv, RunsOne
<1>3. ASSUME NEW p \in Probes PROVE ProbeInv(p)
  <2>1. pc[p] = "idle" /\ reply[p] = "none"
    BY <1>3 DEF Init
  <2>2. QED
    BY <2>1 DEF ProbeInv, Active, Founded
<1>4. QED
  BY <1>1, <1>2, <1>3, TypeIsShapes DEF Inv
-----------------------------------------------------------------------------
\* Goroutines are told apart by what they are.
LEMMA Apart ==
  /\ \A p \in Probes : p \in Goroutines /\ p \notin Setters /\ Nested(p) \in Goroutines
  /\ \A s \in Setters : s \in Goroutines /\ s \notin Probes
  /\ \A p \in Probes, q \in Probes \cup Setters : Nested(p) # q
  /\ \A p, q \in Probes : Nested(p) = Nested(q) => p = q
  /\ Absent \notin Kinds
BY HealthAssumption DEF Goroutines, Nested
-----------------------------------------------------------------------------
LEMMA ResultShape ==
  ASSUME results \in [Probes -> SUBSET (Names \X BOOLEAN)],
         NEW p \in Probes, NEW n \in Names, NEW ok \in BOOLEAN, Result(p, n, ok)
  PROVE  results' \in [Probes -> SUBSET (Names \X BOOLEAN)]
<1>1. results[p] \cup {<<n, ok>>} \in SUBSET (Names \X BOOLEAN)
  OBVIOUS
<1>2. results' = [results EXCEPT ![p] = results[p] \cup {<<n, ok>>}]
  BY DEF Result
<1>3. QED
  BY <1>1, <1>2

LEMMA ShapesNext ==
  ASSUME Shapes, RunsOne, Next
  PROVE  Shapes'
<1>1. ASSUME NEW p \in Probes, Begin(p) PROVE Shapes'
  <2>1. <<checker>> \in Seq(Checkers)
    <3>1. checker \in Checkers
      BY DEF Shapes
    <3>2. QED
      BY <3>1
  <2>2. QED
    BY <1>1, <2>1 DEF Begin, Goto, States, Shapes
<1>2. ASSUME NEW p \in Probes, Live(p) PROVE Shapes'
  BY <1>2 DEF Live, Answer, Goto, States, Ended, Shapes
<1>3. ASSUME NEW p \in Probes, AskFlag(p) PROVE Shapes'
  <2>1. mu' \in RWMutexes(Goroutines)
    BY <1>3, LockShape, Apart DEF AskFlag, Shapes
  <2>2. pc' \in [Probes \cup Setters -> States]
    BY <1>3 DEF AskFlag, Goto, States, Shapes
  <2>3. QED
    BY <1>3, <2>1, <2>2 DEF AskFlag, Shapes
<1>4. ASSUME NEW p \in Probes, ReadFlag(p) PROVE Shapes'
  <2>1. mu' \in RWMutexes(Goroutines)
    BY <1>4, LockShape, Apart DEF ReadFlag, Shapes
  <2>2. flag' \in [Probes -> BOOLEAN]
    BY <1>4 DEF ReadFlag, Shapes, Checkers
  <2>3. pc' \in [Probes \cup Setters -> States]
    <3>1. pc' = [pc EXCEPT ![p] = "done"] \/ pc' = [pc EXCEPT ![p] = "again"]
      BY <1>4 DEF ReadFlag, Answer, Goto
    <3>2. pc \in [Probes \cup Setters -> States]
      BY DEF Shapes
    <3>3. QED
      BY <3>1, <3>2 DEF States, Ended
  <2>4. reply' \in [Probes -> {"none", "alive", "ready", "not ready", "healthy", "unhealthy"}]
    BY <1>4 DEF ReadFlag, Answer, Shapes
  <2>5. QED
    BY <1>4, <2>1, <2>2, <2>3, <2>4 DEF ReadFlag, Shapes
<1>5. ASSUME NEW p \in Probes, AskChecks(p) PROVE Shapes'
  <2>1. mu' \in RWMutexes(Goroutines)
    BY <1>5, LockShape, Apart DEF AskChecks, Shapes
  <2>2. pc' \in [Probes \cup Setters -> States]
    BY <1>5 DEF AskChecks, Goto, States, Shapes
  <2>3. QED
    BY <1>5, <2>1, <2>2 DEF AskChecks, Shapes
<1>6. ASSUME NEW p \in Probes, RunPlain(p) PROVE Shapes'
  <2>1. PICK n \in Names, ok \in BOOLEAN : Result(p, n, ok)
    BY <1>6 DEF RunPlain
  <2>2. results' \in [Probes -> SUBSET (Names \X BOOLEAN)]
    <3>1. results \in [Probes -> SUBSET (Names \X BOOLEAN)]
      BY DEF Shapes
    <3>2. QED
      BY <2>1, <3>1, ResultShape
  <2>3. QED
    BY <1>6, <2>2 DEF RunPlain, Shapes
<1>7. ASSUME NEW p \in Probes, RunPanics(p) PROVE Shapes'
  <2>1. mu' \in RWMutexes(Goroutines)
    BY <1>7, LockShape, Apart DEF RunPanics, Shapes
  <2>2. pc' \in [Probes \cup Setters -> States]
    BY <1>7 DEF RunPanics, Goto, States, Ended, Shapes
  <2>3. QED
    BY <1>7, <2>1, <2>2 DEF RunPanics, Shapes
<1>8. ASSUME NEW p \in Probes, RunAsks(p) PROVE Shapes'
  <2>1. mu' \in RWMutexes(Goroutines)
    BY <1>8, LockShape, Apart DEF RunAsks, Shapes
  <2>2. pc' \in [Probes \cup Setters -> States]
    BY <1>8 DEF RunAsks, Goto, States, Shapes
  <2>3. running' \in [Probes -> Names \cup {Absent}]
    BY <1>8 DEF RunAsks, Shapes
  <2>4. QED
    BY <1>8, <2>1, <2>2, <2>3 DEF RunAsks, Shapes
<1>9. ASSUME NEW p \in Probes, AskReturns(p) PROVE Shapes'
  <2>1. mu' \in RWMutexes(Goroutines)
    BY <1>9, LockShape, Apart DEF AskReturns, Shapes
  <2>2. pc' \in [Probes \cup Setters -> States]
    BY <1>9 DEF AskReturns, Goto, States, Shapes
  <2>3. running' \in [Probes -> Names \cup {Absent}]
    BY <1>9 DEF AskReturns, Shapes
  <2>4. running[p] \in Names
    BY <1>9 DEF AskReturns, RunsOne
  <2>5. checker.ready \in BOOLEAN
    BY DEF Shapes, Checkers
  <2>6. results' \in [Probes -> SUBSET (Names \X BOOLEAN)]
    <3>1. results \in [Probes -> SUBSET (Names \X BOOLEAN)] /\ Result(p, running[p], checker.ready)
      BY <1>9 DEF AskReturns, Shapes
    <3>2. QED
      BY <2>4, <2>5, <3>1, ResultShape
  <2>7. QED
    BY <1>9, <2>1, <2>2, <2>3, <2>6 DEF AskReturns, Shapes
<1>10. ASSUME NEW p \in Probes, RunSets(p) PROVE Shapes'
  <2>1. mu' \in RWMutexes(Goroutines)
    BY <1>10, LockShape, Apart DEF RunSets, Shapes
  <2>2. pc' \in [Probes \cup Setters -> States]
    BY <1>10 DEF RunSets, Goto, States, Shapes
  <2>3. running' \in [Probes -> Names \cup {Absent}]
    BY <1>10 DEF RunSets, Shapes
  <2>4. QED
    BY <1>10, <2>1, <2>2, <2>3 DEF RunSets, Shapes
<1>11. ASSUME NEW p \in Probes, Finish(p) PROVE Shapes'
  <2>1. mu' \in RWMutexes(Goroutines)
    BY <1>11, LockShape, Apart DEF Finish, Shapes
  <2>2. pc' \in [Probes \cup Setters -> States]
    BY <1>11 DEF Finish, Answer, Goto, States, Ended, Shapes
  <2>3. reply' \in [Probes -> {"none", "alive", "ready", "not ready", "healthy", "unhealthy"}]
    BY <1>11 DEF Finish, Answer, Verdict, Shapes
  <2>4. QED
    BY <1>11, <2>1, <2>2, <2>3 DEF Finish, Shapes
<1>12. ASSUME NEW s \in Setters, AskLock(s) PROVE Shapes'
  <2>1. mu' \in RWMutexes(Goroutines)
    BY <1>12, LockShape, Apart DEF AskLock, Shapes
  <2>2. pc' \in [Probes \cup Setters -> States]
    BY <1>12 DEF AskLock, Goto, States, Shapes
  <2>3. QED
    BY <1>12, <2>1, <2>2 DEF AskLock, Shapes
<1>13. ASSUME NEW s \in Setters, Write(s) PROVE Shapes'
  <2>1. mu' \in RWMutexes(Goroutines)
    BY <1>13, LockShape, Apart DEF Write, Shapes
  <2>2. pc' \in [Probes \cup Setters -> States]
    BY <1>13 DEF Write, Goto, States, Ended, Shapes
  <2>3. checker' \in Checkers
    BY <1>13, WrittenShape DEF Write, Shapes
  <2>4. \A p \in Probes : Append(seen[p], checker') \in Seq(Checkers)
    BY <2>3, MomentsGrow DEF Shapes
  <2>5. seen' \in [Probes -> Seq(Checkers)]
    BY <1>13, <2>4 DEF Write, Shapes
  <2>6. QED
    BY <1>13, <2>1, <2>2, <2>3, <2>5 DEF Write, Shapes
<1>14. QED
  BY <1>1, <1>2, <1>3, <1>4, <1>5, <1>6, <1>7, <1>8, <1>9, <1>10, <1>11, <1>12, <1>13
     DEF Next, Probing

LEMMA RunsOneNext ==
  ASSUME Shapes, RunsOne, Next
  PROVE  RunsOne'
<1>1. pc \in [Probes \cup Setters -> States] /\ running \in [Probes -> Names \cup {Absent}]
  BY DEF Shapes
<1>2. ASSUME NEW p \in Probes, Probing(p) \/ Begin(p) PROVE RunsOne'
  <2>1. \A q \in Probes \ {p} : pc'[q] = pc[q] /\ running'[q] = running[q]
    BY <1>1, <1>2 DEF Probing, Begin, Live, AskFlag, ReadFlag, AskChecks, RunPlain, RunPanics,
       RunAsks, AskReturns, RunSets, Finish, Answer, Goto
  <2>2. pc'[p] = "asks" => running'[p] \in Names
    BY <1>1, <1>2 DEF Probing, Begin, Live, AskFlag, ReadFlag, AskChecks, RunPlain, RunPanics,
       RunAsks, AskReturns, RunSets, Finish, Answer, Goto, Due, RunsOne
  <2>3. QED
    BY <2>1, <2>2 DEF RunsOne
<1>3. ASSUME NEW s \in Setters, AskLock(s) \/ Write(s) PROVE RunsOne'
  BY <1>1, <1>3, Apart DEF AskLock, Write, Goto, RunsOne
<1>4. QED
  BY <1>2, <1>3 DEF Next
-----------------------------------------------------------------------------
\* Who has the lock, for one probe.
OwnedBy(p) ==
  /\ p \in mu.readers => pc[p] \in {"flag", "checks", "asks", "sets"}
  /\ p \in mu.parked => pc[p] \in {"flag", "checks"}
  /\ Nested(p) \in mu.readers \cup mu.parked => pc[p] = "asks"
  /\ Nested(p) \in mu.writer => pc[p] = "sets"
  /\ pc[p] \in {"asks", "sets"} => p \in mu.readers

Lone ==
  /\ \A g \in mu.readers : g \notin mu.parked
  /\ \A g, h \in mu.writer : g = h

SetterOwns(s) == s \in mu.writer <=> pc[s] = "lock"

LockFacts == Lone /\ (\A p \in Probes : OwnedBy(p)) /\ (\A s \in Setters : SetterOwns(s))

LEMMA LockParts == LockOwners /\ LockInv <=> LockFacts
BY DEF LockOwners, LockInv, LockFacts, OwnedBy, Lone, SetterOwns

\* What the operations of the lock do to its fields.
LEMMA LockFields ==
  ASSUME NEW m \in RWMutexes(Goroutines), NEW g \in Goroutines
  PROVE  /\ m.writer = {} => /\ RLock(m, g).readers = m.readers \cup {g}
                             /\ RLock(m, g).parked = m.parked
         /\ m.writer # {} => /\ RLock(m, g).readers = m.readers
                             /\ RLock(m, g).parked = m.parked \cup {g}
         /\ RLock(m, g).writer = m.writer
         /\ RUnlock(m, g).readers = m.readers \ {g}
         /\ RUnlock(m, g).parked = m.parked /\ RUnlock(m, g).writer = m.writer
         /\ Lock(m, g).readers = m.readers /\ Lock(m, g).parked = m.parked
         /\ Lock(m, g).writer = {g}
         /\ Unlock(m).readers = m.parked /\ Unlock(m).parked = {} /\ Unlock(m).writer = {}
BY DEF RWMutexes, RLock, RUnlock, Lock, Unlock

LEMMA LockNext ==
  ASSUME Shapes, LockFacts, Next
  PROVE  LockFacts'
<1> USE Apart
<1>m. mu \in RWMutexes(Goroutines)
  BY DEF Shapes
<1>p. pc \in [Probes \cup Setters -> States]
  BY DEF Shapes
<1>1. ASSUME NEW p \in Probes, Begin(p) \/ Live(p) PROVE LockFacts'
  <2>1. /\ mu' = mu /\ pc[p] \in {"idle", "enter"} /\ pc'[p] \in {"enter", "done"}
        /\ \A g \in (Probes \cup Setters) \ {p} : pc'[g] = pc[g]
    BY <1>1, <1>p DEF Begin, Live, Answer, Goto
  <2>2. QED
    BY <2>1 DEF LockFacts, OwnedBy, Lone, SetterOwns
<1>2. ASSUME NEW p \in Probes, AskFlag(p) \/ AskChecks(p) PROVE LockFacts'
  <2>1. /\ mu' = RLock(mu, p) /\ pc[p] \in {"enter", "again"} /\ pc'[p] \in {"flag", "checks"}
        /\ \A g \in (Probes \cup Setters) \ {p} : pc'[g] = pc[g]
    BY <1>2, <1>p DEF AskFlag, AskChecks, Goto
  <2>2. Lone'
    BY <2>1, <1>m, LockFields DEF LockFacts, OwnedBy, Lone
  <2>3. ASSUME NEW q \in Probes PROVE OwnedBy(q)'
    BY <2>1, <1>m, LockFields DEF LockFacts, OwnedBy
  <2>4. ASSUME NEW s \in Setters PROVE SetterOwns(s)'
    BY <2>1, <1>m, LockFields DEF LockFacts, SetterOwns
  <2>5. QED
    BY <2>2, <2>3, <2>4 DEF LockFacts
<1>3. ASSUME NEW p \in Probes, ReadFlag(p) \/ RunPanics(p) \/ Finish(p) PROVE LockFacts'
  <2>1. /\ mu' = RUnlock(mu, p) /\ p \in mu.readers /\ pc[p] \in {"flag", "checks"}
        /\ pc'[p] \in {"done", "again", "aborted"}
        /\ \A g \in (Probes \cup Setters) \ {p} : pc'[g] = pc[g]
    BY <1>3, <1>p DEF ReadFlag, RunPanics, Finish, Answer, Goto, Due, Reads
  <2>2. Lone'
    BY <2>1, <1>m, LockFields DEF LockFacts, Lone
  <2>3. ASSUME NEW q \in Probes PROVE OwnedBy(q)'
    BY <2>1, <1>m, LockFields DEF LockFacts, OwnedBy, Lone
  <2>4. ASSUME NEW s \in Setters PROVE SetterOwns(s)'
    BY <2>1, <1>m, LockFields DEF LockFacts, SetterOwns
  <2>5. QED
    BY <2>2, <2>3, <2>4 DEF LockFacts
<1>4. ASSUME NEW p \in Probes, RunPlain(p) PROVE LockFacts'
  BY <1>4 DEF RunPlain, LockFacts, OwnedBy, Lone, SetterOwns
<1>5. ASSUME NEW p \in Probes, RunAsks(p) PROVE LockFacts'
  <2>1. /\ mu' = RLock(mu, Nested(p)) /\ p \in mu.readers /\ pc[p] = "checks"
        /\ pc'[p] = "asks" /\ \A g \in (Probes \cup Setters) \ {p} : pc'[g] = pc[g]
    BY <1>5, <1>p DEF RunAsks, Goto, Due, Reads
  <2>2. Lone'
    BY <2>1, <1>m, LockFields DEF LockFacts, OwnedBy, Lone
  <2>3. ASSUME NEW q \in Probes PROVE OwnedBy(q)'
    BY <2>1, <1>m, LockFields DEF LockFacts, OwnedBy, Lone
  <2>4. ASSUME NEW s \in Setters PROVE SetterOwns(s)'
    BY <2>1, <1>m, LockFields DEF LockFacts, SetterOwns
  <2>5. QED
    BY <2>2, <2>3, <2>4 DEF LockFacts
<1>6. ASSUME NEW p \in Probes, AskReturns(p) PROVE LockFacts'
  <2>1. /\ mu' = RUnlock(mu, Nested(p)) /\ Nested(p) \in mu.readers /\ pc[p] = "asks"
        /\ pc'[p] = "checks" /\ \A g \in (Probes \cup Setters) \ {p} : pc'[g] = pc[g]
    BY <1>6, <1>p DEF AskReturns, Goto, Reads
  <2>2. Lone'
    BY <2>1, <1>m, LockFields DEF LockFacts, Lone
  <2>3. ASSUME NEW q \in Probes PROVE OwnedBy(q)'
    BY <2>1, <1>m, LockFields DEF LockFacts, OwnedBy, Lone
  <2>4. ASSUME NEW s \in Setters PROVE SetterOwns(s)'
    BY <2>1, <1>m, LockFields DEF LockFacts, SetterOwns
  <2>5. QED
    BY <2>2, <2>3, <2>4 DEF LockFacts
<1>7. ASSUME NEW p \in Probes, RunSets(p) PROVE LockFacts'
  <2>1. /\ mu' = IF mu.writer = {} THEN Lock(mu, Nested(p)) ELSE mu
        /\ p \in mu.readers /\ pc[p] = "checks"
        /\ pc'[p] = "sets" /\ \A g \in (Probes \cup Setters) \ {p} : pc'[g] = pc[g]
    BY <1>7, <1>p DEF RunSets, MayLock, Goto, Due, Reads
  <2>2. Lone'
    BY <2>1, <1>m, LockFields DEF LockFacts, Lone
  <2>3. ASSUME NEW q \in Probes PROVE OwnedBy(q)'
    BY <2>1, <1>m, LockFields DEF LockFacts, OwnedBy, Lone
  <2>4. ASSUME NEW s \in Setters PROVE SetterOwns(s)'
    BY <2>1, <1>m, LockFields DEF LockFacts, SetterOwns
  <2>5. QED
    BY <2>2, <2>3, <2>4 DEF LockFacts
<1>8. ASSUME NEW s \in Setters, AskLock(s) PROVE LockFacts'
  <2>1. /\ mu' = Lock(mu, s) /\ mu.writer = {} /\ pc'[s] = "lock"
        /\ \A g \in (Probes \cup Setters) \ {s} : pc'[g] = pc[g]
    BY <1>8, <1>p DEF AskLock, MayLock, Goto
  <2>2. Lone'
    BY <2>1, <1>m, LockFields DEF LockFacts, Lone
  <2>3. ASSUME NEW q \in Probes PROVE OwnedBy(q)'
    BY <2>1, <1>m, LockFields DEF LockFacts, OwnedBy
  <2>4. ASSUME NEW t \in Setters PROVE SetterOwns(t)'
    BY <2>1, <1>m, LockFields DEF LockFacts, SetterOwns
  <2>5. QED
    BY <2>2, <2>3, <2>4 DEF LockFacts
<1>9. ASSUME NEW s \in Setters, Write(s) PROVE LockFacts'
  <2>1. /\ mu' = Unlock(mu) /\ s \in mu.writer /\ mu.readers = {} /\ pc'[s] = "done"
        /\ \A g \in (Probes \cup Setters) \ {s} : pc'[g] = pc[g]
    BY <1>9, <1>p DEF Write, Writes, Goto
  <2>2. Lone'
    BY <2>1, <1>m, LockFields DEF LockFacts, Lone
  <2>3. ASSUME NEW q \in Probes PROVE OwnedBy(q)'
    BY <2>1, <1>m, LockFields DEF LockFacts, OwnedBy
  <2>4. ASSUME NEW t \in Setters PROVE SetterOwns(t)'
    BY <2>1, <1>m, LockFields DEF LockFacts, SetterOwns, Lone
  <2>5. QED
    BY <2>2, <2>3, <2>4 DEF LockFacts
<1>10. QED
  BY <1>1, <1>2, <1>3, <1>4, <1>5, <1>6, <1>7, <1>8, <1>9 DEF Next, Probing
-----------------------------------------------------------------------------
\* A probe that nothing happens to keeps what it relies on.
Keeps(p) ==
  /\ pc'[p] = pc[p] /\ flag'[p] = flag[p] /\ results'[p] = results[p]
  /\ reply'[p] = reply[p] /\ seen'[p] = seen[p]

LEMMA ProbeFrame ==
  ASSUME NEW p \in Probes, ProbeInv(p), Keeps(p), checker' = checker
  PROVE  ProbeInv(p)'
<1>1. Moments(p)' = Moments(p) /\ Checked(p)' = Checked(p) /\ (AllPassed(p)' <=> AllPassed(p))
  BY DEF Keeps, Moments, Checked, AllPassed
<1>2. (Active(p)' <=> Active(p)) /\ pc'[p] = pc[p] /\ reply'[p] = reply[p] /\ flag'[p] = flag[p]
  BY DEF Keeps, Active
<1>3. Founded(p)'
  BY <1>1, <1>2 DEF ProbeInv, Founded, Registered
<1>4. QED
  BY <1>1, <1>2, <1>3 DEF ProbeInv

\* A write shows every probe under way the new state, and changes nothing else
\* that a probe relies on.
LEMMA ProbeWrite ==
  ASSUME Shapes, NEW s \in Setters, Write(s), NEW p \in Probes, ProbeInv(p)
  PROVE  ProbeInv(p)'
<1>1. pc'[p] = pc[p] /\ flag'[p] = flag[p] /\ results'[p] = results[p] /\ reply'[p] = reply[p]
  BY Apart DEF Write, Goto, Shapes
<1>2. CASE Active(p)
  <2>1. seen'[p] = Append(seen[p], checker')
    BY <1>2 DEF Write, Active, Ended
  <2>2. seen[p] \in Seq(Checkers)
    BY DEF Shapes
  <2>3. \A c \in Moments(p) : c \in Moments(p)'
    BY <2>1, <2>2, MomentsGrow DEF Moments
  <2>4. checker' \in Moments(p)'
    <3>1. Len(seen[p]) + 1 \in DOMAIN seen'[p] /\ seen'[p][Len(seen[p]) + 1] = checker'
      BY <2>1, <2>2, MomentsGrow
    <3>2. QED
      BY <3>1 DEF Moments
  <2>5. QED
    BY <1>1, <2>3, <2>4 DEF ProbeInv, Active, Founded, Checked, AllPassed, Registered
<1>3. CASE ~ Active(p)
  <2>1. seen'[p] = seen[p]
    BY <1>3 DEF Write, Active, Ended
  <2>2. Moments(p)' = Moments(p)
    BY <2>1 DEF Moments
  <2>3. QED
    BY <1>1, <1>3, <2>2 DEF ProbeInv, Active, Founded, Checked, AllPassed, Registered
<1>4. QED
  BY <1>2, <1>3

\* A step of a probe's own.
LEMMA ProbeStep ==
  ASSUME Shapes, NEW p \in Probes, ProbeInv(p), Begin(p) \/ Probing(p)
  PROVE  ProbeInv(p)'
<1>t. /\ pc \in [Probes \cup Setters -> States] /\ flag \in [Probes -> BOOLEAN]
      /\ reply \in [Probes -> {"none", "alive", "ready", "not ready", "healthy", "unhealthy"}]
      /\ seen \in [Probes -> Seq(Checkers)] /\ checker \in Checkers
      /\ results \in [Probes -> SUBSET (Names \X BOOLEAN)]
  BY DEF Shapes
<1>1. CASE Begin(p)
  <2>1. seen'[p] = <<checker>> /\ checker' = checker /\ pc'[p] = "enter" /\ reply'[p] = "none"
    BY <1>1, <1>t DEF Begin, Goto, ProbeInv
  <2>2. checker' \in Moments(p)'
    BY <2>1 DEF Moments
  <2>3. QED
    BY <2>1, <2>2 DEF ProbeInv, Founded
<1>2. CASE Live(p)
  <2>1. pc'[p] = "done" /\ reply'[p] = "alive"
    BY <1>2, <1>t DEF Live, Answer, Goto
  <2>2. QED
    BY <2>1 DEF ProbeInv, Active, Founded
<1>3. CASE AskFlag(p)
  <2>1. /\ pc[p] = "enter" /\ pc'[p] = "flag" /\ reply' = reply
        /\ seen' = seen /\ checker' = checker
    BY <1>3, <1>t DEF AskFlag, Goto
  <2>2. QED
    BY <2>1 DEF ProbeInv, Active, Founded, Moments
<1>4. CASE ReadFlag(p)
  <2>1. pc[p] = "flag" /\ seen' = seen /\ checker' = checker
        /\ checker \in Moments(p) /\ reply[p] = "none"
    BY <1>4 DEF ReadFlag, ProbeInv, Active
  <2>2. Moments(p)' = Moments(p)
    BY <2>1 DEF Moments
  <2>3. CASE probe[p] = "ready"
    <3>1. /\ pc'[p] = "done" /\ reply'[p] = IF checker.ready THEN "ready" ELSE "not ready"
      BY <1>4, <1>t, <2>3 DEF ReadFlag, Answer, Goto
    <3>2. QED
      BY <2>1, <2>2, <3>1 DEF ProbeInv, Active, Founded
  <2>4. CASE probe[p] # "ready"
    <3>1. pc'[p] = "again" /\ reply' = reply /\ flag'[p] = checker.healthy
      BY <1>4, <1>t, <2>4 DEF ReadFlag, Goto
    <3>2. QED
      BY <2>1, <2>2, <3>1 DEF ProbeInv, Active, Founded
  <2>5. QED
    BY <2>3, <2>4
<1>5. CASE AskChecks(p)
  <2>1. /\ pc[p] = "again" /\ pc'[p] = "checks" /\ reply' = reply
        /\ seen' = seen /\ checker' = checker /\ flag' = flag
    BY <1>5, <1>t DEF AskChecks, Goto
  <2>2. QED
    BY <2>1 DEF ProbeInv, Active, Founded, Moments
<1>6. CASE RunPlain(p)
  <2>1. /\ pc[p] = "checks" /\ pc' = pc /\ reply' = reply
        /\ seen' = seen /\ checker' = checker /\ flag' = flag
    BY <1>6 DEF RunPlain, Due
  <2>2. QED
    BY <2>1 DEF ProbeInv, Active, Founded, Moments
<1>7. CASE RunPanics(p)
  <2>1. pc[p] = "checks" /\ pc'[p] = "aborted" /\ reply' = reply
    BY <1>7, <1>t DEF RunPanics, Due, Goto
  <2>2. QED
    BY <2>1 DEF ProbeInv, Active, Founded
<1>8. CASE RunAsks(p) \/ RunSets(p)
  <2>1. /\ pc[p] = "checks" /\ pc'[p] \in {"asks", "sets"} /\ reply' = reply
        /\ seen' = seen /\ checker' = checker /\ flag' = flag
    BY <1>8, <1>t DEF RunAsks, RunSets, Due, Goto
  <2>2. QED
    BY <2>1 DEF ProbeInv, Active, Founded, Moments
<1>9. CASE AskReturns(p)
  <2>1. /\ pc[p] = "asks" /\ pc'[p] = "checks" /\ reply' = reply
        /\ seen' = seen /\ checker' = checker /\ flag' = flag
    BY <1>9, <1>t DEF AskReturns, Goto
  <2>2. QED
    BY <2>1 DEF ProbeInv, Active, Founded, Moments
<1>10. CASE Finish(p)
  <2>1. /\ pc[p] = "checks" /\ pc'[p] = "done" /\ Checked(p) = Registered(checker)
        /\ reply'[p] = IF flag[p] /\ AllPassed(p) THEN "healthy" ELSE "unhealthy"
        /\ seen' = seen /\ results' = results
    BY <1>10, <1>t DEF Finish, Answer, Goto, Verdict
  <2>2. Moments(p)' = Moments(p) /\ Checked(p)' = Checked(p) /\ (AllPassed(p)' <=> AllPassed(p))
    BY <2>1 DEF Moments, Checked, AllPassed
  <2>3. checker \in Moments(p)
    BY <2>1 DEF ProbeInv, Active
  <2>4. PICK c \in Moments(p) : c.healthy = flag[p]
    BY <2>1 DEF ProbeInv
  <2>5. QED
    BY <2>1, <2>2, <2>3, <2>4, <1>t DEF ProbeInv, Active, Founded
<1>11. QED
  BY <1>1, <1>2, <1>3, <1>4, <1>5, <1>6, <1>7, <1>8, <1>9, <1>10 DEF Probing

LEMMA ProbeNext ==
  ASSUME Shapes, Next, \A p \in Probes : ProbeInv(p)
  PROVE  \A p \in Probes : ProbeInv(p)'
<1> SUFFICES ASSUME NEW q \in Probes PROVE ProbeInv(q)'
  OBVIOUS
<1>1. ASSUME NEW p \in Probes, Begin(p) \/ Probing(p) PROVE ProbeInv(q)'
  <2>1. CASE p = q
    BY <1>1, <2>1, ProbeStep
  <2>2. CASE p # q
    <3>1. checker' = checker
      BY <1>1 DEF Probing, Begin, Live, AskFlag, ReadFlag, AskChecks, RunPlain, RunPanics,
         RunAsks, AskReturns, RunSets, Finish
    <3>2. pc'[q] = pc[q]
      BY <1>1, <2>2 DEF Probing, Begin, Live, AskFlag, ReadFlag, AskChecks, RunPlain, RunPanics,
         RunAsks, AskReturns, RunSets, Finish, Answer, Goto, Shapes
    <3>3. flag'[q] = flag[q] /\ seen'[q] = seen[q]
      BY <1>1, <2>2 DEF Probing, Begin, Live, AskFlag, ReadFlag, AskChecks, RunPlain, RunPanics,
         RunAsks, AskReturns, RunSets, Finish, Shapes
    <3>4. reply'[q] = reply[q] /\ results'[q] = results[q]
      BY <1>1, <2>2 DEF Probing, Begin, Live, AskFlag, ReadFlag, AskChecks, RunPlain, RunPanics,
         RunAsks, AskReturns, RunSets, Finish, Answer, Result, Shapes
    <3>5. QED
      BY <3>1, <3>2, <3>3, <3>4, ProbeFrame DEF Keeps
  <2>3. QED
    BY <2>1, <2>2
<1>2. ASSUME NEW s \in Setters, AskLock(s) PROVE ProbeInv(q)'
  <2>1. Keeps(q) /\ checker' = checker
    <3>1. s # q /\ pc \in [Probes \cup Setters -> States]
      BY Apart DEF Shapes
    <3>2. pc'[q] = pc[q]
      BY <1>2, <3>1 DEF AskLock, Goto
    <3>3. QED
      BY <1>2, <3>2 DEF AskLock, Keeps
  <2>2. QED
    BY <2>1, ProbeFrame
<1>3. ASSUME NEW s \in Setters, Write(s) PROVE ProbeInv(q)'
  BY <1>3, ProbeWrite
<1>4. QED
  BY <1>1, <1>2, <1>3 DEF Next
-----------------------------------------------------------------------------
LEMMA StutterInv == ASSUME Inv, UNCHANGED vars PROVE Inv'
<1>1. Shapes' /\ LockFacts' /\ RunsOne'
  BY TypeIsShapes, LockParts DEF Inv, vars, Shapes, LockFacts, Lone, OwnedBy, SetterOwns, RunsOne
<1>2. ASSUME NEW p \in Probes PROVE ProbeInv(p)'
  <2>1. Keeps(p) /\ checker' = checker
    BY DEF vars, Keeps
  <2>2. QED
    BY <2>1, ProbeFrame DEF Inv
<1>3. (LockOwners /\ LockInv)' /\ TypeOK'
  <2>1. (LockOwners /\ LockInv)'
    BY <1>1 DEF LockOwners, LockInv, LockFacts, OwnedBy, Lone, SetterOwns
  <2>2. QED
    BY <1>1, <2>1 DEF TypeOK, Shapes
<1>4. QED
  BY <1>1, <1>2, <1>3 DEF Inv

LEMMA NextInv == ASSUME Inv, Next PROVE Inv'
<1>1. Shapes /\ LockFacts /\ RunsOne /\ \A p \in Probes : ProbeInv(p)
  BY TypeIsShapes, LockParts DEF Inv
<1>2. Shapes' /\ LockFacts' /\ RunsOne'
  BY <1>1, ShapesNext, LockNext, RunsOneNext
<1>3. \A p \in Probes : ProbeInv(p)'
  BY <1>1, ProbeNext
<1>4. (LockOwners /\ LockInv)'
  BY <1>2 DEF LockOwners, LockInv, LockFacts, OwnedBy, Lone, SetterOwns
<1>5. TypeOK'
  BY <1>2, <1>4 DEF TypeOK, Shapes
<1>6. QED
  BY <1>2, <1>3, <1>4, <1>5 DEF Inv

\* The inductive invariant holds throughout, with any probes, setters, names
\* of checks, and checks of every kind.
THEOREM InvHolds == Safe => []Inv
<1>1. Init => Inv
  BY InitInv
<1>2. Inv /\ [Next]_vars => Inv'
  BY NextInv, StutterInv
<1>3. QED
  BY <1>1, <1>2, PTL DEF Safe

\* The variables keep their shapes, and whoever has the lock or waits for it
\* is a call that will let go of it: a handler that panicked has (health.go:78).
THEOREM TypeCorrect == Spec => []TypeOK
<1>1. Inv => TypeOK
  BY DEF Inv
<1>2. QED
  BY <1>1, InvHolds, PTL DEF Spec

\* A verdict is that of the flag at a moment of the call and of all checks
\* registered at a moment of it, however many flags and checks are set
\* between the two times HealthHandler takes the lock (health.go:91-107).
THEOREM VerdictTheorem == Spec => []VerdictIsFounded
<1>1. Inv => VerdictIsFounded
  BY DEF Inv, ProbeInv, Founded, VerdictIsFounded
<1>2. QED
  BY <1>1, InvHolds, PTL DEF Spec

\* A handler whose check has met a writer keeps its read lock for good.
LEMMA ClashStays == ASSUME Inv, Next, Clash PROVE Clash'
<1>m. mu \in RWMutexes(Goroutines) /\ pc \in [Probes \cup Setters -> States]
  BY DEF Inv, TypeOK
<1>1. PICK p \in Probes : pc[p] = "sets" \/ (pc[p] = "asks" /\ ~ Reads(mu, Nested(p)))
  BY DEF Clash
<1>2. p \in mu.readers
  BY <1>1 DEF Inv, LockInv
<1>3. ASSUME NEW q \in Probes, Begin(q) \/ Probing(q)
      PROVE  pc'[p] = pc[p] /\ (pc[p] = "asks" => Nested(p) \notin mu'.readers)
  <2>1. p # q
    BY <1>1, <1>3 DEF Begin, Probing, Live, AskFlag, ReadFlag, AskChecks, RunPlain, RunPanics,
       RunAsks, AskReturns, RunSets, Finish, Due
  <2>2. pc'[p] = pc[p]
    BY <1>m, <1>3, <2>1 DEF Begin, Probing, Live, AskFlag, ReadFlag, AskChecks, RunPlain, RunPanics,
       RunAsks, AskReturns, RunSets, Finish, Answer, Goto
  <2>3. \/ mu' = mu
        \/ \E g \in {q, Nested(q)} : \/ mu' = RLock(mu, g) \/ mu' = RUnlock(mu, g)
                                     \/ mu' = Lock(mu, g)
    BY <1>3 DEF Begin, Probing, Live, AskFlag, ReadFlag, AskChecks, RunPlain, RunPanics,
       RunAsks, AskReturns, RunSets, Finish
  <2>4. ASSUME NEW g \in Goroutines, g # Nested(p), Nested(p) \notin mu.readers,
               mu' = RLock(mu, g) \/ mu' = RUnlock(mu, g) \/ mu' = Lock(mu, g)
        PROVE  Nested(p) \notin mu'.readers
    BY <1>m, <2>4, LockFields
  <2>5. \A g \in {q, Nested(q)} : g \in Goroutines /\ g # Nested(p)
    BY <2>1, Apart
  <2>6. pc[p] = "asks" => Nested(p) \notin mu'.readers
    BY <1>1, <2>3, <2>4, <2>5 DEF Reads
  <2>7. QED
    BY <2>2, <2>6
<1>4. ASSUME NEW s \in Setters, AskLock(s)
      PROVE  pc'[p] = pc[p] /\ mu'.readers = mu.readers
  BY <1>m, <1>4, Apart, LockFields DEF AskLock, Goto
<1>5. ASSUME NEW s \in Setters, Write(s) PROVE FALSE
  BY <1>2, <1>5 DEF Write, Writes
<1>6. QED
  BY <1>1, <1>3, <1>4, <1>5 DEF Next, Clash, Reads

\* A check that meets a writer, because it sets a flag or asks for one while
\* a writer waits, stops the Checker for good (health.go:78).
THEOREM ClashTheorem == Spec => ClashIsForever
<1>1. Inv /\ [Next]_vars => (Clash => Clash')
  <2>1. ASSUME UNCHANGED vars, Clash PROVE Clash'
    BY <2>1 DEF vars, Clash
  <2>2. QED
    BY <2>1, ClashStays
<1>2. Inv /\ [Next]_vars => [Clash => Clash']_vars
  BY <1>1
<1>3. QED
  BY <1>2, InvHolds, PTL DEF Spec, Safe, ClashIsForever
-----------------------------------------------------------------------------
(***************************************************************************)
(* That the Checker does not stop: the part of EveryCallReturns which a    *)
(* safety proof reaches.  Somebody may always take a step (Unblocked), and *)
(* every step of a handler brings its answer nearer (StepsLeadOn); that    *)
(* whoever may take a step takes it is the fairness of Spec.               *)
(***************************************************************************)

\* What a handler that waits, or whose check is under way, relies on.
Waits(p) ==
  /\ pc[p] # "lock"
  /\ pc[p] \in {"flag", "checks"} => p \in mu.readers \cup mu.parked
  /\ pc[p] = "asks" => Nested(p) \in mu.readers \cup mu.parked
  /\ pc[p] \in {"idle", "enter", "flag", "again"} => results[p] = {}
  /\ pc[p] \in {"checks", "asks"} => Checked(p) \subseteq Registered(checker)
  /\ pc[p] = "asks" => running[p] \in Registered(checker) \ Checked(p)

\* A reader is parked behind a writer; setters do not read, and handlers
\* themselves do not write.
QueueShape(m) ==
  /\ m.parked # {} => m.writer # {}
  /\ m.readers \cup m.parked \subseteq Probes \cup {Nested(p) : p \in Probes}
  /\ m.writer \subseteq Setters \cup {Nested(p) : p \in Probes}

WaitInv == QueueShape(mu) /\ \A p \in Probes : Waits(p)

LEMMA QueueStep ==
  ASSUME NEW m \in RWMutexes(Goroutines), QueueShape(m)
  PROVE  /\ \A g \in Probes \cup {Nested(p) : p \in Probes} :
              QueueShape(RLock(m, g)) /\ QueueShape(RUnlock(m, g))
         /\ \A g \in Setters \cup {Nested(p) : p \in Probes} : QueueShape(Lock(m, g))
         /\ QueueShape(Unlock(m))
<1>1. ASSUME NEW g \in Probes \cup {Nested(p) : p \in Probes}
      PROVE  QueueShape(RLock(m, g)) /\ QueueShape(RUnlock(m, g))
  <2>1. g \in Goroutines
    BY DEF Goroutines
  <2>2. QED
    BY <2>1, LockFields DEF QueueShape
<1>2. ASSUME NEW g \in Setters \cup {Nested(p) : p \in Probes} PROVE QueueShape(Lock(m, g))
  <2>1. g \in Goroutines
    BY DEF Goroutines
  <2>2. QED
    BY <2>1, LockFields DEF QueueShape
<1>3. QueueShape(Unlock(m))
  BY DEF QueueShape, Unlock, RWMutexes
<1>4. QED
  BY <1>1, <1>2, <1>3

\* What the steps do to the lock.
LEMMA LockSteps ==
  ASSUME Inv, Next
  PROVE  \/ mu' = mu
         \/ \E g \in Probes \cup {Nested(p) : p \in Probes} : mu' = RLock(mu, g) \/ mu' = RUnlock(mu, g)
         \/ \E g \in Setters \cup {Nested(p) : p \in Probes} : mu' = Lock(mu, g)
         \/ mu' = Unlock(mu) /\ mu.readers = {}
<1>1. ASSUME NEW p \in Probes, Begin(p) \/ Probing(p)
      PROVE  \/ mu' = mu
             \/ \E g \in {p, Nested(p)} : mu' = RLock(mu, g) \/ mu' = RUnlock(mu, g)
             \/ mu' = Lock(mu, Nested(p))
  BY <1>1 DEF Begin, Probing, Live, AskFlag, ReadFlag, AskChecks, RunPlain, RunPanics,
     RunAsks, AskReturns, RunSets, Finish
<1>2. ASSUME NEW s \in Setters, AskLock(s) \/ Write(s)
      PROVE  mu' = Lock(mu, s) \/ (mu' = Unlock(mu) /\ mu.readers = {})
  BY <1>2 DEF AskLock, Write, Writes
<1>3. QED
  BY <1>1, <1>2 DEF Next

LEMMA QueueNext ==
  ASSUME Inv, QueueShape(mu), Next
  PROVE  QueueShape(mu)'
<1>1. mu \in RWMutexes(Goroutines)
  BY DEF Inv, TypeOK
<1>2. QueueShape(mu')
  BY <1>1, LockSteps, QueueStep
<1>3. QED
  BY <1>2 DEF QueueShape

\* A check stays registered: it may only be replaced.
LEMMA ChecksStay ==
  ASSUME NEW c \in Checkers, NEW w \in Writings
  PROVE  Registered(c) \subseteq Registered(Written(c, w))
<1> USE HealthAssumption
<1>1. CASE \E b \in BOOLEAN : w = [field |-> "ready", to |-> b]
  BY <1>1 DEF Written, Checkers, Registered
<1>2. CASE \E b \in BOOLEAN : w = [field |-> "healthy", to |-> b]
  BY <1>2 DEF Written, Checkers, Registered
<1>3. CASE \E n \in Names, k \in Kinds : w = [field |-> "checks", name |-> n, to |-> k]
  <2>1. PICK n \in Names, k \in Kinds : w = [field |-> "checks", name |-> n, to |-> k]
    BY <1>3
  <2>2. Written(c, w) = [c EXCEPT !.checks[n] = k]
    BY <2>1 DEF Written
  <2>3. Written(c, w).checks = [c.checks EXCEPT ![n] = k] /\ c.checks \in [Names -> Kinds \cup {Absent}]
    BY <2>2 DEF Checkers
  <2>4. QED
    BY <2>3 DEF Registered
<1>4. QED
  BY <1>1, <1>2, <1>3 DEF Writings

\* What a call holds or waits for, it keeps while others move.
Held(p) ==
  /\ p \in mu.readers \cup mu.parked => p \in mu'.readers \cup mu'.parked
  /\ Nested(p) \in mu.readers \cup mu.parked => Nested(p) \in mu'.readers \cup mu'.parked

LEMMA WaitsFrame ==
  ASSUME NEW p \in Probes, Waits(p), Held(p), checker' = checker,
         pc'[p] = pc[p], results'[p] = results[p], running'[p] = running[p]
  PROVE  Waits(p)'
<1>1. Checked(p)' = Checked(p) /\ Registered(checker)' = Registered(checker)
  BY DEF Checked, Registered
<1>2. QED
  BY <1>1 DEF Waits, Held

LEMMA WaitsOthers ==
  ASSUME Inv, NEW p \in Probes, NEW q \in Probes, p # q, Waits(q), Begin(p) \/ Probing(p)
  PROVE  Waits(q)'
<1>t. /\ mu \in RWMutexes(Goroutines) /\ pc \in [Probes \cup Setters -> States]
      /\ results \in [Probes -> SUBSET (Names \X BOOLEAN)]
      /\ running \in [Probes -> Names \cup {Absent}]
  BY DEF Inv, TypeOK
<1>1. checker' = checker /\ pc'[q] = pc[q] /\ results'[q] = results[q] /\ running'[q] = running[q]
  BY <1>t DEF Begin, Probing, Live, AskFlag, ReadFlag, AskChecks, RunPlain, RunPanics,
     RunAsks, AskReturns, RunSets, Finish, Answer, Goto, Result
<1>2. \/ mu' = mu
      \/ \E g \in {p, Nested(p)} : mu' = RLock(mu, g) \/ mu' = RUnlock(mu, g) \/ mu' = Lock(mu, g)
  BY DEF Begin, Probing, Live, AskFlag, ReadFlag, AskChecks, RunPlain, RunPanics,
     RunAsks, AskReturns, RunSets, Finish
<1>3. \A g \in {p, Nested(p)} : g \in Goroutines /\ g # q /\ g # Nested(q)
  BY Apart
<1>4. ASSUME NEW g \in Goroutines, g # q, g # Nested(q),
             mu' = RLock(mu, g) \/ mu' = RUnlock(mu, g) \/ mu' = Lock(mu, g)
      PROVE  Held(q)
  BY <1>t, <1>4, LockFields DEF Held
<1>5. Held(q)
  BY <1>2, <1>3, <1>4 DEF Held
<1>6. QED
  BY <1>1, <1>5, WaitsFrame

LEMMA WaitsSetters ==
  ASSUME Inv, NEW s \in Setters, NEW q \in Probes, Waits(q), AskLock(s) \/ Write(s)
  PROVE  Waits(q)'
<1>t. /\ mu \in RWMutexes(Goroutines) /\ pc \in [Probes \cup Setters -> States]
      /\ checker \in Checkers /\ writing \in [Setters -> Writings]
      /\ q # s /\ s \in Goroutines
  BY Apart DEF Inv, TypeOK
<1>1. pc'[q] = pc[q] /\ results' = results /\ running' = running
  BY <1>t DEF AskLock, Write, Goto
<1>2. CASE AskLock(s)
  <2>1. mu'.readers = mu.readers /\ mu'.parked = mu.parked /\ checker' = checker
    BY <1>t, <1>2, LockFields DEF AskLock
  <2>2. QED
    BY <1>1, <2>1, WaitsFrame DEF Held
<1>3. CASE Write(s)
  <2>1. mu.readers = {} /\ mu'.readers = mu.parked
    BY <1>t, <1>3, LockFields DEF Write, Writes
  <2>2. pc[q] # "asks"
    BY <2>1 DEF Inv, LockInv
  <2>3. Registered(checker) \subseteq Registered(checker')
    BY <1>t, <1>3, ChecksStay DEF Write
  <2>4. Checked(q)' = Checked(q)
    BY <1>1 DEF Checked
  <2>5. QED
    BY <1>1, <2>1, <2>2, <2>3, <2>4 DEF Waits
<1>4. QED
  BY <1>2, <1>3

\* What a step does to the names of the checks that have run.
LEMMA CheckedResult ==
  ASSUME results \in [Probes -> SUBSET (Names \X BOOLEAN)],
         NEW p \in Probes, NEW n \in Names, NEW ok \in BOOLEAN, Result(p, n, ok)
  PROVE  Checked(p)' = Checked(p) \cup {n}
<1>1. results'[p] = results[p] \cup {<<n, ok>>}
  BY DEF Result
<1>2. Checked(p)' = {x[1] : x \in results[p] \cup {<<n, ok>>}}
  BY <1>1 DEF Checked
<1>3. \A x \in results[p] \cup {<<n, ok>>} : x \in results[p] \/ x[1] = n
  OBVIOUS
<1>4. <<n, ok>> \in results[p] \cup {<<n, ok>>} /\ <<n, ok>>[1] = n
  OBVIOUS
<1>5. QED
  BY <1>2, <1>3, <1>4, Zenon DEF Checked

LEMMA WaitsOwn ==
  ASSUME Inv, NEW p \in Probes, Waits(p), Begin(p) \/ Probing(p)
  PROVE  Waits(p)'
<1>t. /\ mu \in RWMutexes(Goroutines) /\ pc \in [Probes \cup Setters -> States]
      /\ results \in [Probes -> SUBSET (Names \X BOOLEAN)]
      /\ running \in [Probes -> Names \cup {Absent}] /\ checker \in Checkers
      /\ p \in Goroutines /\ Nested(p) \in Goroutines
  BY Apart DEF Inv, TypeOK
<1>1. CASE Begin(p)
  BY <1>t, <1>1 DEF Begin, Goto, Waits
<1>2. CASE Live(p)
  BY <1>t, <1>2 DEF Live, Answer, Goto, Waits
<1>3. CASE AskFlag(p)
  <2>1. pc[p] = "enter" /\ pc'[p] = "flag" /\ results' = results /\ mu' = RLock(mu, p)
    BY <1>t, <1>3 DEF AskFlag, Goto
  <2>2. p \in mu'.readers \cup mu'.parked
    BY <1>t, <2>1, LockFields
  <2>3. QED
    BY <2>1, <2>2 DEF Waits
<1>4. CASE ReadFlag(p)
  <2>1. pc[p] = "flag" /\ pc'[p] \in {"again", "done"} /\ results' = results
    BY <1>t, <1>4 DEF ReadFlag, Answer, Goto
  <2>2. QED
    BY <2>1 DEF Waits
<1>5. CASE AskChecks(p)
  <2>1. pc[p] = "again" /\ pc'[p] = "checks" /\ results' = results /\ mu' = RLock(mu, p)
    BY <1>t, <1>5 DEF AskChecks, Goto
  <2>2. p \in mu'.readers \cup mu'.parked
    BY <1>t, <2>1, LockFields
  <2>3. Checked(p)' = {}
    BY <2>1 DEF Waits, Checked
  <2>4. QED
    BY <2>1, <2>2, <2>3 DEF Waits
<1>6. CASE RunPlain(p)
  <2>1. PICK n \in Names, ok \in BOOLEAN : Due(p, n, "plain") /\ Result(p, n, ok)
    BY <1>6 DEF RunPlain
  <2>2. /\ pc[p] = "checks" /\ pc' = pc /\ mu' = mu /\ checker' = checker
        /\ n \in Registered(checker)
    BY <1>6, <2>1 DEF RunPlain, Due
  <2>3. Checked(p)' = Checked(p) \cup {n}
    BY <1>t, <2>1, CheckedResult
  <2>4. QED
    BY <2>2, <2>3 DEF Waits
<1>7. CASE RunPanics(p)
  BY <1>t, <1>7 DEF RunPanics, Goto, Waits
<1>8. CASE RunAsks(p)
  <2>1. PICK n \in Names : Due(p, n, "asks") /\ running' = [running EXCEPT ![p] = n]
    BY <1>8 DEF RunAsks
  <2>2. /\ pc[p] = "checks" /\ pc'[p] = "asks" /\ mu' = RLock(mu, Nested(p))
        /\ checker' = checker /\ results' = results
        /\ running'[p] \in Registered(checker) \ Checked(p)
    BY <1>t, <1>8, <2>1 DEF RunAsks, Due, Goto
  <2>3. Nested(p) \in mu'.readers \cup mu'.parked
    BY <1>t, <2>2, LockFields
  <2>4. Checked(p)' = Checked(p)
    BY <2>2 DEF Checked
  <2>5. QED
    BY <2>2, <2>3, <2>4 DEF Waits
<1>9. CASE AskReturns(p)
  <2>1. /\ pc[p] = "asks" /\ pc'[p] = "checks" /\ mu' = RUnlock(mu, Nested(p))
        /\ checker' = checker /\ Result(p, running[p], checker.ready)
    BY <1>t, <1>9 DEF AskReturns, Goto
  <2>2. p \in mu.readers /\ running[p] \in Names
    BY <2>1 DEF Inv, LockInv, RunsOne
  <2>3. p \in mu'.readers
    BY <1>t, <2>1, <2>2, LockFields, Apart
  <2>4. Checked(p)' = Checked(p) \cup {running[p]}
    <3>1. checker.ready \in BOOLEAN
      BY <1>t DEF Checkers
    <3>2. QED
      BY <1>t, <2>1, <2>2, <3>1, CheckedResult
  <2>5. QED
    BY <2>1, <2>3, <2>4 DEF Waits
<1>10. CASE RunSets(p)
  BY <1>t, <1>10 DEF RunSets, Goto, Waits
<1>11. CASE Finish(p)
  BY <1>t, <1>11 DEF Finish, Answer, Goto, Waits
<1>12. QED
  BY <1>1, <1>2, <1>3, <1>4, <1>5, <1>6, <1>7, <1>8, <1>9, <1>10, <1>11 DEF Probing

LEMMA WaitHolds == Safe => [](Inv /\ WaitInv)
<1>1. Init => WaitInv
  BY DEF Init, Unlocked, WaitInv, QueueShape, Waits
<1>2. ASSUME Inv, WaitInv, Next PROVE WaitInv'
  <2>1. QueueShape(mu)'
    BY <1>2, QueueNext DEF WaitInv
  <2>2. ASSUME NEW q \in Probes PROVE Waits(q)'
    BY <1>2, WaitsOwn, WaitsOthers, WaitsSetters DEF Next, WaitInv
  <2>3. QED
    BY <2>1, <2>2 DEF WaitInv
<1>3. ASSUME WaitInv, UNCHANGED vars PROVE WaitInv'
  BY <1>3 DEF vars, WaitInv, QueueShape, Waits, Checked, Registered
<1>4. QED
  BY <1>1, <1>2, <1>3, InvHolds, PTL DEF Safe

\* The guards of the actions of Probing(p).
MayGoOn(p) ==
  \/ pc[p] \in {"enter", "again"}
  \/ pc[p] = "flag" /\ Reads(mu, p)
  \/ \E n \in Names, kind \in Kinds : Due(p, n, kind)
  \/ pc[p] = "asks" /\ Reads(mu, Nested(p))
  \/ pc[p] = "checks" /\ Reads(mu, p) /\ Checked(p) = Registered(checker)

MayWrite(s) == pc[s] = "lock" /\ Writes(mu, s)

\* While a call is under way and no check has met a writer, some call may go
\* on: RunChecks, which keeps the lock, always has a check left or is through.
Unblocked ==
  ~ Clash /\ ((\E p \in Probes : Active(p)) \/ (\E s \in Setters : pc[s] = "lock"))
    => (\E p \in Probes : MayGoOn(p)) \/ (\E s \in Setters : MayWrite(s))

\* A handler that has the lock may go on.
LEMMA ReaderGoesOn ==
  ASSUME Inv, WaitInv, NEW p \in Probes,
         \/ pc[p] \in {"flag", "checks"} /\ Reads(mu, p)
         \/ pc[p] = "asks" /\ Reads(mu, Nested(p))
  PROVE  MayGoOn(p)
<1>1. CASE pc[p] = "checks" /\ Reads(mu, p)
  <2>1. Checked(p) \subseteq Registered(checker)
    BY <1>1 DEF WaitInv, Waits
  <2>2. CASE Registered(checker) \subseteq Checked(p)
    BY <1>1, <2>1, <2>2 DEF MayGoOn
  <2>3. CASE ~ (Registered(checker) \subseteq Checked(p))
    <3>1. PICK n \in Registered(checker) : n \notin Checked(p)
      BY <2>3
    <3>2. n \in Names /\ checker.checks[n] \in Kinds
      BY <3>1 DEF Registered, Inv, TypeOK, Checkers
    <3>3. Due(p, n, checker.checks[n])
      BY <1>1, <3>1 DEF Due
    <3>4. QED
      BY <3>2, <3>3 DEF MayGoOn
  <2>4. QED
    BY <2>2, <2>3
<1>2. CASE pc[p] # "checks"
  BY <1>2 DEF MayGoOn
<1>3. QED
  BY <1>1, <1>2

LEMMA SomeoneGoesOn ==
  ASSUME Inv, WaitInv PROVE Unblocked
<1> SUFFICES ASSUME ~ Clash, \A p \in Probes : ~ MayGoOn(p),
                    (\E p \in Probes : Active(p)) \/ (\E s \in Setters : pc[s] = "lock")
             PROVE  \E s \in Setters : MayWrite(s)
  BY DEF Unblocked
<1>1. ASSUME NEW p \in Probes, Active(p)
      PROVE  /\ pc[p] \in {"flag", "checks"} /\ p \in mu.parked
  <2>1. pc[p] \in {"enter", "flag", "again", "checks", "asks", "sets", "lock"}
    BY <1>1 DEF Active, Inv, TypeOK, States, Ended
  <2>2. pc[p] \notin {"enter", "again", "sets", "asks"}
    BY ReaderGoesOn DEF MayGoOn, Clash
  <2>3. pc[p] # "lock"
    BY DEF WaitInv, Waits
  <2>4. QED
    BY <2>1, <2>2, <2>3, ReaderGoesOn DEF Reads, WaitInv, Waits
<1>2. mu.readers = {}
  <2>1. ASSUME NEW g \in mu.readers PROVE FALSE
    <3>1. PICK p \in Probes : g = p \/ g = Nested(p)
      BY <2>1 DEF WaitInv, QueueShape
    <3>2. Active(p)
      BY <2>1, <3>1 DEF Inv, TypeOK, LockOwners, Active
    <3>3. g = p
      BY <1>1, <2>1, <3>1, <3>2 DEF Inv, TypeOK, LockOwners
    <3>4. QED
      BY <1>1, <2>1, <3>2, <3>3 DEF Inv, LockInv
  <2>2. QED
    BY <2>1
<1>3. mu.writer # {}
  BY <1>1 DEF WaitInv, QueueShape, Inv, TypeOK, LockOwners
<1>4. PICK s \in Setters : s \in mu.writer
  <2>1. PICK g \in mu.writer : g \in Setters \/ \E p \in Probes : g = Nested(p)
    BY <1>3 DEF WaitInv, QueueShape
  <2>2. ASSUME NEW p \in Probes PROVE Nested(p) \notin mu.writer
    BY DEF Inv, TypeOK, LockOwners, Clash
  <2>3. QED
    BY <2>1, <2>2
<1>5. QED
  BY <1>2, <1>4 DEF MayWrite, Writes, Inv, TypeOK, LockOwners

\* No deadlock but the one the code has: as long as no check meets a writer,
\* a call under way is never left with nobody able to move, so no reader is
\* forgotten behind a writer, and no check lost (health.go:77-86).
THEOREM UnblockedTheorem == Spec => []Unblocked
BY SomeoneGoesOn, WaitHolds, PTL DEF Spec

\* How far a handler is.
Stage == [l \in States |->
            CASE l = "idle" -> 0 [] l = "enter" -> 1 [] l = "flag" -> 2 [] l = "again" -> 3
              [] l = "checks" -> 4 [] l \in {"asks", "sets"} -> 5 [] l \in Ended \cup {"lock"} -> 6]

\* It has run one check more, or the same ones and is further on.
Forward(p) ==
  \/ Checked(p) \subseteq Checked(p)' /\ Checked(p)' # Checked(p)
  \/ Checked(p)' = Checked(p) /\ Stage[pc[p]] < Stage[pc'[p]]

\* Every step of a handler leads on, and nobody else takes it back: with as
\* many checks as Names it answers after so many steps of its own.
StepsLeadOn ==
  [][\A p \in Probes :
       /\ Begin(p) \/ Probing(p) => Forward(p)
       /\ Forward(p) \/ (pc'[p] = pc[p] /\ results'[p] = results[p])]_vars

LEMMA OwnForward ==
  ASSUME Inv, WaitInv, NEW p \in Probes, Begin(p) \/ Probing(p)
  PROVE  Forward(p)
<1>t. /\ pc \in [Probes \cup Setters -> States]
      /\ results \in [Probes -> SUBSET (Names \X BOOLEAN)] /\ checker \in Checkers
  BY DEF Inv, TypeOK
<1>s. /\ Stage["idle"] = 0 /\ Stage["enter"] = 1 /\ Stage["flag"] = 2 /\ Stage["again"] = 3
      /\ Stage["checks"] = 4 /\ Stage["asks"] = 5 /\ Stage["sets"] = 5
      /\ Stage["done"] = 6 /\ Stage["aborted"] = 6
  BY DEF Stage, States, Ended
<1>1. CASE RunPlain(p)
  <2>1. PICK n \in Names, ok \in BOOLEAN : Due(p, n, "plain") /\ Result(p, n, ok)
    BY <1>1 DEF RunPlain
  <2>2. Checked(p)' = Checked(p) \cup {n} /\ n \notin Checked(p)
    BY <1>t, <2>1, CheckedResult DEF Due
  <2>3. QED
    BY <2>2 DEF Forward
<1>2. CASE AskReturns(p)
  <2>1. /\ running[p] \in Names /\ running[p] \notin Checked(p)
        /\ Result(p, running[p], checker.ready)
    BY <1>2 DEF AskReturns, Inv, RunsOne, WaitInv, Waits
  <2>2. Checked(p)' = Checked(p) \cup {running[p]}
    <3>1. checker.ready \in BOOLEAN
      BY <1>t DEF Checkers
    <3>2. QED
      BY <1>t, <2>1, <3>1, CheckedResult
  <2>3. QED
    BY <2>1, <2>2 DEF Forward
<1>3. CASE ~ RunPlain(p) /\ ~ AskReturns(p)
  <2>1. /\ results' = results
        /\ <<pc[p], pc'[p]>> \in {<<"idle", "enter">>, <<"enter", "done">>, <<"enter", "flag">>,
             <<"flag", "done">>, <<"flag", "again">>, <<"again", "checks">>, <<"checks", "aborted">>,
             <<"checks", "asks">>, <<"checks", "sets">>, <<"checks", "done">>}
    BY <1>t, <1>3 DEF Begin, Probing, Live, AskFlag, ReadFlag, AskChecks, RunPanics,
       RunAsks, RunSets, Finish, Answer, Goto, Due
  <2>2. Checked(p)' = Checked(p)
    BY <2>1 DEF Checked
  <2>3. Stage[pc[p]] < Stage[pc'[p]]
    BY <1>s, <2>1
  <2>4. QED
    BY <2>2, <2>3 DEF Forward
<1>4. QED
  BY <1>1, <1>2, <1>3

\* A handler takes so many steps and no more, whatever is set and registered
\* meanwhile: with UnblockedTheorem, and a check that returns, it answers
\* (health.go:91-107).
THEOREM StepsTheorem == Spec => StepsLeadOn
<1> DEFINE Leads ==
      \A p \in Probes :
        /\ Begin(p) \/ Probing(p) => Forward(p)
        /\ Forward(p) \/ (pc'[p] = pc[p] /\ results'[p] = results[p])
<1>1. Inv /\ WaitInv /\ Next => Leads
  <2> SUFFICES ASSUME Inv, WaitInv, Next, NEW p \in Probes
               PROVE  /\ Begin(p) \/ Probing(p) => Forward(p)
                      /\ Forward(p) \/ (pc'[p] = pc[p] /\ results'[p] = results[p])
    OBVIOUS
  <2>1. Begin(p) \/ Probing(p) => Forward(p)
    BY OwnForward
  <2>2. ASSUME NEW q \in Probes, q # p, Begin(q) \/ Probing(q)
        PROVE  pc'[p] = pc[p] /\ results'[p] = results[p]
    BY <2>2 DEF Inv, TypeOK, Begin, Probing, Live, AskFlag, ReadFlag, AskChecks, RunPlain, RunPanics,
       RunAsks, AskReturns, RunSets, Finish, Answer, Goto, Result
  <2>3. ASSUME NEW s \in Setters, AskLock(s) \/ Write(s)
        PROVE  pc'[p] = pc[p] /\ results'[p] = results[p]
    BY <2>3, Apart DEF Inv, TypeOK, AskLock, Write, Goto
  <2>4. QED
    BY <2>1, <2>2, <2>3 DEF Next
<1>2. Inv /\ WaitInv /\ [Next]_vars => [Leads]_vars
  BY <1>1
<1> HIDE DEF Leads
<1>3. Spec => [][Leads]_vars
  BY <1>2, WaitHolds, PTL DEF Spec, Safe
<1>4. QED
  BY <1>3 DEF StepsLeadOn, Leads
=============================================================================
