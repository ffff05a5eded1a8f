-------------------------------- MODULE Health --------------------------------
(***************************************************************************)
(* internal/health/health.go: one Checker, the HTTP handlers that ask it   *)
(* (Probes), and goroutines that set a flag or register a check (Setters). *)
(* An action is the code between two waits for the lock.                   *)
(*                                                                         *)
(* A check is any function, so it may call the Checker back: RunChecks     *)
(* calls it with the read lock held.  What a check does is its kind:       *)
(*   plain   returns nil or an error         panics  ends the handler      *)
(*   asks    calls IsReady and goes by it    sets    calls SetHealthy      *)
(* The program registers none: checks come from users of the package.      *)
(* Every probe and setter makes one call, which bounds the runs.  seen is  *)
(* history: the states of the Checker in force since a probe began.        *)
(***************************************************************************)
EXTENDS Naturals, Sequences, RWMutex

CONSTANTS Probes, Setters, Names, Absent

Kinds == {"plain", "asks", "sets", "panics"}

\* The read lock that a check takes while its handler holds one.
Nested(p) == <<p, "nested">>

ASSUME HealthAssumption ==
  /\ Probes \cap Setters = {}
  /\ \A p \in Probes : Nested(p) \notin Probes \cup Setters
  /\ Absent \notin Kinds

Checkers == [ready : BOOLEAN, healthy : BOOLEAN, checks : [Names -> Kinds \cup {Absent}]]

Registered(c) == {n \in Names : c.checks[n] # Absent}

Goroutines == Probes \cup Setters \cup {Nested(p) : p \in Probes}

\* What a setter may be called with.
Writings ==
  {[field |-> "ready", to |-> b] : b \in BOOLEAN} \cup
  {[field |-> "healthy", to |-> b] : b \in BOOLEAN} \cup
  {[field |-> "checks", name |-> n, to |-> k] : n \in Names, k \in Kinds}

\* The assignment of SetReady, SetHealthy and AddCheck.
Written(c, w) ==
  CASE w.field = "ready" -> [c EXCEPT !.ready = w.to]
    [] w.field = "healthy" -> [c EXCEPT !.healthy = w.to]
    [] w.field = "checks" -> [c EXCEPT !.checks[w.name] = w.to]

VARIABLES
  mu,       \* the Checker's lock
  checker,  \* the rest of it
  pc,       \* pc[g]: where the call of g is
  probe,    \* probe[p]: which handler p is
  flag,     \* flag[p]: the flag it has read
  results,  \* results[p]: names of the checks it has run, with their verdict
  running,  \* running[p]: the check under way
  reply,    \* reply[p]: what it answered
  writing,  \* writing[s]: what s writes
  seen      \* seen[p]: states of the Checker in force since p began

vars == <<mu, checker, pc, probe, flag, results, running, reply, writing, seen>>

Ended == {"done", "aborted"}

Init ==
  /\ mu = Unlocked
  /\ checker \in {c \in Checkers : c.healthy /\ ~ c.ready}
  /\ pc = [g \in Probes \cup Setters |-> "idle"]
  /\ probe \in [Probes -> {"health", "ready", "live"}]
  /\ flag = [p \in Probes |-> FALSE]
  /\ results = [p \in Probes |-> {}]
  /\ running = [p \in Probes |-> Absent]
  /\ reply = [p \in Probes |-> "none"]
  /\ writing \in [Setters -> Writings]
  /\ seen = [p \in Probes |-> <<>>]

Goto(g, label) == pc' = [pc EXCEPT ![g] = label]

Answer(p, text) == reply' = [reply EXCEPT ![p] = text] /\ Goto(p, "done")

\* A probe arrives.
Begin(p) ==
  /\ pc[p] = "idle"
  /\ Goto(p, "enter")
  /\ seen' = [seen EXCEPT ![p] = <<checker>>]
  /\ UNCHANGED <<mu, checker, probe, flag, results, running, reply, writing>>

\* LiveHandler looks at nothing but the time.
Live(p) ==
  /\ pc[p] = "enter" /\ probe[p] = "live"
  /\ Answer(p, "alive")
  /\ UNCHANGED <<mu, checker, probe, flag, results, running, writing, seen>>

\* HealthHandler and ReadyHandler ask for the read lock.
AskFlag(p) ==
  /\ pc[p] = "enter" /\ probe[p] # "live"
  /\ mu' = RLock(mu, p)
  /\ Goto(p, "flag")
  /\ UNCHANGED <<checker, probe, flag, results, running, reply, writing, seen>>

\* They read their flag and let go; ReadyHandler then answers.
ReadFlag(p) ==
  /\ pc[p] = "flag" /\ Reads(mu, p)
  /\ mu' = RUnlock(mu, p)
  /\ flag' = [flag EXCEPT ![p] = IF probe[p] = "ready" THEN checker.ready
                                 ELSE checker.healthy]
  /\ IF probe[p] = "ready"
     THEN Answer(p, IF flag'[p] THEN "ready" ELSE "not ready")
     ELSE Goto(p, "again") /\ UNCHANGED reply
  /\ UNCHANGED <<checker, probe, results, running, writing, seen>>

\* RunChecks asks for the read lock, anew.
AskChecks(p) ==
  /\ pc[p] = "again"
  /\ mu' = RLock(mu, p)
  /\ Goto(p, "checks")
  /\ UNCHANGED <<checker, probe, flag, results, running, reply, writing, seen>>

Checked(p) == {x[1] : x \in results[p]}

Result(p, n, ok) == results' = [results EXCEPT ![p] = @ \cup {<<n, ok>>}]

\* The loop of RunChecks goes through a map: any check not yet run is next.
Due(p, n, kind) ==
  /\ pc[p] = "checks" /\ Reads(mu, p)
  /\ n \in Registered(checker) \ Checked(p)
  /\ checker.checks[n] = kind

RunPlain(p) ==
  /\ \E n \in Names, ok \in BOOLEAN : Due(p, n, "plain") /\ Result(p, n, ok)
  /\ UNCHANGED <<mu, checker, pc, probe, flag, running, reply, writing, seen>>

\* Mutant of RunPanics: the lock is not released by a deferred call.
RunPanicsHolding(p) ==
  /\ \E n \in Names : Due(p, n, "panics")
  /\ Goto(p, "aborted")
  /\ UNCHANGED <<mu, checker, probe, flag, results, running, reply, writing, seen>>

\* The panic unwinds RunChecks, whose deferred call releases the lock, and the
\* handler, which net/http ends without an answer.
RunPanics(p) ==
  /\ \E n \in Names : Due(p, n, "panics")
  /\ mu' = RUnlock(mu, p)
  /\ Goto(p, "aborted")
  /\ UNCHANGED <<checker, probe, flag, results, running, reply, writing, seen>>

\* The check calls IsReady, and so asks for the read lock a second time.
RunAsks(p) ==
  /\ \E n \in Names : /\ Due(p, n, "asks")
                      /\ running' = [running EXCEPT ![p] = n]
  /\ mu' = RLock(mu, Nested(p))
  /\ Goto(p, "asks")
  /\ UNCHANGED <<checker, probe, flag, results, reply, writing, seen>>

AskReturns(p) ==
  /\ pc[p] = "asks" /\ Reads(mu, Nested(p))
  /\ mu' = RUnlock(mu, Nested(p))
  /\ Result(p, running[p], checker.ready)
  /\ running' = [running EXCEPT ![p] = Absent]
  /\ Goto(p, "checks")
  /\ UNCHANGED <<checker, probe, flag, reply, writing, seen>>

\* The check calls SetHealthy.  It announces itself, or queues behind a writer
\* that has, and either waits for this very handler to stop reading: nothing
\* follows.
RunSets(p) ==
  /\ \E n \in Names : /\ Due(p, n, "sets")
                      /\ running' = [running EXCEPT ![p] = n]
  /\ mu' = IF MayLock(mu) THEN Lock(mu, Nested(p)) ELSE mu
  /\ Goto(p, "sets")
  /\ UNCHANGED <<checker, probe, flag, results, reply, writing, seen>>

AllPassed(p) == \A x \in results[p] : x[2]

Verdict(p) == IF flag[p] /\ AllPassed(p) THEN "healthy" ELSE "unhealthy"

\* Mutant of Finish: the loop may stop early.
FinishEarly(p) ==
  /\ pc[p] = "checks" /\ Reads(mu, p)
  /\ mu' = RUnlock(mu, p)
  /\ Answer(p, Verdict(p))
  /\ UNCHANGED <<checker, probe, flag, results, running, writing, seen>>

\* RunChecks returns and HealthHandler answers.
Finish(p) ==
  /\ pc[p] = "checks" /\ Reads(mu, p)
  /\ Checked(p) = Registered(checker)
  /\ mu' = RUnlock(mu, p)
  /\ Answer(p, Verdict(p))
  /\ UNCHANGED <<checker, probe, flag, results, running, writing, seen>>

\* A setter asks for the lock.
AskLock(s) ==
  /\ pc[s] = "idle" /\ MayLock(mu)
  /\ mu' = Lock(mu, s)
  /\ Goto(s, "lock")
  /\ UNCHANGED <<checker, probe, flag, results, running, reply, writing, seen>>

\* Mutant of Write: it does not wait for the readers.
WriteAtOnce(s) ==
  /\ pc[s] = "lock" /\ s \in mu.writer
  /\ checker' = Written(checker, writing[s])
  /\ mu' = [mu EXCEPT !.parked = {}, !.readers = @ \cup mu.parked, !.writer = {}]
  /\ seen' = [p \in Probes |-> IF pc[p] \in Ended \cup {"idle"} THEN seen[p]
                               ELSE Append(seen[p], checker')]
  /\ Goto(s, "done")
  /\ UNCHANGED <<probe, flag, results, running, reply, writing>>

\* It writes and releases the lock.
Write(s) ==
  /\ pc[s] = "lock" /\ Writes(mu, s)
  /\ checker' = Written(checker, writing[s])
  /\ mu' = Unlock(mu)
  /\ seen' = [p \in Probes |-> IF pc[p] \in Ended \cup {"idle"} THEN seen[p]
                               ELSE Append(seen[p], checker')]
  /\ Goto(s, "done")
  /\ UNCHANGED <<probe, flag, results, running, reply, writing>>

Probing(p) ==
  \/ Live(p) \/ AskFlag(p) \/ ReadFlag(p) \/ AskChecks(p)
  \/ RunPlain(p) \/ RunPanics(p) \/ RunAsks(p) \/ AskReturns(p) \/ RunSets(p)
  \/ Finish(p)

Next ==
  \/ \E p \in Probes : Begin(p) \/ Probing(p)
  \/ \E s \in Setters : AskLock(s) \/ Write(s)

Safe == Init /\ [][Next]_vars

\* A goroutine that can run does, and a plain check returns.
Spec == Safe /\ \A p \in Probes : WF_vars(Probing(p)) /\ \A s \in Setters : WF_vars(Write(s))
-----------------------------------------------------------------------------
States == {"idle", "enter", "flag", "again", "checks", "asks", "sets", "lock"} \cup Ended

\* Whoever has the lock, or waits for it, is a call at a place that will let go
\* of it: a call that has ended has left nothing behind.
LockOwners ==
  /\ \A p \in Probes :
       /\ p \in mu.readers => pc[p] \in {"flag", "checks", "asks", "sets"}
       /\ p \in mu.parked => pc[p] \in {"flag", "checks"}
       /\ Nested(p) \in mu.readers \cup mu.parked => pc[p] = "asks"
       /\ Nested(p) \in mu.writer => pc[p] = "sets"
  /\ \A s \in Setters : s \in mu.writer <=> pc[s] = "lock"

\* The shapes of the variables, and who may have the lock.
TypeOK ==
  /\ mu \in RWMutexes(Goroutines)
  /\ checker \in Checkers
  /\ pc \in [Probes \cup Setters -> States]
  /\ probe \in [Probes -> {"health", "ready", "live"}]
  /\ flag \in [Probes -> BOOLEAN]
  /\ results \in [Probes -> SUBSET (Names \X BOOLEAN)]
  /\ running \in [Probes -> Names \cup {Absent}]
  /\ reply \in [Probes -> {"none", "alive", "ready", "not ready", "healthy", "unhealthy"}]
  /\ writing \in [Setters -> Writings]
  /\ seen \in [Probes -> Seq(Checkers)]
  /\ LockOwners

Moments(p) == {seen[p][i] : i \in DOMAIN seen[p]}

\* An answer of /ready is the flag at some moment of the call; the verdict of
\* /health is that of the flag at one moment and of all checks registered at
\* one moment, though HealthHandler takes the lock twice (health.go:91-107).
VerdictIsFounded ==
  \A p \in Probes :
    /\ reply[p] = "ready" => \E c \in Moments(p) : c.ready
    /\ reply[p] = "not ready" => \E c \in Moments(p) : ~ c.ready
    /\ reply[p] \in {"healthy", "unhealthy"} =>
         \E c \in Moments(p) : Checked(p) = Registered(c)
    /\ reply[p] = "healthy" => AllPassed(p) /\ \E c \in Moments(p) : c.healthy
    /\ reply[p] = "unhealthy" /\ AllPassed(p) => \E c \in Moments(p) : ~ c.healthy

\* A check that calls back does harm only if it sets, or if it asks while a
\* writer waits.
Clash ==
  \E p \in Probes : pc[p] = "sets" \/ (pc[p] = "asks" /\ ~ Reads(mu, Nested(p)))

\* RunChecks holds the read lock while it calls the checks (health.go:77-86):
\* unless such a check meets a writer, every probe and every setter returns,
\* and a check that panics leaves the lock free.
EveryCallReturns ==
  [] ~ Clash =>
    /\ \A p \in Probes : pc[p] = "enter" ~> pc[p] \in Ended
    /\ \A s \in Setters : pc[s] = "lock" ~> pc[s] = "done"

\* A check that meets a writer stops the Checker for good: from then on nobody
\* gets the lock that it waits for (health.go:78).
ClashIsForever == [][Clash => Clash']_vars
=============================================================================
