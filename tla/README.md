# TLA+ models of nameserver-switcher

nameserver-switcher is a DNS forwarder. A question whose name matches a *request pattern* is looked
up at an *explicit* resolver; if the answer holds an alias (CNAME) that matches a *CNAME pattern*,
the explicit resolver is asked again and its answer returned; in every other case one of three
*fallback* resolvers has the last word. The pattern lists can be replaced while the program runs.
The modules here are translated from the Go code under `cmd/` and `internal/`; `PROJECT.json` maps
each definition to its lines.

Run a check with `tlc -config X.cfg M`, a proof with `tlapm M.tla`.

## 1. Inventory

| Component | State | Operations | Hard behaviour | What makes it correct |
|---|---|---|---|---|
| Router (`internal/resolver/router.go`) | none of its own; a call holds its `RouteResult` and reads the matchers' lists | `NewRouter`, `Route` | several lock acquisitions and exchanges in one call, lists replaced in between | each decision is right for a list that was in force during the call; the result's flags, labels and server agree with what was asked |
| Matcher (`internal/matcher`) | compiled list and source texts, under an RWMutex | `Match`, `MatchingPattern`, `Patterns`, `UpdatePatterns` | an input that is refused after others were compiled | all of a new list or nothing |
| Resolvers (`internal/resolver/resolver.go`) | addresses, client | `Resolve` of one server or of a list in order; alias helpers | silent servers against per-exchange timeout and shared deadline | done by the deadline; first server that can answer is the one that does |
| DNS server (`internal/dns`) | two sockets, `errCh` | `Start`, `Shutdown`, `handleRequest` | listeners that fail late, handlers at work at shutdown, metrics on every path | one reply a request, nobody blocks, counters balance |
| gRPC server (`internal/grpc`) | matchers, `totalRequests`, listener | `Resolve`, `Query`, `UpdateRequestPatterns`, `UpdateCNAMEPatterns`, `GetConfig`, `GetStats`, `Start`, `Shutdown` | two lock acquisitions in each admin call; calls without a deadline at shutdown | replies tell the truth about the lists |
| Process (`cmd/nameserver-switcher`) | the `App`, signal channel | `NewApp`, `Start`, `Run`, `Shutdown` | start order, signals at any time, one deadline for four shutdowns | exit code tells what happened; a signal ends the process |
| Configuration (`internal/config`) | `Config` | `LoadFromEnv`, `ParseFlags`, `Validate` | two passes over shared fields, empty and malformed texts | flag before variable before default, for each setting alone; the one exception (an empty flag) known |
| Metrics (`internal/metrics`) | Prometheus counters, one gauge | increments | increments of concurrent handlers around a scrape, which reads one metric after another | a scrape sees a part exceed its whole only by handlers at work meanwhile; the gauge returns to zero |
| Health checker (`internal/health`) | ready and healthy flags, registered checks, under an RWMutex | `SetReady`, `SetHealthy`, `AddCheck`, `IsReady`, `IsHealthy`, `RunChecks`, three HTTP handlers | flag and checks read under separate locks; checks called with the lock held, which may call back or panic | an answer was true at a moment of the call; only a check that meets a writer can stop the checker |
| Logging (`internal/logging`) | format, debug flag, component and zap core of each logger, under an RWMutex each; the default logger under another | `NewLogger`, `SetDebug`, `SetFormat`, `SetDefault`, `WithComponent`, log functions | a logger changed or swapped between two lines of one event; flags that setters must carry over | the core follows the flags; the lines of a query come in order and from one logger |

The components meet in these places. A DNS message or a gRPC call gets a goroutine of its own, which
increments metrics, calls `Route`, increments more of them and replies. `Route` calls the two matchers,
which the admin calls change concurrently; that is the only shared state that routing reads. Every handler
logs through whatever is the default logger at that moment. `Route` calls one resolver, or two one after
the other, under one deadline if it was called by the DNS server and under the client's context otherwise.
The main goroutine starts the servers, sets the ready flag, waits for a signal, clears the flag and stops
HTTP, gRPC, UDP and TCP in this order.

`PROJECT.json` lists under "hazards" what of this is hard to test, at its line, with the properties
aimed at it.

## 2. Plan

Order of work, most important behaviour first; (done) marks what is here now.

1. (done) `Matcher`, `Wiring`, `Router` with `RoutingContract` as its abstract specification, and
   `RouterCorrect`; then `RouterProofs`.
2. (done) `ControlPlane`: the admin calls, which justify the `Update` action that `Router` assumes of
   its environment; then `ControlPlaneProofs`.
3. (done) `Upstream`: what happens inside the exchanges that `Router` takes as one step.
4. (done) `Lifecycle`, `Frontend`, `Config`.
5. (done) `RWMutex` and `Health`: flags and registered checks, the three handlers with each lock
   acquisition an action, checks that call the checker back with the lock held; then `HealthProofs`.
6. (done) `Logging`: loggers changed and swapped while handlers write their lines; then
   `LoggingProofs`.
7. A matcher whose names are told apart by case and trailing dot, to check
   `Documentation/architecture.adoc`'s claim of case-insensitive matching against `NewRegexMatcher`.
8. (done) Proofs of the safety properties of `Upstream`, `Lifecycle`, `Frontend` and `Config`.
9. (done) What the first proofs left: the loop of `UpdatePatterns` for any texts, `FailureIsDeserved` of
   `Upstream`, and that `ControlPlane`'s calls are `Router`'s `Update`, which joins the two developments.
10. (done) The safety part of the liveness properties: that nobody is stuck, and that every step leads on.
    The handlers of `Frontend` and `Logging` and the admin calls wait for nothing and need none.

Which modules use which:

```
Matcher <- Wiring <- RoutingContract
   ^          ^------ Router <- RouterCorrect <- MCRouter, RouterProofs
   |                              (INSTANCE RoutingContract)
   +------ ControlPlane <- MCControlPlane, ControlPlaneProofs
                                         (INSTANCE Router)
RWMutex <- Health <- HealthProofs        Upstream  <- MCUpstream, UpstreamProofs
           Logging <- LoggingProofs      Config    <- MCConfig, ConfigProofs
           Frontend <- FrontendProofs    Lifecycle <- LifecycleProofs
```

The last six components stand for themselves: what one takes of another is one fact, named below.

## 3. The modules and the code

Each module keeps the mutants of its actions beside them, named in `PROJECT.json`: a mutant is the
action with a plausible bug, and its property fails when the mutant takes the action's place.

**Matcher.** A matcher's state is one value, the compiled list. `Compile` is the loop over the inputs, which
trims each and drops blanks; `Compiles` says whether an input would be refused. `Match` and
`MatchingPattern` are functions of a list; each takes the lock once in the code, so each is evaluated on one
list.

**Wiring.** `AppConfig` is `NewApp`'s choice of a resolver for each role, `NewRouter` the constructor's
own fallbacks. A resolver is a name and the recursion flag it sends.

**Router.** `Requests` are slots for concurrent calls. An action is the code between two points at which
another goroutine can be noticed: a matcher's lock or an exchange. `pc[r]` names what the call does next:

| Action | Code |
|---|---|
| `Arrive` | the call of `Route`, with its check for a question |
| `MatchRequest`, `LabelRequest` | `Match`, then `MatchingPattern`, of the request matcher |
| `QueryExplicit` | the first lookup, after which the answer's aliases are listed |
| `MatchCNAME`, `NoCNAMEMatches`, `LabelCNAME` | the loop over the aliases, one lock a turn |
| `QueryExplicitAgain` | the second lookup |
| `QueryFallback` | the three `use...Resolver` functions |
| `Update` | `UpdatePatterns` by another goroutine, at any moment |

`window[r][m]` (the lists of `m` in force since `r` began) and `log[r]` (exchanges made) are history
variables: an outside observer could have noted them.

**RoutingContract** says what `Route` promises without its steps: a request is submitted and settled in
one step, and a settlement is legal if each decision behind it is right for *some* list in its window.
That is what a lock per match can give and no more: two decisions of one call may rest on different
lists, even on a pair that was never in force together.

**ControlPlane.** The admin calls, a step for each lock: `Call`, `Apply` (the swap), `ReadBack` (the
list reported), and `ReadConfig` once for each matcher. A list is told apart by its version, its place
in `installed[m]`; `inForce[c]` is history.

**Upstream.** One call's exchanges, tick by tick: `Ask` is a turn of `SystemResolver`'s loop up to the
wait, `Reply`, `Refused` and `Timeout` end it. An address is a host with a form (bare host, with port,
bare IPv6), because the code's test for a port looks for a colon. Which resolvers a call asks is left to
`Router`; any of them may follow any other here. The DNS client is external: it stops at its timeout or at
the context's deadline, if that is first.

**Lifecycle.** The main goroutine through `Start`, `Run` and `Shutdown` (`pc`, `at`), one listening
goroutine for each of the four servers (`listener`), the channels as numbers of messages, the shutdown
context (`expired`), handlers (`inFlight`). The libraries' `Shutdown` is modelled from how this code
relies on it. `Signal` before `signal.Notify` kills the process.

**Frontend.** The three handlers (`handleRequest`, `Resolve`, `Query`); every increment of a counter is a
step of its own, so that `GetStats`, or a reading of a scrape, may come between any two. A scrape is not
atomic: the handler of `/metrics`, which is external, reads one metric after another in no set order. Since
reading changes nothing, a scrape is modelled by any two of its readings: `Collect` is one that was made,
kept in `scrape` with the requests seen at work since, and the properties speak of one that may be made in
the present state. Metrics are summed over their labels; a vector that is read label by label gives a value
between that of the first moment and that of the last, which only matters for the second bound of
`ScrapesAreConsistent`, and there the handlers at work in between are counted already.
`todo[r]` is what a handler increments before its next other step. `Route` is an outcome; that an alias
verdict implies a request match is `RoutingContract`'s (only `CNAMEResult` of a `MatchedResult` sets it).

**Config.** Environment, flags and `NewApp` in this order; a setting of each type stands for the others
of its type, which the code treats by separate but alike lines.

**RWMutex** is Go's lock as a value: readers, readers parked behind an announced writer, and the writer.
It is external, but one of its rules matters here: a writer that waits keeps new readers out, so a
goroutine that takes the read lock twice may wait for itself.

**Health.** Probes are HTTP requests to one of the three handlers, setters are calls of `SetReady`,
`SetHealthy` or `AddCheck` with any argument; an action is the code between two waits for the lock. The
program itself registers no check and sets `ready` only (that is in `Lifecycle`), so checks and most
setters stand for users of the package. A check is reduced to its kind: it returns, panics, calls
`IsReady` back or calls `SetHealthy` back. `seen[p]`, the states of the checker in force since `p` began,
is history.

| Action | Code |
|---|---|
| `AskFlag`, `ReadFlag` | the first `RLock` of a handler, and what it does until `RUnlock` |
| `AskChecks` | the `RLock` of `RunChecks` |
| `RunPlain`, `RunPanics`, `RunAsks`, `AskReturns`, `RunSets` | one turn of its loop, by the check's kind; the map's order is any |
| `Finish` | its return, the verdict and the answer |
| `AskLock`, `Write` | a setter |

**Logging.** Loggers with their flags and core, the default logger, and the lines that `handleRequest`
and `Query` write for a query. A method is one action, since it waits for nothing while it has its
logger's lock; a function of the package is `Default` and then the method; `LogDNSDebug` is one action for
the flag (`LogDNSDebug`) and one for each line (`Debug`), as the code lets go of the lock in between.
The program changes no logger after `NewApp`: `Change` stands for users of the package. `off[h]`, debug
was off in the block's logger at some moment of the block, is history. A handler is through at
`done` if it answered and at `failed` if `Route` returned an error.

## 4. Runs

| Run | Shows | Instance, and why it is enough |
|---|---|---|
| `router_calls` | refinement of `RoutingContract`, exactness of undisturbed calls, causes of verdicts and blank labels, every call ends | one slot used again and again (calls share only the lists, so a second adds nothing that an update does not; the proofs are for any number), lists of 0, 1 and 2 expressions, answers with 0, 1 and 2 aliases, 3 wirings of the program and 16 of the package. The expressions part on names and aliases, so an update between any two steps shows |
| `control_plane` | installs and successes one to one, what replies say, how lists change | three calls: two updates inside one `GetConfig`, the least that tears a pair; each call once, so the versions are bounded; two lists that compile, one with a blank, and one that is refused half way |
| `upstream` | deadline, failover order, deserved failures, termination | three servers (the C resolver's limit) in every state of health, 5 s and 10 s as in the program, in ticks of 1 s: two silent servers use up the deadline exactly |
| `lifecycle` | exit codes, late failures, blocked listeners, ready flag, a signal ends the process | all four servers, two handlers each: one that ends and one that does not |
| `frontend` | what a scrape may show, balance of counters, one fitting reply, what `GetStats` reports | two requests of any kind: orders between counters are broken by one handler, interleavings by two |
| `health` | what verdicts rest on, who may stop the checker, every other call returns | two probes and a setter of any kind, two checks of any kinds: a probe's check meets a writer, and another probe is parked behind it |
| `logging` | cores and flags, order of a query's lines and what they say of its end, one logger for a block | one query, two loggers, three changes: enough to switch debug off and on again inside a block, or to make a logger, change it and make it the default. Handlers share nothing but the loggers, so a second adds nothing that a change does not; the proofs are for any number |
| `config` | precedence, causes of an exit | one setting of each type; variable and flag hold every sort of text: absent, empty, blank lines, malformed, good |
| `bare_ipv6`, `ready_probe`, `debug_alias`, `empty_flag` | counterexamples, section 6 | the smallest instances above |

`TypeOK` of `Config` and the inductive invariants are not in the runs: the proofs show them for all
instances.

Deadlock is checked in the two runs of `MCRouter`, where a slot can always be used again. In the other
runs it is off because the modelled system may stop: a process exits, or each call was made and is done.
That a call does not hang is then a liveness property of its own (`EveryCallEnds`, `EveryCallReturns`,
`SignalEndsProcess`).

Fairness. `Router`: weak fairness of the steps of a call that has begun, none of arrivals and updates; an
exchange ends because `Upstream`'s `EveryCallEnds` says so, and a runnable goroutine is run by the Go
scheduler; the matchers' locks are held for bounded work and never while another is taken. `Health`: the
same for the steps of a probe that has begun and for a setter that has announced itself, and a plain check
returns; a goroutine that waits for the lock is not runnable, so fairness alone does not let it through.
`Upstream`: time passes and the handler runs. `Lifecycle`: the main goroutine runs and the deadline passes;
handlers get none, since they may be calls without a deadline. `ControlPlane`, `Frontend`, `Logging` and
`Config` have safety properties only and assume none.

## 5. Proofs

TLC's runs are small instances; the following holds for every value of the constants. Each proof
module has the same shape: an inductive invariant `Inv` that holds the properties and what they need,
`InitInv`, a lemma for each action or group of actions, `InvHolds`, and then a theorem for each property.

Assumptions, all named and evaluated by TLC in the runs: `MatcherAssumption` (the trimmed text of an input
is an expression, a broken one or blank, and these differ), `WiringAssumption` (answers are sequences of
records), `RouterAssumption` (questions are names or absent, updates are lists of texts, configurations
are `RouterConfig`s), `UpstreamAssumption` (resolvers are lists of addresses, a server that answers is
quicker than the client's timeout), `LifecycleAssumption` (handlers are bounded by some number),
`FrontendAssumption` (finitely many requests, without which a count means nothing),
`HealthAssumption` and `LoggingAssumption` (goroutines, loggers and kinds are told apart) and
`ConfigAssumption` (every setting has a type, a default and texts; default lists compile).

Two definitions loop over data, `Compile` of `Matcher` and `SumTo` of `Upstream`. They are recursive
functions on `0 .. n`, and what they compute is proved by induction: the library's induction theorems take
an operator as a parameter, which no prover here can instantiate, but a set of numbers without a least
element is empty (`NatLessThanWellFounded`, `WFMin`), and that gives induction for a set (`NatInduct`).

**Router** (`RouterProofs`). `Inv` has a conjunct for each control state. It is needed because no property
of a finished call is inductive: that a settlement is legal rests on what was matched several steps before,
against a list that may be gone. The conjuncts therefore speak of the window, which only grows during a
call (`Missed` and `Found` are stable), and of the log. `Looking` is the loop's invariant: every alias
before the present one was missed by some list in the window. The theorems:

- `CompileTheorem`: for any texts, the list that they compile to is a sequence of expressions that
  matches what one of the texts matches, and it names the first text that does. Everything else about
  lists rests on this, that their entries are expressions included.
- `TypeCorrect`, `InvHolds`: types, at most two exchanges, and the invariant.
- `RouterImplementsContract`: under the mapping `Outcome` a step of a call that does not end it changes
  nothing, the step that ends it is `Settle`, `Arrive` is `Submit`, `Update` is `Change`.
- `LabelTheorem`, `CNAMEVerdictTheorem`, `ExactnessTheorem`: the properties of the run, from `Inv`.
- `CauseTheorem`, for routers that `NewApp` builds (`ProgramWirings`, true of the
  configurations of `debug_alias` and of the program whatever its settings): a call fails only for a
  missing question or a failed exchange, which is then the last; an answer is that of the last
  exchange. Without the hypothesis it is false: a
  `RouterConfig` without any resolver fails a call that has exchanged nothing.
- `NeverStuckTheorem`, `CallsTheorem`: see "Progress" below.

**Admin calls** (`ControlPlaneProofs`). `Inv` says of each call what it did and saw, that the version it
owns is its own inputs compiled, and of each version that exactly one successful call owns it; so
`AcknowledgedTheorem` has both directions, and lists cannot be mixed up between calls. The pair in force is
always one that a running call has seen, and what a `GetConfig` between its two reads holds is `Consistent`
with whatever the CNAME list may become: either the pair was in force, or the request list has moved on.
That case split is the heart of `OthersKeep`, which covers every step of another call. The theorems:
`TypeCorrect`, `InvHolds`, `ReadsOwnUpdateTheorem`, `AcknowledgedTheorem`, `TornTheorem` and, for `Router`'s
sake, `ChangesTheorem` and `UpdateTheorem`. The last is a refinement: `Routing` is `Router` with the newest
versions for `lists`, a matcher there if it is configured, and one call of `Route` that began when the
program did, whose window is therefore every version so far. Each step of an admin call is `Routing!Update`,
or changes nothing that this call can see. So what `RouterProofs` shows for any updates holds beside this
code. The invariant holds without assuming that `Calls` is finite.

**Exchanges** (`UpstreamProofs`). `WithinBudget` needs the clock's bounds while an exchange waits
(`WaitInv`): it began before the deadline and is cut off at the sooner of its two limits. For
`AnswerFromFirstLive` the invariant says that no server passed over can answer (`Passed`) or the deadline
has come (`TimeInv`): a server that answers is left behind only by `Timeout`, and since it is quicker than
`Try`, that timeout was the deadline's. `FailureTheorem` needs an account (`SpentInv`): unless the deadline
has come, the time spent is at most what the resolvers before this one and the servers before the present
one cost, each a prefix sum; when every resolver has a good server, a failure can only be `Expired`, and
then the account is at least the deadline. The sum adds `Latency` for a refusal too, which is an upper
bound. `TimeTheorem` counts instead: with or without a deadline a call takes at most `Try` for every
server it may ask, the only bound there is for a gRPC client's call.

**Life cycle** (`LifecycleProofs`). `ChannelInv`: a listening goroutine has one message at most, so two
places are enough. `StageInv` and `DrainInv`: nothing stops before the shutdown begins, and as long as no
shutdown has failed, every server that it is past is stopped and empty; hence a clean exit drops nothing.
`FailInv`: whatever fails was the deadline or a DNS server that had not been listening.

**Counters** (`FrontendProofs`). A counting argument: `Due(r, c)` says from the place of request `r` alone
whether it has incremented `c` or will before its next other step, `Has` that it has, and `Books` that
each counter is the number of requests that have. Every step moves one request in or out of one of these
sets, so no interleaving matters; orders between counters are inclusions of sets and the balance at rest
is their equality. `GetStats` is bounded by the same sets. A scrape needs one thing more (`ScrapeInv`): the
requests that have incremented a counter since it was read are among those that the scrape saw at work
(`Growing`), so its value falls short by no more than their number.

**Health** (`HealthProofs`). `LockInv` says that a handler whose check is under way reads, which makes
`ClashIsForever` provable: the writer it meets waits for it and it for the writer, and no step of any
other goroutine changes either. `ProbeInv` says what a probe has seen: the present state, and one in which
the healthy flag was as it read it, which is not the same one. The list of checks cannot change while the
lock is held, so the checks run belong to one state seen.

**Logging** (`LoggingProofs`). Each kind of line has a place in the order of a query; the invariant says
that each line written is before the least place its handler may still write (`Coming`) and that each
handler has left the lines it should and none that its outcome does not call for. `CoreFollowsFlags` is
inductive by itself, which is the point: every constructor and setter gives it whole.

**Configuration** (`ConfigProofs`). `Inv` says what the `Config` holds after each pass; that the second
pass keeps what it should follows setting by setting.

**Progress.** Liveness itself is beyond the prover, which has no rule for fairness and `ENABLED`. What can
be proved is the part that is about the code: whoever is under way has a step to take, its guards spelled
out, and each step brings it nearer its end by a measure that nobody else takes back. Then only fairness
is left to be assumed, and that its conclusion follows is left to TLC.

| Liveness (TLC) | Never stuck | Every step leads on |
|---|---|---|
| `EveryCallEnds` of `Router` | `NeverStuckTheorem`: the loop over the aliases always has a first position to look at | `CallsTheorem`: a stage further, or one alias less |
| `EveryCallEnds` of `Upstream` | `NeverStuckTheorem`: an exchange has not missed its own limit | `CallTheorem`: one server more is done with, or time passes within the limit |
| `EveryCallReturns` of `Health` | `UnblockedTheorem`: while no check has met a writer, somebody may go on. A reader waits for a writer, a writer for readers, and readers for nobody (`WaitInv`) | `StepsTheorem`: one check more, or the next place |
| `SignalEndsProcess` of `Lifecycle` | `MainIsFreeTheorem`: only a missing signal, or handlers before the deadline, hold the main goroutine | `ShutdownTheorem`: ten steps at most from the signal to the exit |

Each is a theorem for any number of calls, aliases, servers, probes, checks and handlers. The formulas are
not in the runs, which are small instances of them. The steps of an admin call are a straight line without
a wait: no liveness is stated of them.

Only model-checked: all liveness (`EveryCallEnds`, `EveryCallReturns`, `SignalEndsProcess`), that is, the
step from these theorems and fairness to the end, and the four counterexamples of section 6, which are about
one instance each.

## 6. Where the code and its documentation part

- `bare_ipv6`: an IPv6 name server of resolv.conf is taken to have a port, dialled without one and never
  reached (`resolver.go:90`).
- `ready_probe`: `/readyz` says ready although a DNS socket could not be had, if that shows after
  `Start` has looked (`main.go:196`, `monitoring.adoc:596`).
- `debug_alias`: the debug record names the first alias of the second answer beside the pattern that an
  alias of the first one matched (`dns/server.go:219`, `workflow.adoc:690`).
- `empty_flag`: a pattern list or resolver whose flag is given but empty takes the value of its variable
  (`config.go:122`), where `config.go:147` says that variables do not take precedence over flags.
  `PrecedenceIsRight` states the order with this exception.

Met while modelling, without a run of their own; where a property is named, it states exactly what the code
does instead:

- `Match` and `MatchingPattern` lock separately, so an update between them leaves a matched answer
  without its label (`router.go:103`, `monitoring.adoc:179`); `LabelLostOnlyByUpdate` says when.
- `GetConfig` may report a pair of lists that was never in force (`TornOnlyByTwoUpdates` says when).
- The first lookup at the explicit resolver is said to be non-recursive (`router.go:73`), and `NewApp`
  builds that resolver with recursion on (`main.go:69`).
- CoreDNS queries are in the requests' counter and in no other: not among the errors, the responses by code
  or the resolvers used, of which `monitoring.adoc:257`, `:303` and `:130` make no such exception
  (`grpc/server.go:318`). `BooksBalance` says by how much each counter falls short. `Query` also drops the
  error of `Route` without a log line, unlike its two siblings.
- `GetStats` counts gRPC calls only and leaves its three maps empty, where `switcher.proto:114` says "Total
  requests processed" and has counts by resolver and pattern follow (`StatsCountGrpcCalls`).
- A SERVFAIL made by the server itself is not logged as a response, and a failed CoreDNS query not at all,
  where `logging.adoc:238` says "Logged for each DNS response" (`JournalInOrder`).
- `WithComponent` of a logger that has a component writes two component fields.
- `HealthHandler` and `ReadyHandler` set the content type after the header was sent, when it has no
  effect (`health.go:122`, `health.go:147`).
- Expressions are compiled as given, hence case-sensitive, where `architecture.adoc:126` says otherwise.

## 7. Not modelled

- What a regular expression matches, the bytes of a message, record formatting, log lines: libraries or
  wording; a name is a model value, with its trailing dot trimmed.
- zap's encoders and sinks, `Sync`, and the leveled functions that no handler calls (`Warn`, `Debugf` and
  their likes), which are `Info` with another level.
- Durations, uptime and timestamps, but for the timeouts and the deadline in `Upstream`.
- Generated protocol code, chart, images and integration tests: no behaviour of the process.
- Goroutine counts and memory: there is no bound in the code.
