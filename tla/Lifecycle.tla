------------------------------ MODULE Lifecycle ------------------------------
(***************************************************************************)
(* The life of the process: NewApp's servers started, run and shut down by *)
(* cmd/nameserver-switcher/main.go, the Start and Shutdown methods of the  *)
(* DNS and gRPC servers, the goroutines that listen, the handlers they     *)
(* start, the ready flag, the signal and the deadline of the shutdown.     *)
(*                                                                         *)
(* What the DNS, gRPC and HTTP libraries do when a server is asked to stop *)
(* is modelled from how this code relies on it: no new work is accepted,   *)
(* the call returns once the handlers are done or, with the context's      *)
(* error, once the deadline has passed; a DNS server that never got its    *)
(* socket answers with an error.  os.Exit takes every goroutine with it.   *)
(***************************************************************************)
EXTENDS Naturals, Sequences, FiniteSets

CONSTANT MaxInFlight  \* bound on the handlers of one server at a time

ASSUME LifecycleAssumption == MaxInFlight \in Nat \ {0}

\* The order in which Shutdown stops the servers.
Order == <<"http", "grpc", "udp", "tcp">>
Servers == {"http", "grpc", "udp", "tcp"}
DNS == {"udp", "tcp"}

\* Mutant of Capacity.
CapacityOne == 1

\* The buffer of errCh in Start of the DNS server.
Capacity == 2

VARIABLES
  pc,       \* where the main goroutine is
  at,       \* the server that Shutdown is at: Order[at]
  code,     \* the exit code
  failed,   \* Shutdown's shutdownErr or errs is set
  ready,    \* the flag of the health checker
  listener, \* state of each server's goroutine and socket
  errCh,    \* messages in errCh, which is read once
  sigCh,    \* messages in sigCh, of capacity 1
  expired,  \* the shutdown context is done
  inFlight, \* handlers at work
  dropped   \* some handler was at work when the process ended (history)

vars == <<pc, at, code, failed, ready, listener, errCh, sigCh, expired,
          inFlight, dropped>>

PCs == {"dns", "check", "grpc", "http", "ready", "notify", "wait", "notReady",
        "close", "drain", "exited", "killed"}

States == {"off", "starting", "failing", "unbound", "serving", "broken",
           "stopping", "stopped"}

Init ==
  /\ pc = "dns" /\ at = 1 /\ code = 0 /\ failed = FALSE /\ ready = FALSE
  /\ listener = [s \in Servers |-> "off"]
  /\ errCh = 0 /\ sigCh = 0 /\ expired = FALSE
  /\ inFlight = [s \in Servers |-> 0] /\ dropped = FALSE

Alive == pc \notin {"exited", "killed"}

Gone(label, c) ==
  /\ pc' = label /\ code' = c
  /\ dropped' = (dropped \/ \E s \in Servers : inFlight[s] > 0)
-----------------------------------------------------------------------------
\* The main goroutine: App.Start.

\* DNSServer.Start launches both listeners and sleeps for a while.
StartDNS ==
  /\ pc = "dns"
  /\ listener' = [s \in Servers |-> IF s \in DNS THEN "starting" ELSE listener[s]]
  /\ pc' = "check"
  /\ UNCHANGED <<at, code, failed, ready, errCh, sigCh, expired, inFlight, dropped>>

\* The select with a default: a failure reported by now is fatal, a later one
\* stays in errCh for good.
CheckDNS ==
  /\ pc = "check"
  /\ IF errCh > 0 THEN errCh' = errCh - 1 /\ Gone("exited", 1)
     ELSE pc' = "grpc" /\ UNCHANGED <<errCh, code, dropped>>
  /\ UNCHANGED <<at, failed, ready, listener, sigCh, expired, inFlight>>

\* GRPCServer.Start binds in the main goroutine.
StartGRPC ==
  /\ pc = "grpc"
  /\ \/ /\ listener' = [listener EXCEPT !["grpc"] = "serving"]
        /\ pc' = "http" /\ UNCHANGED <<code, dropped>>
     \/ Gone("exited", 1) /\ UNCHANGED listener
  /\ UNCHANGED <<at, failed, ready, errCh, sigCh, expired, inFlight>>

StartHTTP ==
  /\ pc = "http"
  /\ listener' = [listener EXCEPT !["http"] = "starting"]
  /\ pc' = "ready"
  /\ UNCHANGED <<at, code, failed, ready, errCh, sigCh, expired, inFlight, dropped>>

MarkReady ==
  /\ pc = "ready" /\ pc' = "notify" /\ ready' = TRUE
  /\ UNCHANGED <<at, code, failed, listener, errCh, sigCh, expired, inFlight, dropped>>

\* Run: signal.Notify, and the wait for a signal.
Notify ==
  /\ pc = "notify" /\ pc' = "wait"
  /\ UNCHANGED <<at, code, failed, ready, listener, errCh, sigCh, expired,
                 inFlight, dropped>>

ReceiveSignal ==
  /\ pc = "wait" /\ sigCh > 0
  /\ sigCh' = sigCh - 1 /\ pc' = "notReady"
  /\ UNCHANGED <<at, code, failed, ready, listener, errCh, expired, inFlight, dropped>>
-----------------------------------------------------------------------------
\* The main goroutine: App.Shutdown, one server after the other.

\* Mutant of MarkNotReady: the flag stays set.
StayReady ==
  /\ pc = "notReady" /\ pc' = "close"
  /\ UNCHANGED <<at, code, failed, ready, listener, errCh, sigCh, expired,
                 inFlight, dropped>>

MarkNotReady ==
  /\ pc = "notReady" /\ pc' = "close" /\ ready' = FALSE
  /\ UNCHANGED <<at, code, failed, listener, errCh, sigCh, expired, inFlight, dropped>>

\* Mutant of Proceed: off by one.
ProceedPastEnd ==
  IF at <= Len(Order) THEN /\ at' = at + 1 /\ pc' = "close"
                           /\ UNCHANGED <<code, dropped>>
  ELSE Gone("exited", IF failed' THEN 1 ELSE 0) /\ UNCHANGED at

\* The next server, or the end of Run and of main.
Proceed ==
  IF at < Len(Order) THEN /\ at' = at + 1 /\ pc' = "close"
                          /\ UNCHANGED <<code, dropped>>
  ELSE Gone("exited", IF failed' THEN 1 ELSE 0) /\ UNCHANGED at

\* Mutant of Close: what holds for a DNS server is taken to hold for all.
CloseStrictly ==
  /\ pc = "close"
  /\ LET s == Order[at]
     IN  IF listener[s] \in {"starting", "failing", "unbound"}
         THEN failed' = TRUE /\ UNCHANGED listener /\ Proceed
         ELSE /\ listener' = [listener EXCEPT ![s] = "stopping"]
              /\ pc' = "drain" /\ UNCHANGED <<at, code, failed, dropped>>
  /\ UNCHANGED <<ready, errCh, sigCh, expired, inFlight>>

\* Server Order[at] is told to stop.  One that is not there yet is told too,
\* except a DNS server, whose Shutdown fails until it has its socket.
Close ==
  /\ pc = "close"
  /\ LET s == Order[at]
     IN  IF s \in DNS /\ listener[s] \in {"starting", "failing", "unbound"}
         THEN failed' = TRUE /\ UNCHANGED listener /\ Proceed
         ELSE /\ listener' = [listener EXCEPT ![s] = "stopping"]
              /\ pc' = "drain" /\ UNCHANGED <<at, code, failed, dropped>>
  /\ UNCHANGED <<ready, errCh, sigCh, expired, inFlight>>

\* The handlers are done.
Drained ==
  /\ pc = "drain" /\ inFlight[Order[at]] = 0
  /\ listener' = [listener EXCEPT ![Order[at]] = "stopped"]
  /\ UNCHANGED failed /\ Proceed
  /\ UNCHANGED <<ready, errCh, sigCh, expired, inFlight>>

\* Mutants of GiveUp: the error is only logged; a server of long calls is
\* waited for.
GiveUpQuietly ==
  /\ pc = "drain" /\ expired
  /\ listener' = [listener EXCEPT ![Order[at]] = "stopped"]
  /\ UNCHANGED failed /\ Proceed
  /\ UNCHANGED <<ready, errCh, sigCh, expired, inFlight>>

GiveUpExceptGRPC ==
  /\ pc = "drain" /\ expired /\ Order[at] # "grpc"
  /\ listener' = [listener EXCEPT ![Order[at]] = "stopped"]
  /\ failed' = TRUE /\ Proceed
  /\ UNCHANGED <<ready, errCh, sigCh, expired, inFlight>>

\* The deadline passes first; the handlers are left where they are, and the
\* gRPC server's are cancelled.
GiveUp ==
  /\ pc = "drain" /\ expired
  /\ listener' = [listener EXCEPT ![Order[at]] = "stopped"]
  /\ failed' = TRUE /\ Proceed
  /\ UNCHANGED <<ready, errCh, sigCh, expired, inFlight>>

Main == \/ StartDNS \/ CheckDNS \/ StartGRPC \/ StartHTTP \/ MarkReady
        \/ Notify \/ ReceiveSignal
        \/ MarkNotReady \/ Close \/ Drained \/ GiveUp
-----------------------------------------------------------------------------
\* The listening goroutines.

Bind(s) ==
  /\ Alive /\ listener[s] = "starting"
  /\ listener' = [listener EXCEPT ![s] = "serving"]
  /\ UNCHANGED <<pc, at, code, failed, ready, errCh, sigCh, expired, inFlight, dropped>>

\* The socket cannot be had: the HTTP server's goroutine logs it and ends.
BindFails(s) ==
  /\ Alive /\ listener[s] = "starting"
  /\ listener' = [listener EXCEPT ![s] = IF s \in DNS THEN "failing" ELSE "unbound"]
  /\ UNCHANGED <<pc, at, code, failed, ready, errCh, sigCh, expired, inFlight, dropped>>

\* The goroutine of a DNS server sends on errCh.
Report(s) ==
  /\ Alive /\ listener[s] = "failing" /\ errCh < Capacity
  /\ listener' = [listener EXCEPT ![s] = "unbound"]
  /\ errCh' = errCh + 1
  /\ UNCHANGED <<pc, at, code, failed, ready, sigCh, expired, inFlight, dropped>>

\* A server that was serving fails.  Shutdown treats it as one still serving;
\* what a DNS server sends on errCh is read only if Start has still to look.
Break(s) ==
  /\ Alive /\ listener[s] = "serving"
  /\ listener' = [listener EXCEPT ![s] = "broken"]
  /\ errCh' = IF s \in DNS THEN errCh + 1 ELSE errCh
  /\ s \in DNS => errCh < Capacity
  /\ UNCHANGED <<pc, at, code, failed, ready, sigCh, expired, inFlight, dropped>>

Accept(s) ==
  /\ Alive /\ listener[s] = "serving" /\ inFlight[s] < MaxInFlight
  /\ inFlight' = [inFlight EXCEPT ![s] = @ + 1]
  /\ UNCHANGED <<pc, at, code, failed, ready, listener, errCh, sigCh, expired, dropped>>

\* A handler returns.
Finish(s) ==
  /\ Alive /\ inFlight[s] > 0
  /\ inFlight' = [inFlight EXCEPT ![s] = @ - 1]
  /\ UNCHANGED <<pc, at, code, failed, ready, listener, errCh, sigCh, expired, dropped>>

\* SIGINT or SIGTERM.  Before Notify it ends the process; afterwards it goes
\* to sigCh, or nowhere if that is full.
Signal ==
  /\ Alive
  /\ IF pc \in {"dns", "check", "grpc", "http", "ready", "notify"}
     THEN Gone("killed", 2) /\ UNCHANGED sigCh
     ELSE sigCh' = 1 /\ UNCHANGED <<pc, code, dropped>>
  /\ UNCHANGED <<at, failed, ready, listener, errCh, expired, inFlight>>

\* The context that Run gives to Shutdown runs out.
Expire ==
  /\ pc \in {"notReady", "close", "drain"} /\ ~ expired
  /\ expired' = TRUE
  /\ UNCHANGED <<pc, at, code, failed, ready, listener, errCh, sigCh, inFlight, dropped>>

Next ==
  \/ Main \/ Signal \/ Expire
  \/ \E s \in Servers : \/ Bind(s) \/ BindFails(s) \/ Report(s) \/ Break(s)
                        \/ Accept(s) \/ Finish(s)

\* The main goroutine runs on and time passes; handlers may take for ever.
Spec == Init /\ [][Next]_vars /\ WF_vars(Main) /\ WF_vars(Expire)
-----------------------------------------------------------------------------
\* Shutdown is at one of the servers, and neither channel overflows.
TypeOK ==
  /\ pc \in PCs /\ at \in DOMAIN Order /\ code \in 0 .. 2
  /\ failed \in BOOLEAN /\ ready \in BOOLEAN /\ expired \in BOOLEAN
  /\ listener \in [Servers -> States]
  /\ errCh \in 0 .. Capacity /\ sigCh \in 0 .. 1
  /\ inFlight \in [Servers -> 0 .. MaxInFlight]
  /\ dropped \in BOOLEAN

\* An exit code of 0 says that no request was cut off in any server, whatever
\* was accepted while the others were stopped (main.go:215-235).
CleanExitDropsNothing == pc = "exited" /\ code = 0 => ~ dropped

\* An exit code of 1 has one of three causes: a server could not start, the
\* shutdown took longer than its deadline, or a DNS server without a socket,
\* which nobody had noticed, was asked to stop and so never stopped, even if it
\* has its socket by now (main.go:172-184, 215-232).
ErrorExitIsExplained ==
  pc = "exited" /\ code = 1 =>
    \/ ~ ready /\ listener["http"] = "off"
    \/ expired
    \/ \E s \in DNS : listener[s] # "stopped"

\* No listening goroutine of the DNS server blocks on errCh, although it is
\* read at most once (dns/server.go:69-94).
NoListenerBlocks ==
  \A s \in DNS : listener[s] = "failing" => errCh < Capacity

\* From the moment the first server stops accepting, /readyz has ceased to
\* say that the process is ready (main.go:211-215).
NotReadyWhileClosing ==
  (\E s \in Servers : listener[s] \in {"stopping", "stopped"}) => ~ ready

\* Once a signal is received the process exits, even if handlers never return
\* (main.go:247-255).
SignalEndsProcess == pc = "wait" /\ sigCh = 1 ~> pc = "exited"

\* monitoring.adoc says of the readiness check that it "Indicates if the
\* application is ready to serve traffic": then /readyz says so only while the
\* sockets of the other servers are there.
ReadyMeansServing ==
  listener["http"] = "serving" /\ ready =>
    \A s \in Servers : listener[s] = "serving"
=============================================================================
