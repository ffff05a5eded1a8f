------------------------------- MODULE Logging -------------------------------
(***************************************************************************)
(* internal/logging/logging.go: loggers, the default logger, and the lines *)
(* that the handlers of the DNS server and of the CoreDNS service write    *)
(* through it, while other goroutines set up, change and swap loggers.     *)
(* Every method takes the logger's lock for as long as it runs and waits   *)
(* for nothing there, so a method is one action; a handler's log statement *)
(* is two, since it asks for the default logger first, under a lock of its *)
(* own, and LogDNSDebug is one for its flag and one for each of its lines. *)
(*                                                                         *)
(* zap is external: a core has a level, an encoder and the fields given to *)
(* With.  A line is reduced to its writer, what it is about, the logger    *)
(* and what the core made of it.  The program changes no logger after      *)
(* NewApp: Changes stands for users of the package, and MaxChanges bounds  *)
(* them; a handler serves one query, which bounds the output.              *)
(***************************************************************************)
EXTENDS Naturals, Sequences

CONSTANTS
  Handlers,    \* the queries, each with a goroutine
  Loggers,     \* slots for loggers
  Main,        \* the one that NewApp makes
  Components,  \* component names
  Nil,
  MaxChanges

Formats == {"text", "json"}

\* A core and With, as every constructor and setter puts them together.
Core(format, debug, component) ==
  [level |-> IF debug THEN "debug" ELSE "info", encoder |-> format,
   fields |-> IF component = Nil THEN <<>> ELSE <<component>>]

\* A logger whose core agrees with its flags.
Built(format, debug, component) ==
  [format |-> format, debug |-> debug, component |-> component,
   zap |-> Core(format, debug, component)]

\* Mutant of NewLogger: no default for the format.
NewLoggerAsGiven(format, debug, component) == Built(format, debug, component)

NewLogger(format, debug, component) ==
  Built(IF format = "" THEN "text" ELSE format, debug, component)

\* Mutant of SetDebug: the core is not rebuilt.
SetDebugFlagOnly(l, debug) == [l EXCEPT !.debug = debug]

SetDebug(l, debug) == Built(l.format, debug, l.component)

\* Mutant of SetFormat: the core is rebuilt at the level of a new logger.
SetFormatAtInfo(l, format) ==
  [Built(format, l.debug, l.component) EXCEPT !.zap.level = "info"]

SetFormat(l, format) == Built(format, l.debug, l.component)

\* The core is the parent's with one more field, which a component of the
\* parent's own does not lose.
WithComponent(l, component) ==
  [l EXCEPT !.component = component, !.zap.fields = Append(@, component)]

AllLoggers ==
  [format : Formats, debug : BOOLEAN, component : Components \cup {Nil},
   zap : [level : {"debug", "info"}, encoder : Formats, fields : Seq(Components)]]

ASSUME LoggingAssumption ==
  /\ Main \in Loggers /\ Nil \notin Loggers \cup Components
  /\ Nil \notin AllLoggers /\ MaxChanges \in Nat

\* What a line of a query is about; the second four are those of LogDNSDebug.
DebugParts == {"pattern", "cname", "resolver", "full"}

Parts == {"request", "error", "response", "writeError"} \cup DebugParts

\* The record that LogDNSDebug is given names a resolver and a response; a
\* pattern or an alias only if there was a match and its label was not lost.
Blocks ==
  {<<"resolver", "full">>, <<"pattern", "resolver", "full">>,
   <<"cname", "resolver", "full">>, <<"pattern", "cname", "resolver", "full">>}

VARIABLES
  cfg,      \* LogRequests, LogResponses and Debug of the configuration
  loggers,  \* loggers[l]: a logger, or Nil
  default,  \* defaultLogger
  output,   \* the lines written
  kind,     \* kind[h]: which handler h is
  pc,       \* pc[h]: what it does next
  via,      \* via[h]: the logger it was given, or Nil
  block,    \* block[h]: the lines of its debug block
  at,       \* at[h]: the one that comes next
  off,      \* off[h]: debug was off in the block's logger during the block
  changes   \* changes made so far

vars == <<cfg, loggers, default, output, kind, pc, via, block, at, off, changes>>

Init ==
  /\ cfg \in [requests : BOOLEAN, responses : BOOLEAN, debug : BOOLEAN]
  /\ \E format \in Formats :
       loggers = [l \in Loggers |-> IF l = Main THEN NewLogger(format, cfg.debug, Nil)
                                    ELSE Nil]
  /\ default = Main
  /\ output = <<>>
  /\ kind \in [Handlers -> {"dns", "coredns"}]
  /\ pc = [h \in Handlers |-> "arrive"]
  /\ via = [h \in Handlers |-> Nil]
  /\ block = [h \in Handlers |-> <<>>]
  /\ at = [h \in Handlers |-> 1]
  /\ off = [h \in Handlers |-> FALSE]
  /\ changes = 0

Goto(h, label) == pc' = [pc EXCEPT ![h] = label]

Arrive(h) ==
  /\ pc[h] = "arrive"
  /\ Goto(h, IF cfg.requests THEN "request" ELSE "route")
  /\ UNCHANGED <<cfg, loggers, default, output, kind, via, block, at, off, changes>>

\* The places where a function of the package is called.
Calls == {"request", "error", "response", "debug", "writeError"}

\* Default(): the function goes on with what was the default logger now.
Default(h) ==
  /\ pc[h] \in Calls /\ via[h] = Nil
  /\ via' = [via EXCEPT ![h] = default]
  /\ UNCHANGED <<cfg, loggers, default, output, kind, pc, block, at, off, changes>>

Line(h, part, l) == [by |-> h, part |-> part, logger |-> l, zap |-> loggers[l].zap]

AfterResponse == IF cfg.debug THEN "debug" ELSE "reply"

\* The logger is let go of at the end of the function.
Log(h, part, next) ==
  /\ pc[h] = part /\ via[h] # Nil
  /\ output' = Append(output, Line(h, part, via[h]))
  /\ via' = [via EXCEPT ![h] = Nil]
  /\ Goto(h, next)
  /\ UNCHANGED <<cfg, loggers, default, kind, block, at, off, changes>>

\* Mutant of LogError: the handler does not return after the error of Route.
LogErrorAndGoOn(h) == Log(h, "error", "response") \/ Log(h, "writeError", "done")

\* Info and Errorf write at every level that a core of this package has.
LogDNSRequest(h) == Log(h, "request", "route")

LogError(h) == Log(h, "error", "failed") \/ Log(h, "writeError", "done")

LogDNSResponse(h) == Log(h, "response", AfterResponse)

\* Route returns.  A DNS handler logs its error, a CoreDNS handler does not;
\* either of them sends SERVFAIL and is through.
Route(h) ==
  /\ pc[h] = "route"
  /\ \/ Goto(h, IF kind[h] = "dns" THEN "error" ELSE "failed")
     \/ Goto(h, IF cfg.responses THEN "response" ELSE AfterResponse)
  /\ UNCHANGED <<cfg, loggers, default, output, kind, via, block, at, off, changes>>

\* LogDNSDebug reads the flag under the lock, and lets go of it.
LogDNSDebug(h) ==
  /\ pc[h] = "debug" /\ via[h] # Nil
  /\ \E lines \in Blocks : block' = [block EXCEPT ![h] = lines]
  /\ IF loggers[via[h]].debug THEN Goto(h, "lines") /\ UNCHANGED <<via, off>>
     ELSE /\ Goto(h, "reply") /\ via' = [via EXCEPT ![h] = Nil]
          /\ off' = [off EXCEPT ![h] = TRUE]
  /\ UNCHANGED <<cfg, loggers, default, output, kind, at, changes>>

\* Mutant of Debug: the default logger is asked for again by every line.
DebugByDefault(h) ==
  /\ pc[h] = "lines" /\ at[h] <= Len(block[h])
  /\ output' = IF loggers[default].debug
               THEN Append(output, Line(h, block[h][at[h]], default)) ELSE output
  /\ at' = [at EXCEPT ![h] = @ + 1]
  /\ UNCHANGED <<cfg, loggers, default, kind, pc, via, block, off, changes>>

\* One line of the block: Debug takes the lock and reads the flag again, and
\* the core has the last word.
Debug(h) ==
  /\ pc[h] = "lines" /\ at[h] <= Len(block[h])
  /\ LET l == loggers[via[h]] IN
       output' = IF l.debug /\ l.zap.level = "debug"
                 THEN Append(output, Line(h, block[h][at[h]], via[h])) ELSE output
  /\ at' = [at EXCEPT ![h] = @ + 1]
  /\ UNCHANGED <<cfg, loggers, default, kind, pc, via, block, off, changes>>

EndOfBlock(h) ==
  /\ pc[h] = "lines" /\ at[h] > Len(block[h])
  /\ via' = [via EXCEPT ![h] = Nil]
  /\ Goto(h, "reply")
  /\ UNCHANGED <<cfg, loggers, default, output, kind, block, at, off, changes>>

\* The reply is written; a DNS reply that cannot be is logged.
Reply(h) ==
  /\ pc[h] = "reply"
  /\ \/ Goto(h, "done")
     \/ kind[h] = "dns" /\ Goto(h, "writeError")
  /\ UNCHANGED <<cfg, loggers, default, output, kind, via, block, at, off, changes>>

Step(h) ==
  \/ Arrive(h) \/ Default(h) \/ LogDNSRequest(h) \/ LogError(h) \/ LogDNSResponse(h)
  \/ Route(h) \/ LogDNSDebug(h) \/ Debug(h) \/ EndOfBlock(h) \/ Reply(h)

Exists(l) == loggers[l] # Nil

\* A logger is given new contents; off remembers the blocks it was off for.
Assign(l, logger) ==
  /\ loggers' = [loggers EXCEPT ![l] = logger]
  /\ off' = [h \in Handlers |-> off[h] \/ (pc[h] = "lines" /\ via[h] = l /\ ~ logger.debug)]
  /\ UNCHANGED default

\* NewLogger, WithComponent, SetDebug, SetFormat and SetDefault.
Change ==
  /\ changes < MaxChanges /\ changes' = changes + 1
  /\ \/ \E l \in Loggers, f \in Formats \cup {""}, d \in BOOLEAN, c \in Components \cup {Nil} :
          ~ Exists(l) /\ Assign(l, NewLogger(f, d, c))
     \/ \E l, parent \in Loggers, c \in Components :
          ~ Exists(l) /\ Exists(parent) /\ Assign(l, WithComponent(loggers[parent], c))
     \/ \E l \in Loggers, d \in BOOLEAN : Exists(l) /\ Assign(l, SetDebug(loggers[l], d))
     \/ \E l \in Loggers, f \in Formats : Exists(l) /\ Assign(l, SetFormat(loggers[l], f))
     \/ \E l \in Loggers : Exists(l) /\ default' = l /\ UNCHANGED <<loggers, off>>
  /\ UNCHANGED <<cfg, output, kind, pc, via, block, at>>

Next == (\E h \in Handlers : Step(h)) \/ Change

Spec == Init /\ [][Next]_vars
-----------------------------------------------------------------------------
Labels == {"arrive", "route", "lines", "reply", "done", "failed"} \cup Calls

Lines == [by : Handlers, part : Parts, logger : Loggers,
          zap : [level : {"debug", "info"}, encoder : Formats, fields : Seq(Components)]]

\* The shapes of the variables; a block in progress has a logger.
TypeOK ==
  /\ cfg \in [requests : BOOLEAN, responses : BOOLEAN, debug : BOOLEAN]
  /\ loggers \in [Loggers -> AllLoggers \cup {Nil}]
  /\ default \in Loggers /\ Exists(default)
  /\ output \in Seq(Lines)
  /\ kind \in [Handlers -> {"dns", "coredns"}]
  /\ pc \in [Handlers -> Labels]
  /\ via \in [Handlers -> Loggers \cup {Nil}]
  /\ block \in [Handlers -> Blocks \cup {<<>>}]
  /\ at \in [Handlers -> Nat] /\ \A h \in Handlers : at[h] \in 1 .. Len(block[h]) + 1
  /\ off \in [Handlers -> BOOLEAN]
  /\ changes \in 0 .. MaxChanges
  /\ \A h \in Handlers : /\ via[h] # Nil => pc[h] \in Calls \cup {"lines"} /\ Exists(via[h])
                         /\ pc[h] = "lines" => via[h] # Nil

\* The core that writes agrees with the flags that the methods go by, after
\* any sequence of setters: each of them builds it anew from all the flags, so
\* none may forget one (logging.go:227-336).
CoreFollowsFlags ==
  \A l \in Loggers :
    Exists(l) =>
      LET logger == loggers[l] IN
      /\ logger.zap.level = (IF logger.debug THEN "debug" ELSE "info")
      /\ logger.zap.encoder = logger.format
      /\ IF logger.component = Nil THEN logger.zap.fields = <<>>
         ELSE /\ logger.zap.fields # <<>>
              /\ logger.zap.fields[Len(logger.zap.fields)] = logger.component

Written(h, part) == \E i \in DOMAIN output : output[i].by = h /\ output[i].part = part

\* The order in which the lines of one query may come.
Place == [request |-> 1, error |-> 2, response |-> 3, pattern |-> 4, cname |-> 5,
          resolver |-> 6, full |-> 7, writeError |-> 8]

\* The lines of a query come in the order of the handler's work, none twice,
\* and none that belongs to an answer beside the error of Route.  When it is
\* through, they say how it ended, whatever loggers were swapped in between: a
\* request line if those are configured, a response line if those are and the
\* query was answered, an error line if it failed and came over DNS.  So the
\* SERVFAIL that a failed query is answered with is in no response line, which
\* logging.adoc:238 has "Logged for each DNS response", and over CoreDNS in no
\* line at all (dns/server.go:134-235, grpc/server.go:302-366).
JournalInOrder ==
  /\ \A i, j \in DOMAIN output :
       i < j /\ output[i].by = output[j].by => Place[output[i].part] < Place[output[j].part]
  /\ \A h \in Handlers :
    /\ Written(h, "error") => \A part \in Parts : Written(h, part) => part \in {"request", "error"}
    /\ pc[h] \in {"done", "failed"} =>
         /\ Written(h, "request") <=> cfg.requests
         /\ Written(h, "response") <=> cfg.responses /\ pc[h] = "done"
         /\ Written(h, "error") <=> kind[h] = "dns" /\ pc[h] = "failed"

\* A line of a debug block is missing only if debug logging was off at some
\* moment of that block: LogDNSDebug reads the flag, lets go of the lock, and
\* every line reads it again (logging.go:531-565).
MissingLineIsExplained ==
  \A h \in Handlers :
    pc[h] \in {"reply", "done"} =>
      /\ Written(h, "response") /\ cfg.debug => block[h] # <<>>
      /\ ~ off[h] => \A i \in DOMAIN block[h] : Written(h, block[h][i])

\* The lines of one block are written by one logger, although SetDefault may
\* swap the default logger between them (logging.go:580-582).
BlockInOneLogger ==
  \A i, j \in DOMAIN output :
    /\ output[i].by = output[j].by
    /\ {output[i].part, output[j].part} \subseteq DebugParts
    => output[i].logger = output[j].logger
=============================================================================
