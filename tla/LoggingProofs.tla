---------------------------- MODULE LoggingProofs ----------------------------
(***************************************************************************)
(* Proofs about Logging for any handlers, loggers, components and changes: *)
(* the type invariant, that cores follow their flags, and what the lines   *)
(* of a query look like.  The invariant Inv says, of every line written,   *)
(* that its place is before what its handler may still write (Coming), and *)
(* of every handler, which lines it has left behind.                       *)
(***************************************************************************)
EXTENDS Logging, TLAPS

\* CoreFollowsFlags for one logger.
Follows(logger) ==
  /\ logger.zap.level = (IF logger.debug THEN "debug" ELSE "info")
  /\ logger.zap.encoder = logger.format
  /\ IF logger.component = Nil THEN logger.zap.fields = <<>>
     ELSE /\ logger.zap.fields # <<>>
          /\ logger.zap.fields[Len(logger.zap.fields)] = logger.component

\* The least place of a line that a handler at a label may still write.
Floor == [arrive |-> 1, request |-> 1, route |-> 2, error |-> 2, response |-> 3,
          debug |-> 4, lines |-> 8, reply |-> 8, writeError |-> 8, done |-> 9, failed |-> 9]

Least(label, lines, n) ==
  IF label = "lines" /\ n <= Len(lines) THEN Place[lines[n]] ELSE Floor[label]

Coming(h) == Least(pc[h], block[h], at[h])

\* Each line, by itself and beside any other of its handler.
LineInv(i) ==
  LET h == output[i].by  part == output[i].part IN
  /\ Place[part] < Coming(h)
  /\ part = "error" => pc[h] = "failed" /\ kind[h] = "dns"
  /\ part = "request" => cfg.requests
  /\ part = "response" => cfg.responses
  /\ part \in DebugParts /\ pc[h] = "lines" => output[i].logger = via[h]

PairInv(i, j) ==
  output[i].by = output[j].by =>
    /\ i < j => Place[output[i].part] < Place[output[j].part]
    /\ output[i].part = "error" => output[j].part \in {"request", "error"}
    /\ output[i].part \in DebugParts /\ output[j].part \in DebugParts =>
         output[i].logger = output[j].logger

\* What a handler has left behind, and what it may rely on.
Before == {"arrive", "request", "route", "error", "response", "debug"}

HandlerInv(h) ==
  /\ pc[h] = "request" => cfg.requests
  /\ pc[h] = "response" => cfg.responses
  /\ pc[h] \notin {"arrive", "request"} /\ cfg.requests => Written(h, "request")
  /\ pc[h] \in {"debug", "lines", "reply", "writeError", "done"} /\ cfg.responses =>
       Written(h, "response")
  /\ pc[h] = "failed" => /\ ~ Written(h, "response")
                         /\ kind[h] = "dns" => Written(h, "error")
  /\ pc[h] = "error" => kind[h] = "dns"
  /\ pc[h] \in Before => block[h] = <<>> /\ at[h] = 1
  /\ pc[h] = "lines" =>
       /\ block[h] # <<>>
       /\ off[h] \/ loggers[via[h]].debug
       /\ off[h] \/ \A i \in 1 .. at[h] - 1 : Written(h, block[h][i])
  /\ pc[h] \in {"reply", "writeError"} /\ cfg.debug => block[h] # <<>>
  /\ pc[h] = "done" /\ Written(h, "response") /\ cfg.debug => block[h] # <<>>
  /\ pc[h] \in {"reply", "writeError", "done"} =>
       off[h] \/ \A i \in DOMAIN block[h] : Written(h, block[h][i])

JournalInv ==
  /\ \A i \in DOMAIN output : LineInv(i)
  /\ \A i, j \in DOMAIN output : PairInv(i, j)

HandlersInv == \A h \in Handlers : HandlerInv(h)

\* The inductive invariant.
Inv == TypeOK /\ CoreFollowsFlags /\ JournalInv /\ HandlersInv
-----------------------------------------------------------------------------
\* Debug blocks: their lines have places of their own, in order.
LEMMA BlockShape ==
  ASSUME NEW b \in Blocks
  PROVE  /\ b # <<>> /\ Len(b) \in Nat /\ Len(b) >= 1 /\ DOMAIN b = 1 .. Len(b)
         /\ \A i \in 1 .. Len(b) : b[i] \in DebugParts
         /\ \A i \in 1 .. Len(b), j \in 1 .. Len(b) : i < j => Place[b[i]] < Place[b[j]]
<1>1. CASE b = <<"resolver", "full">>
  BY <1>1 DEF DebugParts, Place
<1>2. CASE b = <<"pattern", "resolver", "full">>
  BY <1>2 DEF DebugParts, Place
<1>3. CASE b = <<"cname", "resolver", "full">>
  BY <1>3 DEF DebugParts, Place
<1>4. CASE b = <<"pattern", "cname", "resolver", "full">>
  BY <1>4 DEF DebugParts, Place
<1>5. QED
  BY <1>1, <1>2, <1>3, <1>4 DEF Blocks

LEMMA PlaceShape ==
  /\ \A part \in Parts : Place[part] \in 1 .. 8
  /\ \A part \in DebugParts : part \in Parts /\ Place[part] \in 4 .. 7
  /\ \A part \in Parts : Place[part] < 2 => part = "request"
  /\ \A part \in Parts : Place[part] < 4 => part \notin DebugParts
BY DEF Parts, DebugParts, Place

\* Whatever a constructor or a setter makes is a logger whose core agrees with
\* its flags.
LEMMA BuiltFollows ==
  ASSUME NEW f \in Formats, NEW d \in BOOLEAN, NEW c \in Components \cup {Nil}
  PROVE  Built(f, d, c) \in AllLoggers /\ Follows(Built(f, d, c))
<1>1. Core(f, d, c).level = (IF d THEN "debug" ELSE "info") /\ Core(f, d, c).encoder = f
  BY DEF Core
<1>2. Core(f, d, c).fields = IF c = Nil THEN <<>> ELSE <<c>>
  BY DEF Core
<1>3. Core(f, d, c).fields \in Seq(Components)
  BY <1>2
<1>4. Core(f, d, c) \in [level : {"debug", "info"}, encoder : Formats, fields : Seq(Components)]
  BY <1>3 DEF Core
<1>5. Built(f, d, c) \in AllLoggers
  BY <1>4 DEF Built, AllLoggers
<1>6. Follows(Built(f, d, c))
  BY <1>1, <1>2 DEF Built, Follows
<1>7. QED
  BY <1>5, <1>6

LEMMA NewLoggerFollows ==
  ASSUME NEW f \in Formats \cup {""}, NEW d \in BOOLEAN, NEW c \in Components \cup {Nil}
  PROVE  NewLogger(f, d, c) \in AllLoggers /\ Follows(NewLogger(f, d, c))
<1>1. (IF f = "" THEN "text" ELSE f) \in Formats
  BY DEF Formats
<1>2. QED
  BY <1>1, BuiltFollows DEF NewLogger

LEMMA SettersFollow ==
  ASSUME NEW l \in AllLoggers, NEW d \in BOOLEAN, NEW f \in Formats
  PROVE  /\ SetDebug(l, d) \in AllLoggers /\ Follows(SetDebug(l, d))
         /\ SetFormat(l, f) \in AllLoggers /\ Follows(SetFormat(l, f))
<1>1. l.format \in Formats /\ l.debug \in BOOLEAN /\ l.component \in Components \cup {Nil}
  BY DEF AllLoggers
<1>2. QED
  BY <1>1, BuiltFollows DEF SetDebug, SetFormat

LEMMA WithComponentFollows ==
  ASSUME NEW l \in AllLoggers, Follows(l), NEW c \in Components
  PROVE  WithComponent(l, c) \in AllLoggers /\ Follows(WithComponent(l, c))
<1> DEFINE fields == l.zap.fields
           child == WithComponent(l, c)
<1>1. /\ l.format \in Formats /\ l.debug \in BOOLEAN
      /\ l.zap \in [level : {"debug", "info"}, encoder : Formats, fields : Seq(Components)]
      /\ fields \in Seq(Components)
  BY DEF AllLoggers
<1>2. /\ Append(fields, c) \in Seq(Components) /\ Append(fields, c) # <<>>
      /\ Append(fields, c)[Len(Append(fields, c))] = c
  <2>1. fields \in Seq(Components)
    BY <1>1
  <2> HIDE DEF fields
  <2>2. QED
    BY <2>1
<1>3. /\ child.format = l.format /\ child.debug = l.debug /\ child.component = c
      /\ child.zap = [l.zap EXCEPT !.fields = Append(fields, c)]
  BY DEF WithComponent, AllLoggers
<1>4. /\ child.zap.level = l.zap.level /\ child.zap.encoder = l.zap.encoder
      /\ child.zap.fields = Append(fields, c)
  BY <1>1, <1>3
<1>5. child \in AllLoggers
  <2>1. child.zap \in [level : {"debug", "info"}, encoder : Formats, fields : Seq(Components)]
    BY <1>1, <1>2, <1>3
  <2> DEFINE zap == [l.zap EXCEPT !.fields = Append(fields, c)]
  <2>2. child = [[l EXCEPT !.component = c] EXCEPT !.zap = zap]
    BY DEF WithComponent, AllLoggers
  <2>3. zap = child.zap
    BY <1>3
  <2> HIDE DEF zap, child
  <2>4. QED
    BY <1>1, <2>1, <2>2, <2>3 DEF AllLoggers
<1>6. Follows(child)
  <2>1. c # Nil
    BY LoggingAssumption
  <2>2. QED
    BY <1>2, <1>3, <1>4, <2>1 DEF Follows
<1>7. QED
  BY <1>5, <1>6
-----------------------------------------------------------------------------
\* A sequence with one more element.
LEMMA Grown ==
  ASSUME NEW S, NEW seq \in Seq(S), NEW e \in S, NEW longer, longer = Append(seq, e)
  PROVE  /\ longer \in Seq(S)
         /\ Len(seq) \in Nat /\ DOMAIN seq = 1 .. Len(seq)
         /\ DOMAIN longer = 1 .. Len(seq) + 1
         /\ \A i \in 1 .. Len(seq) : longer[i] = seq[i] /\ seq[i] \in S
         /\ longer[Len(seq) + 1] = e
OBVIOUS

\* A line that a handler writes through an existing logger.
LEMMA LineShape ==
  ASSUME TypeOK, NEW h \in Handlers, NEW part \in Parts, NEW l \in Loggers, Exists(l)
  PROVE  Line(h, part, l) \in Lines
<1>1. loggers[l] \in AllLoggers
  BY DEF TypeOK, Exists
<1>2. loggers[l].zap \in [level : {"debug", "info"}, encoder : Formats, fields : Seq(Components)]
  BY <1>1 DEF AllLoggers
<1>3. QED
  BY <1>2 DEF Line, Lines

LEMMA LineWritten ==
  ASSUME TypeOK, NEW h \in Handlers, NEW part \in Parts, NEW l \in Loggers, Exists(l),
         output' = Append(output, Line(h, part, l))
  PROVE  /\ output' \in Seq(Lines)
         /\ Len(output) \in Nat /\ DOMAIN output = 1 .. Len(output)
         /\ DOMAIN output' = 1 .. Len(output) + 1
         /\ \A i \in 1 .. Len(output) : output'[i] = output[i] /\ output[i] \in Lines
         /\ output'[Len(output) + 1] = Line(h, part, l)
<1>1. Line(h, part, l) \in Lines /\ output \in Seq(Lines)
  BY LineShape DEF TypeOK
<1> DEFINE S == Lines
           e == Line(h, part, l)
<1>2. e \in S /\ output \in Seq(S) /\ output' = Append(output, e)
  BY <1>1
<1> HIDE DEF S, e
<1>3. QED
  BY <1>2, Grown DEF S, e

\* The handler that is given a logger, or that uses one, has one that exists.
LEMMA ViaShape ==
  ASSUME TypeOK, NEW h \in Handlers, via[h] # Nil
  PROVE  via[h] \in Loggers /\ Exists(via[h]) /\ loggers[via[h]] \in AllLoggers
BY DEF TypeOK, Exists

LEMMA InitTypeOK == Init => TypeOK /\ CoreFollowsFlags
<1> SUFFICES ASSUME Init PROVE TypeOK /\ CoreFollowsFlags
  OBVIOUS
<1>1. PICK f \in Formats :
        loggers = [l \in Loggers |-> IF l = Main THEN NewLogger(f, cfg.debug, Nil) ELSE Nil]
  BY DEF Init
<1>2. cfg.debug \in BOOLEAN
  BY DEF Init
<1>3. NewLogger(f, cfg.debug, Nil) \in AllLoggers /\ Follows(NewLogger(f, cfg.debug, Nil))
  BY <1>2, NewLoggerFollows
<1>4. \A l \in Loggers : loggers[l] = IF l = Main THEN NewLogger(f, cfg.debug, Nil) ELSE Nil
  BY <1>1
<1>5. \A l \in Loggers : Exists(l) => l = Main
  BY <1>4 DEF Exists
<1>6. loggers \in [Loggers -> AllLoggers \cup {Nil}]
  BY <1>1, <1>3
<1>7. default \in Loggers /\ Exists(default)
  BY <1>3, <1>4, LoggingAssumption DEF Init, Exists
<1>8. at \in [Handlers -> Nat] /\ \A h \in Handlers : at[h] \in 1 .. Len(block[h]) + 1
  <2>1. Len(<<>>) = 0
    OBVIOUS
  <2>2. \A h \in Handlers : block[h] = <<>>
    BY DEF Init
  <2>3. \A h \in Handlers : Len(block[h]) = 0
    BY <2>1, <2>2, Zenon
  <2>4. at \in [Handlers -> Nat] /\ \A h \in Handlers : at[h] = 1
    BY DEF Init
  <2>5. QED
    BY <2>3, <2>4
<1>9. output \in Seq(Lines)
  BY DEF Init
<1>10. pc \in [Handlers -> Labels] /\ via \in [Handlers -> Loggers \cup {Nil}]
  BY DEF Init, Labels
<1>11. \A h \in Handlers : via[h] = Nil /\ pc[h] # "lines"
  BY DEF Init
<1>12. block \in [Handlers -> Blocks \cup {<<>>}] /\ off \in [Handlers -> BOOLEAN]
  BY DEF Init
<1>13. changes \in 0 .. MaxChanges
  BY LoggingAssumption DEF Init
<1>14. TypeOK
  BY <1>6, <1>7, <1>8, <1>9, <1>10, <1>11, <1>12, <1>13 DEF Init, TypeOK
<1>15. CoreFollowsFlags
  BY <1>3, <1>4, <1>5 DEF CoreFollowsFlags, Follows
<1>16. QED
  BY <1>14, <1>15

\* A change of the loggers: each that existed still does, and the one that is
\* made or changed is well formed.
LEMMA ChangeMakes ==
  ASSUME TypeOK, CoreFollowsFlags, Change
  PROVE  \/ \E l \in Loggers, logger \in AllLoggers : Assign(l, logger) /\ Follows(logger)
         \/ \E l \in Loggers : Exists(l) /\ default' = l /\ UNCHANGED <<loggers, off>>
<1>1. \A l \in Loggers : Exists(l) => loggers[l] \in AllLoggers /\ Follows(loggers[l])
  BY DEF TypeOK, Exists, CoreFollowsFlags, Follows
<1>2. CASE \E l \in Loggers, f \in Formats \cup {""}, d \in BOOLEAN, c \in Components \cup {Nil} :
             ~ Exists(l) /\ Assign(l, NewLogger(f, d, c))
  BY <1>2, NewLoggerFollows
<1>3. CASE \E l \in Loggers, parent \in Loggers, c \in Components :
             ~ Exists(l) /\ Exists(parent) /\ Assign(l, WithComponent(loggers[parent], c))
  BY <1>1, <1>3, WithComponentFollows
<1>4. CASE \E l \in Loggers, d \in BOOLEAN : Exists(l) /\ Assign(l, SetDebug(loggers[l], d))
  <2>1. "text" \in Formats
    BY DEF Formats
  <2>2. QED
    BY <1>1, <1>4, <2>1, SettersFollow
<1>5. CASE \E l \in Loggers, f \in Formats : Exists(l) /\ Assign(l, SetFormat(loggers[l], f))
  BY <1>1, <1>5, SettersFollow
<1>6. CASE \E l \in Loggers : Exists(l) /\ default' = l /\ UNCHANGED <<loggers, off>>
  BY <1>6
<1>7. QED
  BY <1>2, <1>3, <1>4, <1>5, <1>6 DEF Change

LEMMA AssignShape ==
  ASSUME TypeOK, NEW l \in Loggers, NEW logger \in AllLoggers, Assign(l, logger)
  PROVE  /\ loggers' \in [Loggers -> AllLoggers \cup {Nil}]
         /\ loggers'[l] = logger /\ loggers'[l] # Nil
         /\ \A k \in Loggers \ {l} : loggers'[k] = loggers[k]
         /\ \A k \in Loggers : Exists(k) => loggers'[k] # Nil
BY LoggingAssumption DEF Assign, TypeOK, Exists

\* The steps of a handler leave the loggers, the configuration and the count of
\* changes alone.
LEMMA HandlerKeeps ==
  ASSUME NEW h \in Handlers, Step(h)
  PROVE  UNCHANGED <<cfg, loggers, default, kind, changes>>
BY DEF Step, Arrive, Default, LogDNSRequest, LogError, LogDNSResponse, Log, Route, LogDNSDebug,
       Debug, EndOfBlock, Reply

\* Every step of a handler keeps the type invariant.
LEMMA StepTypeOK ==
  ASSUME TypeOK, HandlersInv, NEW h \in Handlers, Step(h)
  PROVE  TypeOK'
<1> USE DEF Goto
<1>1. CASE Arrive(h)
  BY <1>1 DEF Arrive, TypeOK, Labels, Calls, Exists
<1>2. CASE Default(h)
  BY <1>2 DEF Default, TypeOK, Labels, Calls, Exists
<1>3. ASSUME NEW part \in {"request", "error", "response", "writeError"}, NEW next \in Labels,
             next # "lines", Log(h, part, next)
      PROVE  TypeOK'
  <2>1. output' \in Seq(Lines)
    <3>1. part \in Parts
      BY DEF Parts
    <3>2. via[h] \in Loggers /\ Exists(via[h]) /\ output' = Append(output, Line(h, part, via[h]))
      BY <1>3, ViaShape DEF Log
    <3>3. QED
      BY <3>1, <3>2, LineWritten
  <2>2. QED
    BY <1>3, <2>1 DEF Log, TypeOK, Exists
<1>4. CASE LogDNSRequest(h) \/ LogError(h) \/ LogDNSResponse(h)
  BY <1>3, <1>4 DEF LogDNSRequest, LogError, LogDNSResponse, AfterResponse, Labels, Calls
<1>5. CASE Route(h)
  <2>1. PICK label \in {"error", "failed", "response", "debug", "reply"} :
          pc[h] = "route" /\ pc' = [pc EXCEPT ![h] = label]
    BY <1>5 DEF Route, AfterResponse
  <2>2. label \in Labels /\ label # "lines" /\ via[h] = Nil
    BY <2>1 DEF Labels, Calls, TypeOK
  <2>3. UNCHANGED <<cfg, loggers, default, output, kind, via, block, at, off, changes>>
    BY <1>5 DEF Route
  <2>4. QED
    BY <2>1, <2>2, <2>3 DEF TypeOK, Exists
<1>6. CASE LogDNSDebug(h)
  <2>1. PICK lines \in Blocks : block' = [block EXCEPT ![h] = lines]
    BY <1>6 DEF LogDNSDebug
  <2>2. \A b \in Blocks \cup {<<>>} : Len(b) \in Nat
    BY BlockShape
  <2>3. /\ at' = at /\ block' \in [Handlers -> Blocks \cup {<<>>}]
        /\ block'[h] \in Blocks /\ \A g \in Handlers \ {h} : block'[g] = block[g]
    BY <1>6, <2>1 DEF LogDNSDebug, TypeOK
  <2>4. at[h] = 1
    BY <1>6 DEF LogDNSDebug, HandlersInv, HandlerInv, Before
  <2>5. \A g \in Handlers : at'[g] \in 1 .. Len(block'[g]) + 1
    <3>1. Len(block'[h]) \in Nat /\ at'[h] = 1
      BY <2>2, <2>3, <2>4
    <3>2. at'[h] \in 1 .. Len(block'[h]) + 1
      BY <3>1
    <3>3. \A g \in Handlers \ {h} : at'[g] \in 1 .. Len(block'[g]) + 1
      BY <2>3 DEF TypeOK
    <3>4. QED
      BY <3>2, <3>3
  <2>6. via[h] \in Loggers /\ Exists(via[h])
    BY <1>6, ViaShape DEF LogDNSDebug
  <2>7. /\ pc' \in [Handlers -> Labels] /\ via' \in [Handlers -> Loggers \cup {Nil}]
        /\ off' \in [Handlers -> BOOLEAN]
        /\ \A g \in Handlers : /\ via'[g] # Nil => pc'[g] \in Calls \cup {"lines"} /\ Exists(via'[g])
                               /\ pc'[g] = "lines" => via'[g] # Nil
    <3>1. CASE loggers[via[h]].debug
      <4>1. pc' = [pc EXCEPT ![h] = "lines"] /\ via' = via /\ off' = off /\ via[h] # Nil
        BY <1>6, <3>1 DEF LogDNSDebug
      <4>2. QED
        BY <4>1 DEF TypeOK, Labels
    <3>2. CASE ~ loggers[via[h]].debug
      <4>1. /\ pc' = [pc EXCEPT ![h] = "reply"] /\ via' = [via EXCEPT ![h] = Nil]
            /\ off' = [off EXCEPT ![h] = TRUE]
        BY <1>6, <3>2 DEF LogDNSDebug
      <4>2. QED
        BY <4>1 DEF TypeOK, Labels
    <3>3. QED
      BY <3>1, <3>2
  <2>8. QED
    BY <1>6, <2>3, <2>5, <2>7, HandlerKeeps DEF LogDNSDebug, TypeOK, Exists
<1>7. CASE Debug(h)
  <2>1. via[h] \in Loggers /\ Exists(via[h])
    BY <1>7, ViaShape DEF Debug, TypeOK
  <2>2. block[h] \in Blocks \cup {<<>>} /\ Len(<<>>) = 0 /\ at[h] \in Nat /\ at[h] >= 1
    BY DEF TypeOK
  <2>3. block[h] \in Blocks /\ at[h] \in 1 .. Len(block[h]) /\ Len(block[h]) \in Nat
    BY <1>7, <2>2, BlockShape DEF Debug
  <2>4. block[h][at[h]] \in Parts
    BY <2>3, BlockShape, PlaceShape
  <2>5. output' \in Seq(Lines)
    <3>1. CASE output' = output
      BY <3>1 DEF TypeOK
    <3>2. CASE output' = Append(output, Line(h, block[h][at[h]], via[h]))
      BY <2>1, <2>4, <3>2, LineWritten
    <3>3. QED
      BY <1>7, <3>1, <3>2, Zenon DEF Debug
  <2>6. at' = [at EXCEPT ![h] = @ + 1]
        /\ UNCHANGED <<cfg, loggers, default, kind, pc, via, block, off, changes>>
    BY <1>7 DEF Debug
  <2>7. at' \in [Handlers -> Nat] /\ \A g \in Handlers : at'[g] \in 1 .. Len(block'[g]) + 1
    BY <2>3, <2>6 DEF TypeOK
  <2>8. QED
    BY <2>5, <2>6, <2>7 DEF TypeOK, Exists
<1>8. CASE EndOfBlock(h)
  BY <1>8 DEF EndOfBlock, TypeOK, Labels, Calls, Exists
<1>9. CASE Reply(h)
  BY <1>9 DEF Reply, TypeOK, Labels, Calls, Exists
<1>10. QED
  BY <1>1, <1>2, <1>4, <1>5, <1>6, <1>7, <1>8, <1>9 DEF Step
-----------------------------------------------------------------------------
\* The journal: what a step leaves alone, what a line adds.
LEMMA LeastShape ==
  ASSUME NEW label \in Labels, NEW lines \in Blocks \cup {<<>>}, NEW n \in 1 .. Len(lines) + 1
  PROVE  /\ Least(label, lines, n) \in 1 .. 9
         /\ label # "lines" => Least(label, lines, n) = Floor[label]
         /\ label = "lines" => Least(label, lines, n) >= 4
<1>1. Floor[label] \in 1 .. 9 /\ Floor["lines"] = 8
  BY DEF Labels, Calls, Floor
<1>2. ASSUME label = "lines", n <= Len(lines)
      PROVE  Place[lines[n]] \in 4 .. 7
  <2>1. lines \in Blocks /\ n \in 1 .. Len(lines)
    <3>1. Len(<<>>) = 0
      OBVIOUS
    <3>2. QED
      BY <1>2, <3>1, BlockShape
  <2>2. QED
    BY <2>1, BlockShape, PlaceShape
<1>3. QED
  BY <1>1, <1>2 DEF Least

LEMMA ComingShape ==
  ASSUME TypeOK, NEW h \in Handlers
  PROVE  /\ Coming(h) \in 1 .. 9
         /\ pc[h] # "lines" => Coming(h) = Floor[pc[h]]
         /\ pc[h] = "lines" => Coming(h) >= 4
BY LeastShape DEF TypeOK, Coming

LEMMA NextComingShape ==
  ASSUME TypeOK', NEW h \in Handlers
  PROVE  /\ Coming(h)' \in 1 .. 9
         /\ pc'[h] # "lines" => Coming(h)' = Floor[pc'[h]]
         /\ pc'[h] = "lines" => Coming(h)' >= 4
BY LeastShape DEF TypeOK, Coming

\* Other handlers than h are as they were.
OthersSame(h) ==
  \A g \in Handlers \ {h} :
    /\ pc'[g] = pc[g] /\ via'[g] = via[g] /\ block'[g] = block[g]
    /\ at'[g] = at[g] /\ off'[g] = off[g]

LEMMA OthersComing ==
  ASSUME NEW h \in Handlers, OthersSame(h), NEW g \in Handlers \ {h}
  PROVE  Coming(g)' = Coming(g)
BY DEF OthersSame, Coming

\* A step without a line.
LEMMA Quiet ==
  ASSUME TypeOK, TypeOK', JournalInv, NEW h \in Handlers, OthersSame(h),
         output' = output, cfg' = cfg, kind' = kind,
         Coming(h) <= Coming(h)', pc[h] # "failed",
         pc'[h] = "lines" => (pc[h] = "lines" /\ via'[h] = via[h]) \/ Coming(h) <= 4
  PROVE  JournalInv'
<1>1. ASSUME NEW i \in DOMAIN output PROVE LineInv(i)'
  <2> DEFINE g == output[i].by
             part == output[i].part
  <2>1. output[i] \in Lines
    BY DEF TypeOK
  <2>2. g \in Handlers /\ part \in Parts
    BY <2>1 DEF Lines
  <2>3. LineInv(i)
    BY DEF JournalInv
  <2>4. Place[part] \in 1 .. 8 /\ (Place[part] < 4 => part \notin DebugParts)
    BY <2>2, PlaceShape
  <2>5. CASE g = h
    <3>1. Coming(h) \in 1 .. 9 /\ Coming(h)' \in 1 .. 9
      BY ComingShape, NextComingShape
    <3>2. Place[part] < Coming(h)' /\ part # "error"
      BY <2>3, <2>4, <2>5, <3>1 DEF LineInv
    <3>3. part \in DebugParts /\ pc'[h] = "lines" => output[i].logger = via'[h]
      BY <2>3, <2>4, <2>5, <3>1 DEF LineInv
    <3>4. (part = "request" => cfg.requests) /\ (part = "response" => cfg.responses)
      BY <2>3 DEF LineInv
    <3>5. QED
      BY <2>5, <3>2, <3>3, <3>4 DEF LineInv
  <2>6. CASE g # h
    <3>1. Coming(g)' = Coming(g) /\ pc'[g] = pc[g] /\ via'[g] = via[g]
      BY <2>2, <2>6, OthersComing DEF OthersSame
    <3>2. QED
      BY <2>3, <3>1 DEF LineInv
  <2>7. QED
    BY <2>5, <2>6
<1>2. \A i, j \in DOMAIN output : PairInv(i, j)'
  BY DEF JournalInv, PairInv
<1>3. QED
  BY <1>1, <1>2 DEF JournalInv

\* A step with a line of h.
LEMMA Writes ==
  ASSUME TypeOK, TypeOK', JournalInv, NEW h \in Handlers, OthersSame(h), cfg' = cfg, kind' = kind,
         NEW part \in Parts, NEW l \in Loggers, Exists(l),
         output' = Append(output, Line(h, part, l)),
         pc[h] # "failed", Coming(h) <= Place[part], Place[part] < Coming(h)',
         part = "error" => pc'[h] = "failed" /\ kind[h] = "dns" /\ Coming(h) = 2,
         part = "request" => cfg.requests,
         part = "response" => cfg.responses,
         pc[h] = "lines" <=> part \in DebugParts,
         pc'[h] = "lines" => pc[h] = "lines" /\ via'[h] = via[h],
         pc[h] = "lines" => l = via[h]
  PROVE  JournalInv'
<1> DEFINE n == Len(output) + 1
<1>1. /\ n \in Nat /\ DOMAIN output = 1 .. n - 1 /\ DOMAIN output' = 1 .. n
      /\ \A i \in 1 .. n - 1 : output'[i] = output[i] /\ output[i] \in Lines
      /\ output'[n] = Line(h, part, l)
  BY LineWritten
<1>2. output'[n].by = h /\ output'[n].part = part /\ output'[n].logger = l
  BY <1>1 DEF Line
<1> HIDE DEF n
<1>3. Coming(h) \in 1 .. 9 /\ Coming(h)' \in 1 .. 9 /\ Place[part] \in 1 .. 8
  BY ComingShape, NextComingShape, PlaceShape
<1>4. ASSUME NEW i \in 1 .. n - 1
      PROVE  /\ output[i].by \in Handlers /\ output[i].part \in Parts
             /\ Place[output[i].part] \in 1 .. 8
             /\ LineInv(i)
             /\ output[i].by = h => /\ Place[output[i].part] < Coming(h)
                                    /\ output[i].part # "error"
  <2>1. output[i] \in Lines /\ LineInv(i)
    BY <1>1 DEF JournalInv
  <2>2. QED
    BY <2>1, PlaceShape DEF Lines, LineInv
<1>5. ASSUME NEW i \in 1 .. n PROVE LineInv(i)'
  <2>1. CASE i = n
    BY <1>2, <2>1 DEF LineInv
  <2>2. CASE i # n
    <3>1. i \in 1 .. n - 1 /\ output'[i] = output[i]
      BY <1>1, <2>2
    <3>2. CASE output[i].by = h
      <4>1. /\ Place[output[i].part] < Coming(h) /\ Place[output[i].part] \in 1 .. 8
            /\ output[i].part # "error" /\ LineInv(i)
        BY <1>4, <3>1, <3>2
      <4>2. Place[output[i].part] < Coming(h)'
        BY <1>3, <4>1
      <4>3. pc'[h] = "lines" /\ output[i].part \in DebugParts => output[i].logger = via'[h]
        BY <3>2, <4>1 DEF LineInv
      <4>4. /\ output[i].part = "request" => cfg.requests
            /\ output[i].part = "response" => cfg.responses
        BY <4>1 DEF LineInv
      <4>5. QED
        BY <3>1, <3>2, <4>1, <4>2, <4>3, <4>4 DEF LineInv
    <3>3. CASE output[i].by # h
      <4> DEFINE g == output[i].by
      <4>1. Coming(g)' = Coming(g) /\ pc'[g] = pc[g] /\ via'[g] = via[g]
        BY <1>4, <3>1, <3>3, OthersComing DEF OthersSame
      <4>2. QED
        BY <1>4, <3>1, <4>1 DEF LineInv
    <3>4. QED
      BY <3>2, <3>3
  <2>3. QED
    BY <2>1, <2>2
<1>6. ASSUME NEW i \in 1 .. n, NEW j \in 1 .. n PROVE PairInv(i, j)'
  <2>1. CASE i = n /\ j = n
    BY <1>1, <1>2, <2>1 DEF PairInv
  <2>2. CASE i # n /\ j # n
    <3>1. /\ i \in 1 .. n - 1 /\ output'[i] = output[i]
          /\ j \in 1 .. n - 1 /\ output'[j] = output[j]
      BY <1>1, <2>2
    <3>2. PairInv(i, j)
      BY <1>1, <3>1 DEF JournalInv
    <3>3. QED
      BY <3>1, <3>2 DEF PairInv
  <2>3. CASE i # n /\ j = n
    <3>1. i \in 1 .. n - 1 /\ output'[i] = output[i]
      BY <1>1, <2>3
    <3>2. output[i].by = h /\ output[i].part \in DebugParts /\ part \in DebugParts
          => output[i].logger = l
      BY <1>4, <3>1 DEF LineInv
    <3>3. ASSUME output[i].by = h
          PROVE  Place[output[i].part] < Place[part] /\ output[i].part # "error"
      <4>1. /\ Place[output[i].part] < Coming(h) /\ output[i].part # "error"
            /\ Place[output[i].part] \in 1 .. 8
        BY <1>4, <3>1, <3>3
      <4> DEFINE p == Place[output[i].part]
                 q == Place[part]
                 c == Coming(h)
      <4>2. p < c /\ c <= q /\ p \in 1 .. 8 /\ c \in 1 .. 9 /\ q \in 1 .. 8
        BY <1>3, <4>1
      <4> HIDE DEF p, q, c
      <4>3. p < q
        BY <4>2
      <4>4. QED
        BY <4>1, <4>3 DEF p, q
    <3>4. /\ output'[i].by = output[i].by /\ output'[i].part = output[i].part
          /\ output'[i].logger = output[i].logger
          /\ output'[j].by = h /\ output'[j].part = part /\ output'[j].logger = l
      BY <1>2, <2>3, <3>1
    <3>5. QED
      BY <3>2, <3>3, <3>4 DEF PairInv
  <2>4. CASE i = n /\ j # n
    <3>1. j \in 1 .. n - 1 /\ output'[j] = output[j] /\ ~ (n < j)
      BY <1>1, <2>4
    <3>2. output[j].by = h /\ output[j].part \in DebugParts /\ part \in DebugParts
          => output[j].logger = l
      BY <1>4, <3>1 DEF LineInv
    <3>3. part = "error" /\ output[j].by = h => output[j].part = "request"
      BY <1>4, <3>1, PlaceShape
    <3>4. QED
      BY <1>2, <2>4, <3>1, <3>2, <3>3 DEF PairInv
  <2>5. QED
    BY <2>1, <2>2, <2>3, <2>4
<1>7. QED
  BY <1>1, <1>5, <1>6 DEF JournalInv
-----------------------------------------------------------------------------
\* What has been written, after a step without a line and after one with.
LEMMA WrittenSame ==
  ASSUME output' = output, NEW g, NEW p
  PROVE  Written(g, p)' <=> Written(g, p)
BY DEF Written

LEMMA WrittenAlso ==
  ASSUME TypeOK, NEW h \in Handlers, NEW part \in Parts, NEW l \in Loggers, Exists(l),
         output' = Append(output, Line(h, part, l)), NEW g, NEW p
  PROVE  Written(g, p)' <=> Written(g, p) \/ (g = h /\ p = part)
<1> DEFINE n == Len(output) + 1
<1>1. /\ n \in Nat /\ DOMAIN output = 1 .. n - 1 /\ DOMAIN output' = 1 .. n
      /\ \A i \in 1 .. n - 1 : output'[i] = output[i]
      /\ output'[n] = Line(h, part, l)
  BY LineWritten
<1>2. output'[n].by = h /\ output'[n].part = part
  BY <1>1 DEF Line
<1> HIDE DEF n
<1>3. n \in 1 .. n /\ \A i \in 1 .. n : i = n \/ i \in 1 .. n - 1
  BY <1>1
<1>4. \A i \in 1 .. n - 1 : i \in 1 .. n
  BY <1>1
<1>5. QED
  BY <1>1, <1>2, <1>3, <1>4 DEF Written

LEMMA NotYet ==
  ASSUME JournalInv, NEW h, NEW part, Written(h, part)
  PROVE  Place[part] < Coming(h)
BY DEF Written, JournalInv, LineInv

\* A step of one handler does nothing to the others.
LEMMA StepOthers ==
  ASSUME TypeOK, NEW h \in Handlers, Step(h)
  PROVE  OthersSame(h)
<1> USE DEF Goto, TypeOK, OthersSame
<1>1. CASE Arrive(h) \/ Default(h)
  BY <1>1 DEF Arrive, Default
<1>2. CASE LogDNSRequest(h) \/ LogError(h) \/ LogDNSResponse(h)
  BY <1>2 DEF LogDNSRequest, LogError, LogDNSResponse, Log
<1>3. CASE Route(h) \/ EndOfBlock(h) \/ Reply(h)
  BY <1>3 DEF Route, EndOfBlock, Reply
<1>4. CASE LogDNSDebug(h)
  <2>1. CASE loggers[via[h]].debug
    BY <1>4, <2>1 DEF LogDNSDebug
  <2>2. CASE ~ loggers[via[h]].debug
    BY <1>4, <2>2 DEF LogDNSDebug
  <2>3. QED
    BY <2>1, <2>2
<1>5. CASE Debug(h)
  BY <1>5 DEF Debug
<1>6. QED
  BY <1>1, <1>2, <1>3, <1>4, <1>5 DEF Step

\* So what is true of the others stays true.
LEMMA OthersInv ==
  ASSUME HandlersInv, NEW h \in Handlers, OthersSame(h), UNCHANGED <<cfg, loggers, kind>>,
         \A g \in Handlers \ {h} : \A p : Written(g, p)' <=> Written(g, p),
         HandlerInv(h)'
  PROVE  HandlersInv'
<1>1. ASSUME NEW g \in Handlers \ {h} PROVE HandlerInv(g)'
  <2>1. HandlerInv(g) /\ \A p : Written(g, p)' <=> Written(g, p)
    BY DEF HandlersInv
  <2>2. /\ pc'[g] = pc[g] /\ via'[g] = via[g] /\ block'[g] = block[g]
        /\ at'[g] = at[g] /\ off'[g] = off[g] /\ cfg' = cfg /\ loggers' = loggers /\ kind' = kind
    BY DEF OthersSame
  <2>3. QED
    BY <2>1, <2>2 DEF HandlerInv
<1>2. QED
  BY <1>1 DEF HandlersInv
-----------------------------------------------------------------------------
\* The arrival, Default and the reply: no line.
LEMMA SilentInv ==
  ASSUME Inv, TypeOK', NEW h \in Handlers, Arrive(h) \/ Default(h) \/ Reply(h) \/ EndOfBlock(h)
  PROVE  JournalInv' /\ HandlersInv'
<1>1. /\ TypeOK /\ JournalInv /\ HandlersInv /\ HandlerInv(h)
      /\ Step(h) /\ OthersSame(h) /\ UNCHANGED <<cfg, loggers, kind>>
  BY HandlerKeeps, StepOthers DEF Inv, HandlersInv, Step
<1>2. /\ output' = output /\ block'[h] = block[h] /\ at'[h] = at[h] /\ off'[h] = off[h]
      /\ \A g, p : Written(g, p)' <=> Written(g, p)
  BY WrittenSame DEF Arrive, Default, Reply, EndOfBlock
<1>3. /\ Coming(h) \in 1 .. 9 /\ Coming(h)' \in 1 .. 9
      /\ pc[h] # "lines" => Coming(h) = Floor[pc[h]]
      /\ pc'[h] # "lines" => Coming(h)' = Floor[pc'[h]]
  BY <1>1, ComingShape, NextComingShape
<1>4. CASE Arrive(h)
  <2>1. pc[h] = "arrive" /\ pc'[h] = (IF cfg.requests THEN "request" ELSE "route")
    BY <1>1, <1>4 DEF Arrive, Goto, TypeOK
  <2>2. JournalInv'
    BY <1>1, <1>2, <1>3, <2>1, Quiet DEF Floor
  <2>3. HandlerInv(h)'
    BY <1>1, <1>2, <2>1 DEF HandlerInv, Before
  <2>4. QED
    BY <1>1, <1>2, <2>2, <2>3, OthersInv
<1>5. CASE Default(h)
  <2>1. pc'[h] = pc[h] /\ pc[h] \in Calls /\ pc[h] # "lines" /\ pc[h] # "failed"
    BY <1>5 DEF Default, Calls
  <2>2. JournalInv'
    BY <1>1, <1>2, <1>3, <2>1, Quiet
  <2>3. HandlerInv(h)'
    BY <1>1, <1>2, <2>1 DEF HandlerInv
  <2>4. QED
    BY <1>1, <1>2, <2>2, <2>3, OthersInv
<1>6. CASE Reply(h)
  <2>1. pc[h] = "reply" /\ pc'[h] \in {"done", "writeError"}
    BY <1>1, <1>6 DEF Reply, Goto, TypeOK
  <2>2. JournalInv'
    BY <1>1, <1>2, <1>3, <2>1, Quiet DEF Floor
  <2>3. HandlerInv(h)'
    BY <1>1, <1>2, <2>1 DEF HandlerInv, Before
  <2>4. QED
    BY <1>1, <1>2, <2>2, <2>3, OthersInv
<1>7. CASE EndOfBlock(h)
  <2>1. pc[h] = "lines" /\ pc'[h] = "reply" /\ at[h] > Len(block[h])
    BY <1>1, <1>7 DEF EndOfBlock, Goto, TypeOK
  <2>2. block[h] # <<>> /\ block[h] \in Blocks /\ at[h] \in 1 .. Len(block[h]) + 1
    BY <1>1, <2>1 DEF HandlerInv, TypeOK
  <2>3. DOMAIN block[h] = 1 .. at[h] - 1 /\ Len(block[h]) \in Nat
    BY <2>1, <2>2, BlockShape
  <2>4. Coming(h) = 8 /\ Coming(h)' = 8
    BY <1>3, <2>1, <2>2, <2>3 DEF Coming, Least, Floor
  <2>5. JournalInv'
    BY <1>1, <1>2, <2>1, <2>4, Quiet
  <2>6. HandlerInv(h)'
    BY <1>1, <1>2, <2>1, <2>2, <2>3 DEF HandlerInv, Before
  <2>7. QED
    BY <1>1, <1>2, <2>5, <2>6, OthersInv
<1>8. QED
  BY <1>4, <1>5, <1>6, <1>7

\* Route.
LEMMA RouteInv ==
  ASSUME Inv, TypeOK', NEW h \in Handlers, Route(h)
  PROVE  JournalInv' /\ HandlersInv'
<1>1. /\ TypeOK /\ JournalInv /\ HandlersInv /\ HandlerInv(h)
      /\ OthersSame(h) /\ UNCHANGED <<cfg, loggers, kind>>
  BY HandlerKeeps, StepOthers DEF Inv, HandlersInv, Step
<1>2. /\ output' = output /\ block'[h] = block[h] /\ at'[h] = at[h] /\ off'[h] = off[h]
      /\ \A g, p : Written(g, p)' <=> Written(g, p)
  BY WrittenSame DEF Route
<1>3. /\ pc[h] = "route"
      /\ \/ kind[h] = "dns" /\ pc'[h] = "error"
         \/ kind[h] # "dns" /\ pc'[h] = "failed"
         \/ cfg.responses /\ pc'[h] = "response"
         \/ ~ cfg.responses /\ cfg.debug /\ pc'[h] = "debug"
         \/ ~ cfg.responses /\ ~ cfg.debug /\ pc'[h] = "reply"
  BY <1>1 DEF Route, Goto, AfterResponse, TypeOK
<1>4. Coming(h) = 2 /\ Coming(h)' >= 2 /\ Coming(h)' \in 1 .. 9
  BY <1>1, <1>3, ComingShape, NextComingShape DEF Floor
<1>5. JournalInv'
  BY <1>1, <1>2, <1>3, <1>4, Quiet
<1>6. ~ Written(h, "response")
  <2>1. Place["response"] = 3
    BY DEF Place
  <2>2. QED
    BY <1>1, <1>4, <2>1, NotYet
<1>7. HandlerInv(h)'
  <2>1. block[h] = <<>> /\ at[h] = 1 /\ (cfg.requests => Written(h, "request"))
    BY <1>1, <1>3 DEF HandlerInv, Before
  <2>2. QED
    BY <1>1, <1>2, <1>3, <1>6, <2>1 DEF HandlerInv, Before
<1>8. QED
  BY <1>1, <1>2, <1>5, <1>7, OthersInv

\* The lines that a handler writes outside a block.
LEMMA LogInv ==
  ASSUME Inv, TypeOK', NEW h \in Handlers, LogDNSRequest(h) \/ LogError(h) \/ LogDNSResponse(h)
  PROVE  JournalInv' /\ HandlersInv'
<1>1. /\ TypeOK /\ JournalInv /\ HandlersInv /\ HandlerInv(h)
      /\ OthersSame(h) /\ UNCHANGED <<cfg, loggers, kind>>
  BY HandlerKeeps, StepOthers DEF Inv, HandlersInv, Step
<1>2. PICK part \in {"request", "error", "response", "writeError"} :
        /\ pc[h] = part /\ via[h] # Nil
        /\ output' = Append(output, Line(h, part, via[h]))
        /\ block'[h] = block[h] /\ at'[h] = at[h] /\ off'[h] = off[h]
        /\ part = "request" => pc'[h] = "route"
        /\ part = "error" => pc'[h] = "failed"
        /\ part = "writeError" => pc'[h] = "done"
        /\ part = "response" => pc'[h] = IF cfg.debug THEN "debug" ELSE "reply"
  BY <1>1 DEF LogDNSRequest, LogError, LogDNSResponse, Log, Goto, AfterResponse, TypeOK
<1>3. part \in Parts /\ part \notin DebugParts /\ via[h] \in Loggers /\ Exists(via[h])
  BY <1>1, <1>2, ViaShape DEF Parts, DebugParts
<1>4. \A g, p : Written(g, p)' <=> Written(g, p) \/ (g = h /\ p = part)
  BY <1>1, <1>2, <1>3, WrittenAlso
<1>5. pc'[h] # "lines" /\ pc[h] # "lines" /\ pc[h] # "failed"
  BY <1>2
<1>6. Coming(h) = Floor[pc[h]] /\ Coming(h)' = Floor[pc'[h]]
  BY <1>1, <1>5, ComingShape, NextComingShape
<1>7. /\ Coming(h) <= Place[part] /\ Place[part] < Coming(h)'
      /\ part = "error" => Coming(h) = 2
  BY <1>2, <1>6 DEF Floor, Place
<1>8. /\ part = "request" => cfg.requests
      /\ part = "response" => cfg.responses
      /\ part = "error" => kind[h] = "dns"
  BY <1>1, <1>2 DEF HandlerInv
<1>9. JournalInv'
  BY <1>1, <1>2, <1>3, <1>5, <1>7, <1>8, Writes
<1>10. part = "error" => ~ Written(h, "response")
  <2>1. Place["response"] = 3
    BY DEF Place
  <2>2. QED
    BY <1>1, <1>7, <2>1, NotYet
<1>11. HandlerInv(h)'
  <2>1. CASE part = "request"
    BY <1>1, <1>2, <1>4, <2>1 DEF HandlerInv, Before
  <2>2. CASE part = "error"
    BY <1>1, <1>2, <1>4, <1>10, <2>2 DEF HandlerInv, Before
  <2>3. CASE part = "response"
    BY <1>1, <1>2, <1>4, <2>3 DEF HandlerInv, Before
  <2>4. CASE part = "writeError"
    BY <1>1, <1>2, <1>4, <2>4 DEF HandlerInv, Before
  <2>5. QED
    BY <2>1, <2>2, <2>3, <2>4
<1>12. QED
  BY <1>1, <1>4, <1>9, <1>11, OthersInv

\* The flag at the head of LogDNSDebug.
LEMMA LogDNSDebugInv ==
  ASSUME Inv, TypeOK', NEW h \in Handlers, LogDNSDebug(h)
  PROVE  JournalInv' /\ HandlersInv'
<1>1. /\ TypeOK /\ JournalInv /\ HandlersInv /\ HandlerInv(h)
      /\ OthersSame(h) /\ UNCHANGED <<cfg, loggers, kind>>
  BY HandlerKeeps, StepOthers DEF Inv, HandlersInv, Step
<1>2. output' = output /\ at'[h] = at[h] /\ \A g, p : Written(g, p)' <=> Written(g, p)
  BY WrittenSame DEF LogDNSDebug
<1>3. pc[h] = "debug" /\ block'[h] \in Blocks
  BY <1>1 DEF LogDNSDebug, TypeOK
<1>4. \/ pc'[h] = "lines" /\ via'[h] = via[h] /\ loggers[via[h]].debug
      \/ pc'[h] = "reply" /\ off'[h]
  <2>1. CASE loggers[via[h]].debug
    BY <1>1, <2>1 DEF LogDNSDebug, Goto, TypeOK
  <2>2. CASE ~ loggers[via[h]].debug
    BY <1>1, <2>2 DEF LogDNSDebug, Goto, TypeOK
  <2>3. QED
    BY <2>1, <2>2
<1>5. Coming(h) = 4 /\ Coming(h)' >= 4 /\ Coming(h)' \in 1 .. 9
  BY <1>1, <1>3, <1>4, ComingShape, NextComingShape DEF Floor
<1>6. JournalInv'
  BY <1>1, <1>2, <1>3, <1>5, Quiet
<1>7. HandlerInv(h)'
  <2>1. /\ at[h] = 1 /\ block'[h] # <<>>
        /\ cfg.requests => Written(h, "request")
        /\ cfg.responses => Written(h, "response")
    BY <1>1, <1>3, BlockShape DEF HandlerInv, Before
  <2>2. CASE pc'[h] = "lines"
    BY <1>1, <1>2, <1>4, <2>1, <2>2 DEF HandlerInv, Before
  <2>3. CASE pc'[h] = "reply"
    BY <1>1, <1>2, <1>4, <2>1, <2>3 DEF HandlerInv, Before
  <2>4. QED
    BY <1>4, <2>2, <2>3
<1>8. QED
  BY <1>1, <1>2, <1>6, <1>7, OthersInv

\* One line of a block, written or not.
LEMMA DebugInv ==
  ASSUME Inv, TypeOK', NEW h \in Handlers, Debug(h)
  PROVE  JournalInv' /\ HandlersInv'
<1> DEFINE part == block[h][at[h]]
           l == loggers[via[h]]
<1>1. /\ TypeOK /\ JournalInv /\ HandlersInv /\ HandlerInv(h) /\ CoreFollowsFlags
      /\ OthersSame(h) /\ UNCHANGED <<cfg, loggers, kind>>
  BY HandlerKeeps, StepOthers DEF Inv, HandlersInv, Step
<1>2. /\ pc[h] = "lines" /\ pc'[h] = "lines" /\ via'[h] = via[h] /\ block'[h] = block[h]
      /\ off'[h] = off[h] /\ at[h] <= Len(block[h]) /\ at'[h] = at[h] + 1
  BY <1>1 DEF Debug, TypeOK
<1>3. via[h] \in Loggers /\ Exists(via[h])
  BY <1>1, <1>2, ViaShape DEF TypeOK
<1>4. block[h] \in Blocks /\ at[h] \in 1 .. Len(block[h]) /\ Len(block[h]) \in Nat
  <2>1. block[h] # <<>> /\ block[h] \in Blocks \cup {<<>>} /\ at[h] \in 1 .. Len(block[h]) + 1
    BY <1>1, <1>2 DEF HandlerInv, TypeOK
  <2>2. QED
    BY <1>2, <2>1, BlockShape
<1>5. part \in DebugParts /\ part \in Parts /\ Place[part] \in 4 .. 7
  BY <1>4, BlockShape, PlaceShape
<1>6. Coming(h) = Place[part]
  BY <1>2 DEF Coming, Least
<1>7. Place[part] < Coming(h)'
  <2>1. CASE at[h] + 1 <= Len(block[h])
    <3>1. at[h] + 1 \in 1 .. Len(block[h]) /\ at[h] < at[h] + 1
      BY <1>4, <2>1
    <3>2. Place[part] < Place[block[h][at[h] + 1]]
      BY <1>4, <3>1, BlockShape
    <3>3. QED
      BY <1>2, <2>1, <3>2 DEF Coming, Least
  <2>2. CASE ~ (at[h] + 1 <= Len(block[h]))
    BY <1>2, <1>5, <2>2 DEF Coming, Least, Floor
  <2>3. QED
    BY <2>1, <2>2
<1>8. l.zap.level = "debug" <=> l.debug
  BY <1>1, <1>3 DEF CoreFollowsFlags
<1>9. CASE l.debug
  <2>1. output' = Append(output, Line(h, part, via[h]))
    BY <1>8, <1>9 DEF Debug
  <2>2. \A g, p : Written(g, p)' <=> Written(g, p) \/ (g = h /\ p = part)
    BY <1>1, <1>3, <1>5, <2>1, WrittenAlso
  <2>3. part # "error" /\ part # "request" /\ part # "response"
    BY <1>5 DEF DebugParts
  <2>4. JournalInv'
    BY <1>1, <1>2, <1>3, <1>5, <1>6, <1>7, <2>1, <2>3, Writes
  <2>5. off[h] \/ \A i \in 1 .. at'[h] - 1 : Written(h, block[h][i])'
    <3>1. \A i \in 1 .. at'[h] - 1 : i = at[h] \/ i \in 1 .. at[h] - 1
      BY <1>2, <1>4
    <3>2. QED
      BY <1>1, <1>2, <2>2, <3>1 DEF HandlerInv
  <2>6. HandlerInv(h)'
    BY <1>1, <1>2, <1>9, <2>2, <2>5 DEF HandlerInv, Before
  <2>7. QED
    BY <1>1, <2>2, <2>4, <2>6, OthersInv
<1>10. CASE ~ l.debug
  <2>1. output' = output
    BY <1>10 DEF Debug
  <2>2. \A g, p : Written(g, p)' <=> Written(g, p)
    BY <2>1, WrittenSame
  <2>3. Coming(h)' \in 1 .. 9
    BY <1>1, NextComingShape
  <2>4. JournalInv'
    <3> DEFINE p == Place[part]
    <3>1. p \in 4 .. 7 /\ Coming(h) = p /\ p < Coming(h)'
      BY <1>5, <1>6, <1>7
    <3> HIDE DEF p
    <3>2. Coming(h) <= Coming(h)'
      BY <2>3, <3>1
    <3>3. QED
      BY <1>1, <1>2, <2>1, <3>2, Quiet
  <2>5. off[h]
    BY <1>1, <1>2, <1>10 DEF HandlerInv
  <2>6. HandlerInv(h)'
    BY <1>1, <1>2, <2>2, <2>5 DEF HandlerInv, Before
  <2>7. QED
    BY <1>1, <2>2, <2>4, <2>6, OthersInv
<1>11. QED
  BY <1>9, <1>10

\* A change of the loggers, which leaves the handlers where they are.
LEMMA ChangeInv ==
  ASSUME Inv, Change
  PROVE  Inv'
<1>1. /\ TypeOK /\ CoreFollowsFlags /\ JournalInv /\ HandlersInv
      /\ UNCHANGED <<cfg, output, kind, pc, via, block, at>>
      /\ changes' \in 0 .. MaxChanges
  <2>1. changes < MaxChanges /\ changes' = changes + 1
    BY DEF Change
  <2>2. changes \in 0 .. MaxChanges /\ MaxChanges \in Nat
    BY LoggingAssumption DEF Inv, TypeOK
  <2>3. UNCHANGED <<cfg, output, kind, pc, via, block, at>>
    BY DEF Change
  <2>4. QED
    BY <2>1, <2>2, <2>3 DEF Inv
<1>2. JournalInv'
  BY <1>1 DEF JournalInv, LineInv, PairInv, Coming
<1>3. \A g, p : Written(g, p)' <=> Written(g, p)
  BY <1>1, WrittenSame
<1>4. ASSUME NEW l \in Loggers, Exists(l), default' = l, UNCHANGED <<loggers, off>>
      PROVE  Inv'
  <2>1. TypeOK'
    BY <1>1, <1>4 DEF TypeOK, Exists
  <2>2. CoreFollowsFlags'
    BY <1>1, <1>4 DEF CoreFollowsFlags, Exists
  <2>3. HandlersInv'
    BY <1>1, <1>3, <1>4 DEF HandlersInv, HandlerInv
  <2>4. QED
    BY <1>2, <2>1, <2>2, <2>3 DEF Inv
<1>5. ASSUME NEW l \in Loggers, NEW logger \in AllLoggers, Assign(l, logger), Follows(logger)
      PROVE  Inv'
  <2>1. /\ loggers' \in [Loggers -> AllLoggers \cup {Nil}]
        /\ loggers'[l] = logger /\ loggers'[l] # Nil
        /\ \A k \in Loggers \ {l} : loggers'[k] = loggers[k]
        /\ \A k \in Loggers : Exists(k) => loggers'[k] # Nil
    BY <1>1, <1>5, AssignShape
  <2>2. /\ default' = default /\ off' \in [Handlers -> BOOLEAN]
        /\ \A h \in Handlers : off'[h] <=> off[h] \/ (pc[h] = "lines" /\ via[h] = l /\ ~ logger.debug)
    BY <1>1, <1>5 DEF Assign, TypeOK
  <2>3. TypeOK'
    BY <1>1, <2>1, <2>2 DEF TypeOK, Exists
  <2>4. CoreFollowsFlags'
    <3>1. ASSUME NEW k \in Loggers, loggers'[k] # Nil PROVE Follows(loggers'[k])
      <4>1. CASE k = l
        BY <1>5, <2>1, <4>1
      <4>2. CASE k # l
        BY <1>1, <2>1, <3>1, <4>2 DEF CoreFollowsFlags, Exists, Follows
      <4>3. QED
        BY <4>1, <4>2
    <3>2. QED
      BY <3>1 DEF CoreFollowsFlags, Exists, Follows
  <2>5. ASSUME NEW h \in Handlers PROVE HandlerInv(h)'
    <3>1. HandlerInv(h)
      BY <1>1 DEF HandlersInv
    <3>2. off[h] => off'[h]
      BY <2>2
    <3>3. pc[h] = "lines" => off'[h] \/ loggers'[via[h]].debug
      <4>1. CASE via[h] = l
        BY <2>1, <2>2, <4>1
      <4>2. CASE via[h] # l /\ pc[h] = "lines"
        <5>1. loggers'[via[h]] = loggers[via[h]]
          BY <1>1, <2>1, <4>2, ViaShape DEF TypeOK
        <5>2. QED
          BY <3>1, <3>2, <4>2, <5>1 DEF HandlerInv
      <4>3. QED
        BY <4>1, <4>2
    <3>4. QED
      BY <1>1, <1>3, <3>1, <3>2, <3>3 DEF HandlerInv
  <2>6. QED
    BY <1>2, <2>3, <2>4, <2>5 DEF Inv, HandlersInv
<1>6. QED
  BY <1>1, <1>4, <1>5, ChangeMakes
-----------------------------------------------------------------------------
LEMMA InitInv == Init => Inv
<1> SUFFICES ASSUME Init PROVE Inv
  OBVIOUS
<1>1. TypeOK /\ CoreFollowsFlags
  BY InitTypeOK
<1>2. DOMAIN output = {}
  BY DEF Init
<1>3. JournalInv
  BY <1>2 DEF JournalInv
<1>4. ASSUME NEW h \in Handlers PROVE HandlerInv(h)
  BY DEF Init, HandlerInv, Before
<1>5. QED
  BY <1>1, <1>3, <1>4 DEF Inv, HandlersInv

LEMMA NextInv == Inv /\ [Next]_vars => Inv'
<1> SUFFICES ASSUME Inv, [Next]_vars PROVE Inv'
  OBVIOUS
<1>1. ASSUME NEW h \in Handlers, Step(h) PROVE Inv'
  <2>1. TypeOK'
    BY <1>1, StepTypeOK DEF Inv
  <2>2. CoreFollowsFlags'
    BY <1>1, HandlerKeeps DEF Inv, CoreFollowsFlags, Exists
  <2>3. JournalInv' /\ HandlersInv'
    BY <1>1, <2>1, SilentInv, RouteInv, LogInv, LogDNSDebugInv, DebugInv DEF Step
  <2>4. QED
    BY <2>1, <2>2, <2>3 DEF Inv
<1>2. CASE Change
  BY <1>2, ChangeInv
<1>3. CASE UNCHANGED vars
  <2>1. TypeOK' /\ CoreFollowsFlags'
    BY <1>3 DEF Inv, TypeOK, CoreFollowsFlags, Exists, vars
  <2>2. JournalInv' /\ HandlersInv'
    BY <1>3 DEF Inv, JournalInv, LineInv, PairInv, Coming, HandlersInv, HandlerInv, Written, vars
  <2>3. QED
    BY <2>1, <2>2 DEF Inv
<1>4. QED
  BY <1>1, <1>2, <1>3 DEF Next

\* Inv holds whatever is written, set and swapped, by however many goroutines.
THEOREM InvHolds == Spec => []Inv
BY InitInv, NextInv, PTL DEF Spec

\* The shapes of the variables.
THEOREM TypeCorrect == Spec => []TypeOK
<1>1. Inv => TypeOK
  BY DEF Inv
<1>2. QED
  BY <1>1, InvHolds, PTL

\* The core that writes agrees with the flags, after any sequence of setters.
THEOREM CoreTheorem == Spec => []CoreFollowsFlags
<1>1. Inv => CoreFollowsFlags
  BY DEF Inv
<1>2. QED
  BY <1>1, InvHolds, PTL

\* The lines of a query come in the order of the handler's work, and at its end
\* they are the ones that its outcome, its kind and the configuration call for.
THEOREM JournalTheorem == Spec => []JournalInOrder
<1>1. Inv => JournalInOrder
  <2> SUFFICES ASSUME Inv PROVE JournalInOrder
    OBVIOUS
  <2>1. \A i, j \in DOMAIN output :
          i < j /\ output[i].by = output[j].by => Place[output[i].part] < Place[output[j].part]
    BY DEF Inv, JournalInv, PairInv
  <2>2. ASSUME NEW h \in Handlers, Written(h, "error"), NEW part \in Parts, Written(h, part)
        PROVE  part \in {"request", "error"}
    BY <2>2 DEF Inv, JournalInv, PairInv, Written
  <2>3. ASSUME NEW h \in Handlers, pc[h] \in {"done", "failed"}
        PROVE  /\ Written(h, "request") <=> cfg.requests
               /\ Written(h, "response") <=> cfg.responses /\ pc[h] = "done"
               /\ Written(h, "error") <=> kind[h] = "dns" /\ pc[h] = "failed"
    BY <2>3 DEF Inv, JournalInv, LineInv, HandlersInv, HandlerInv, Written
  <2>4. QED
    BY <2>1, <2>2, <2>3 DEF JournalInOrder
<1>2. QED
  BY <1>1, InvHolds, PTL

\* A line of a debug block is missing only if debug logging was off meanwhile.
THEOREM MissingLineTheorem == Spec => []MissingLineIsExplained
<1>1. Inv => MissingLineIsExplained
  BY DEF Inv, HandlersInv, HandlerInv, MissingLineIsExplained
<1>2. QED
  BY <1>1, InvHolds, PTL

\* The lines of one block are written by one logger.
THEOREM BlockTheorem == Spec => []BlockInOneLogger
<1>1. Inv => BlockInOneLogger
  <2> SUFFICES ASSUME Inv, NEW i \in DOMAIN output, NEW j \in DOMAIN output,
                      output[i].by = output[j].by,
                      {output[i].part, output[j].part} \subseteq DebugParts
               PROVE  output[i].logger = output[j].logger
    BY DEF BlockInOneLogger
  <2>1. output[i].part \in DebugParts /\ output[j].part \in DebugParts
    OBVIOUS
  <2>2. QED
    BY <2>1 DEF Inv, JournalInv, PairInv
<1>2. QED
  BY <1>1, InvHolds, PTL
=============================================================================
