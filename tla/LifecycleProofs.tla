---------------------------- MODULE LifecycleProofs ----------------------------
(***************************************************************************)
(* Proofs about Lifecycle for any bound on the handlers: its five          *)
(* invariants, and that after a signal every step of the main goroutine is *)
(* a step towards the exit.  The invariant Inv adds to the five what each  *)
(* place of the main goroutine knows: that nothing is closed before the    *)
(* shutdown (StageInv), that a shutdown without an error has stopped and   *)
(* emptied the servers it is past (DrainInv), where an error comes from    *)
(* (FailInv), and that a goroutine of the DNS server sends one message at  *)
(* most (ChannelInv).                                                      *)
(***************************************************************************)
EXTENDS Lifecycle, TLAPS

\* Whether a goroutine of the DNS server has sent, or cannot any more.
Spent(s) == IF listener[s] \in {"off", "starting", "failing", "serving"} THEN 0 ELSE 1

ChannelInv ==
  /\ errCh <= Spent("udp") + Spent("tcp")
  /\ \A s \in Servers : listener[s] = "failing" => s \in DNS
  /\ pc = "dns" => \A s \in Servers : listener[s] = "off"

Opening == {"dns", "check", "grpc", "http", "ready", "notify", "wait", "notReady"}

Closing == {"close", "drain"}

StageInv ==
  /\ pc \in {"dns", "check", "grpc", "http"} => ~ ready /\ listener["http"] = "off"
  /\ pc \in Opening =>
       ~ failed /\ at = 1 /\ \A s \in Servers : listener[s] \notin {"stopping", "stopped"}
  /\ pc \in Closing => ~ ready
  /\ Alive => ~ dropped

DrainInv ==
  pc \in Closing /\ ~ failed =>
    \A i \in 1 .. 4 : i < at => listener[Order[i]] = "stopped" /\ inFlight[Order[i]] = 0

FailInv ==
  failed => \/ expired
            \/ \E i \in {3, 4} : (i < at \/ pc = "exited") /\ listener[Order[i]] # "stopped"

\* The inductive invariant.
Inv ==
  /\ TypeOK /\ ChannelInv /\ StageInv /\ DrainInv /\ FailInv
  /\ CleanExitDropsNothing /\ ErrorExitIsExplained /\ NotReadyWhileClosing
-----------------------------------------------------------------------------
LEMMA OrderShape ==
  /\ Len(Order) = 4 /\ DOMAIN Order = 1 .. 4
  /\ Order[1] = "http" /\ Order[2] = "grpc" /\ Order[3] = "udp" /\ Order[4] = "tcp"
BY DEF Order

LEMMA OrderIsOneToOne ==
  /\ \A i \in 1 .. 4 : Order[i] \in Servers /\ (Order[i] \in DNS <=> i >= 3)
  /\ \A i, j \in 1 .. 4 : Order[i] = Order[j] => i = j
  /\ \A s \in Servers : \E i \in 1 .. 4 : Order[i] = s
BY OrderShape DEF Servers, DNS

\* What Gone and Proceed leave.
LEMMA GoneShape ==
  ASSUME NEW label, NEW c, Gone(label, c)
  PROVE  pc' = label /\ code' = c /\ dropped' \in BOOLEAN
BY DEF Gone

LEMMA ProceedShape ==
  ASSUME at \in 1 .. 4, failed' \in BOOLEAN, dropped \in BOOLEAN, code \in 0 .. 2, Proceed
  PROVE  /\ at' \in 1 .. 4 /\ code' \in 0 .. 2 /\ dropped' \in BOOLEAN /\ pc' \in {"close", "exited"}
         /\ at < 4 => at' = at + 1 /\ pc' = "close" /\ code' = code /\ dropped' = dropped
         /\ at = 4 => at' = 4 /\ pc' = "exited" /\ (code' = 0 <=> ~ failed')
                     /\ dropped' = (dropped \/ \E s \in Servers : inFlight[s] > 0)
<1>1. CASE at < 4
  BY <1>1, OrderShape DEF Proceed
<1>2. CASE at = 4
  BY <1>2, OrderShape DEF Proceed, Gone
<1>3. QED
  BY <1>1, <1>2

LEMMA InitInv == ASSUME Init PROVE Inv
<1>1. TypeOK
  <2>1. listener \in [Servers -> States] /\ inFlight \in [Servers -> 0 .. MaxInFlight]
    BY LifecycleAssumption DEF Init, States
  <2>2. at \in DOMAIN Order /\ pc \in PCs /\ code \in 0 .. 2
        /\ errCh \in 0 .. Capacity /\ sigCh \in 0 .. 1
    BY OrderShape DEF Init, PCs, Capacity
  <2>3. QED
    BY <2>1, <2>2 DEF Init, TypeOK
<1>2. ChannelInv /\ StageInv /\ DrainInv /\ FailInv
  BY DEF Init, ChannelInv, Spent, StageInv, Opening, Closing, Alive, DrainInv, FailInv, Servers
<1>3. CleanExitDropsNothing /\ ErrorExitIsExplained /\ NotReadyWhileClosing
  BY DEF Init, CleanExitDropsNothing, ErrorExitIsExplained, NotReadyWhileClosing
<1>4. QED
  BY <1>1, <1>2, <1>3 DEF Inv
-----------------------------------------------------------------------------
LEMMA TypeNext ==
  ASSUME TypeOK, Next
  PROVE  TypeOK'
<1>1. CASE StartDNS
  BY <1>1, LifecycleAssumption, OrderShape DEF StartDNS, TypeOK, PCs, States, Alive, Capacity
<1>2. CASE CheckDNS
  <2>1. code' \in 0 .. 2 /\ dropped' \in BOOLEAN /\ pc' \in PCs
    BY <1>2, GoneShape DEF CheckDNS, TypeOK, PCs
  <2>2. errCh' \in 0 .. Capacity
    BY <1>2 DEF CheckDNS, TypeOK, Capacity
  <2>3. QED
    BY <1>2, <2>1, <2>2 DEF CheckDNS, TypeOK
<1>3. CASE StartGRPC
  <2>1. listener' \in [Servers -> States]
    BY <1>3 DEF StartGRPC, TypeOK, States
  <2>2. at' \in DOMAIN Order /\ code' \in 0 .. 2 /\ dropped' \in BOOLEAN /\ pc' \in PCs
    BY <1>3, OrderShape, GoneShape DEF StartGRPC, TypeOK, PCs
  <2>3. QED
    BY <1>3, <2>1, <2>2 DEF StartGRPC, TypeOK, Capacity
<1>4. CASE StartHTTP
  BY <1>4, LifecycleAssumption, OrderShape DEF StartHTTP, TypeOK, PCs, States, Alive, Capacity
<1>5. CASE MarkReady
  BY <1>5, LifecycleAssumption, OrderShape DEF MarkReady, TypeOK, PCs, States, Alive, Capacity
<1>6. CASE Notify
  BY <1>6, LifecycleAssumption, OrderShape DEF Notify, TypeOK, PCs, States, Alive, Capacity
<1>7. CASE ReceiveSignal
  BY <1>7, LifecycleAssumption, OrderShape DEF ReceiveSignal, TypeOK, PCs, States, Alive,
     Capacity
<1>8. CASE MarkNotReady
  BY <1>8, LifecycleAssumption, OrderShape DEF MarkNotReady, TypeOK, PCs, States, Alive,
     Capacity
<1>9. CASE Close
  <2>1. listener' \in [Servers -> States] /\ failed' \in BOOLEAN
    BY <1>9 DEF Close, TypeOK, States
  <2>2. CASE Proceed
    <3>1. at' \in 1 .. 4 /\ code' \in 0 .. 2 /\ dropped' \in BOOLEAN /\ pc' \in PCs
      BY <2>1, <2>2, OrderShape, ProceedShape DEF TypeOK, PCs
    <3>2. QED
      BY <1>9, <2>1, <3>1, OrderShape DEF Close, TypeOK
  <2>3. CASE pc' = "drain" /\ UNCHANGED <<at, code, failed, dropped>>
    BY <1>9, <2>1, <2>3 DEF Close, TypeOK, PCs
  <2>4. QED
    BY <1>9, <2>2, <2>3 DEF Close
<1>10. CASE Drained
  <2>1. listener' \in [Servers -> States]
    BY <1>10 DEF Drained, TypeOK, States
  <2>2. failed' \in BOOLEAN /\ Proceed
    BY <1>10 DEF Drained, TypeOK
  <2>3. at' \in 1 .. 4 /\ code' \in 0 .. 2 /\ dropped' \in BOOLEAN /\ pc' \in PCs
    BY <2>2, OrderShape, ProceedShape DEF TypeOK, PCs
  <2>4. QED
    BY <1>10, <2>1, <2>2, <2>3, OrderShape DEF Drained, TypeOK
<1>11. CASE GiveUp
  <2>1. listener' \in [Servers -> States]
    BY <1>11 DEF GiveUp, TypeOK, States
  <2>2. failed' \in BOOLEAN /\ Proceed
    BY <1>11 DEF GiveUp, TypeOK
  <2>3. at' \in 1 .. 4 /\ code' \in 0 .. 2 /\ dropped' \in BOOLEAN /\ pc' \in PCs
    BY <2>2, OrderShape, ProceedShape DEF TypeOK, PCs
  <2>4. QED
    BY <1>11, <2>1, <2>2, <2>3, OrderShape DEF GiveUp, TypeOK
<1>12. CASE Signal
  <2>1. code' \in 0 .. 2 /\ dropped' \in BOOLEAN /\ pc' \in PCs
    BY <1>12, GoneShape DEF Signal, TypeOK, PCs
  <2>2. QED
    BY <1>12, <2>1 DEF Signal, TypeOK
<1>13. CASE Expire
  BY <1>13, LifecycleAssumption, OrderShape DEF Expire, TypeOK, PCs, States, Alive, Capacity
<1>14. ASSUME NEW s \in Servers, Bind(s) PROVE TypeOK'
  BY <1>14, LifecycleAssumption, OrderShape DEF Bind, TypeOK, PCs, States, Alive, Capacity
<1>15. ASSUME NEW s \in Servers, BindFails(s) PROVE TypeOK'
  BY <1>15, LifecycleAssumption, OrderShape DEF BindFails, TypeOK, PCs, States, Alive, Capacity
<1>16. ASSUME NEW s \in Servers, Report(s) PROVE TypeOK'
  BY <1>16, LifecycleAssumption, OrderShape DEF Report, TypeOK, PCs, States, Alive, Capacity
<1>17. ASSUME NEW s \in Servers, Break(s) PROVE TypeOK'
  BY <1>17, LifecycleAssumption, OrderShape DEF Break, TypeOK, PCs, States, Alive, Capacity
<1>18. ASSUME NEW s \in Servers, Accept(s) PROVE TypeOK'
  BY <1>18, LifecycleAssumption, OrderShape DEF Accept, TypeOK, PCs, States, Alive, Capacity
<1>19. ASSUME NEW s \in Servers, Finish(s) PROVE TypeOK'
  BY <1>19, LifecycleAssumption, OrderShape DEF Finish, TypeOK, PCs, States, Alive, Capacity
<1>20. QED
  BY <1>1, <1>2, <1>3, <1>4, <1>5, <1>6, <1>7, <1>8, <1>9, <1>10, <1>11, <1>12, <1>13, <1>14,
     <1>15, <1>16, <1>17, <1>18, <1>19 DEF Next, Main

LEMMA ChannelNext ==
  ASSUME TypeOK, ChannelInv, Next
  PROVE  ChannelInv'
<1>1. CASE StartDNS
  BY <1>1, OrderShape DEF StartDNS, TypeOK, ChannelInv, Spent, Alive, Servers, DNS
<1>2. CASE CheckDNS
  BY <1>2, OrderShape DEF CheckDNS, Gone, TypeOK, ChannelInv, Spent, Alive, Servers, DNS
<1>3. CASE StartGRPC
  BY <1>3, OrderShape DEF StartGRPC, Gone, TypeOK, ChannelInv, Spent, Alive, Servers, DNS
<1>4. CASE StartHTTP
  BY <1>4, OrderShape DEF StartHTTP, TypeOK, ChannelInv, Spent, Alive, Servers, DNS
<1>5. CASE MarkReady
  BY <1>5, OrderShape DEF MarkReady, TypeOK, ChannelInv, Spent, Alive, Servers, DNS
<1>6. CASE Notify
  BY <1>6, OrderShape DEF Notify, TypeOK, ChannelInv, Spent, Alive, Servers, DNS
<1>7. CASE ReceiveSignal
  BY <1>7, OrderShape DEF ReceiveSignal, TypeOK, ChannelInv, Spent, Alive, Servers, DNS
<1>8. CASE MarkNotReady
  BY <1>8, OrderShape DEF MarkNotReady, TypeOK, ChannelInv, Spent, Alive, Servers, DNS
<1>9. CASE Close
  BY <1>9, OrderShape DEF Close, Proceed, Gone, TypeOK, ChannelInv, Spent, Alive, Servers, DNS
<1>10. CASE Drained
  BY <1>10, OrderShape DEF Drained, Proceed, Gone, TypeOK, ChannelInv, Spent, Alive, Servers,
     DNS
<1>11. CASE GiveUp
  BY <1>11, OrderShape DEF GiveUp, Proceed, Gone, TypeOK, ChannelInv, Spent, Alive, Servers, DNS
<1>12. CASE Signal
  BY <1>12, OrderShape DEF Signal, Gone, TypeOK, ChannelInv, Spent, Alive, Servers, DNS
<1>13. CASE Expire
  BY <1>13, OrderShape DEF Expire, TypeOK, ChannelInv, Spent, Alive, Servers, DNS
<1>14. ASSUME NEW s \in Servers, Bind(s) PROVE ChannelInv'
  BY <1>14, OrderShape DEF Bind, TypeOK, ChannelInv, Spent, Alive, Servers, DNS
<1>15. ASSUME NEW s \in Servers, BindFails(s) PROVE ChannelInv'
  BY <1>15, OrderShape DEF BindFails, TypeOK, ChannelInv, Spent, Alive, Servers, DNS
<1>16. ASSUME NEW s \in Servers, Report(s) PROVE ChannelInv'
  BY <1>16, OrderShape DEF Report, TypeOK, ChannelInv, Spent, Alive, Servers, DNS
<1>17. ASSUME NEW s \in Servers, Break(s) PROVE ChannelInv'
  BY <1>17, OrderShape DEF Break, TypeOK, ChannelInv, Spent, Alive, Servers, DNS
<1>18. ASSUME NEW s \in Servers, Accept(s) PROVE ChannelInv'
  BY <1>18, OrderShape DEF Accept, TypeOK, ChannelInv, Spent, Alive, Servers, DNS
<1>19. ASSUME NEW s \in Servers, Finish(s) PROVE ChannelInv'
  BY <1>19, OrderShape DEF Finish, TypeOK, ChannelInv, Spent, Alive, Servers, DNS
<1>20. QED
  BY <1>1, <1>2, <1>3, <1>4, <1>5, <1>6, <1>7, <1>8, <1>9, <1>10, <1>11, <1>12, <1>13, <1>14,
     <1>15, <1>16, <1>17, <1>18, <1>19 DEF Next, Main

LEMMA StageNext ==
  ASSUME TypeOK, StageInv, Next
  PROVE  StageInv'
<1>1. CASE StartDNS
  BY <1>1, OrderShape DEF StartDNS, TypeOK, StageInv, Opening, Closing, Alive, Servers, DNS
<1>2. CASE CheckDNS
  BY <1>2, OrderShape DEF CheckDNS, Gone, TypeOK, StageInv, Opening, Closing, Alive, Servers,
     DNS
<1>3. CASE StartGRPC
  BY <1>3, OrderShape DEF StartGRPC, Gone, TypeOK, StageInv, Opening, Closing, Alive, Servers,
     DNS
<1>4. CASE StartHTTP
  BY <1>4, OrderShape DEF StartHTTP, TypeOK, StageInv, Opening, Closing, Alive, Servers, DNS
<1>5. CASE MarkReady
  BY <1>5, OrderShape DEF MarkReady, TypeOK, StageInv, Opening, Closing, Alive, Servers, DNS
<1>6. CASE Notify
  BY <1>6, OrderShape DEF Notify, TypeOK, StageInv, Opening, Closing, Alive, Servers, DNS
<1>7. CASE ReceiveSignal
  BY <1>7, OrderShape DEF ReceiveSignal, TypeOK, StageInv, Opening, Closing, Alive, Servers, DNS
<1>8. CASE MarkNotReady
  BY <1>8, OrderShape DEF MarkNotReady, TypeOK, StageInv, Opening, Closing, Alive, Servers, DNS
<1>9. CASE Close
  BY <1>9, OrderShape DEF Close, Proceed, Gone, TypeOK, StageInv, Opening, Closing, Alive,
     Servers, DNS
<1>10. CASE Drained
  BY <1>10, OrderShape DEF Drained, Proceed, Gone, TypeOK, StageInv, Opening, Closing, Alive,
     Servers, DNS
<1>11. CASE GiveUp
  BY <1>11, OrderShape DEF GiveUp, Proceed, Gone, TypeOK, StageInv, Opening, Closing, Alive,
     Servers, DNS
<1>12. CASE Signal
  BY <1>12, OrderShape DEF Signal, Gone, TypeOK, StageInv, Opening, Closing, Alive, Servers, DNS
<1>13. CASE Expire
  BY <1>13, OrderShape DEF Expire, TypeOK, StageInv, Opening, Closing, Alive, Servers, DNS
<1>14. ASSUME NEW s \in Servers, Bind(s) PROVE StageInv'
  BY <1>14, OrderShape DEF Bind, TypeOK, StageInv, Opening, Closing, Alive, Servers, DNS
<1>15. ASSUME NEW s \in Servers, BindFails(s) PROVE StageInv'
  BY <1>15, OrderShape DEF BindFails, TypeOK, StageInv, Opening, Closing, Alive, Servers, DNS
<1>16. ASSUME NEW s \in Servers, Report(s) PROVE StageInv'
  BY <1>16, OrderShape DEF Report, TypeOK, StageInv, Opening, Closing, Alive, Servers, DNS
<1>17. ASSUME NEW s \in Servers, Break(s) PROVE StageInv'
  BY <1>17, OrderShape DEF Break, TypeOK, StageInv, Opening, Closing, Alive, Servers, DNS
<1>18. ASSUME NEW s \in Servers, Accept(s) PROVE StageInv'
  BY <1>18, OrderShape DEF Accept, TypeOK, StageInv, Opening, Closing, Alive, Servers, DNS
<1>19. ASSUME NEW s \in Servers, Finish(s) PROVE StageInv'
  BY <1>19, OrderShape DEF Finish, TypeOK, StageInv, Opening, Closing, Alive, Servers, DNS
<1>20. QED
  BY <1>1, <1>2, <1>3, <1>4, <1>5, <1>6, <1>7, <1>8, <1>9, <1>10, <1>11, <1>12, <1>13, <1>14,
     <1>15, <1>16, <1>17, <1>18, <1>19 DEF Next, Main

LEMMA ReadyNext ==
  ASSUME TypeOK, StageInv, NotReadyWhileClosing, Next
  PROVE  NotReadyWhileClosing'
<1>1. CASE StartDNS
  BY <1>1, OrderIsOneToOne DEF StartDNS, TypeOK, StageInv, Opening, Closing,
     NotReadyWhileClosing, Alive
<1>2. CASE CheckDNS
  BY <1>2, OrderIsOneToOne DEF CheckDNS, Gone, TypeOK, StageInv, Opening, Closing,
     NotReadyWhileClosing, Alive
<1>3. CASE StartGRPC
  BY <1>3, OrderIsOneToOne DEF StartGRPC, Gone, TypeOK, StageInv, Opening, Closing,
     NotReadyWhileClosing, Alive
<1>4. CASE StartHTTP
  BY <1>4, OrderIsOneToOne DEF StartHTTP, TypeOK, StageInv, Opening, Closing,
     NotReadyWhileClosing, Alive
<1>5. CASE MarkReady
  BY <1>5, OrderIsOneToOne DEF MarkReady, TypeOK, StageInv, Opening, Closing,
     NotReadyWhileClosing, Alive
<1>6. CASE Notify
  BY <1>6, OrderIsOneToOne DEF Notify, TypeOK, StageInv, Opening, Closing,
     NotReadyWhileClosing, Alive
<1>7. CASE ReceiveSignal
  BY <1>7, OrderIsOneToOne DEF ReceiveSignal, TypeOK, StageInv, Opening, Closing,
     NotReadyWhileClosing, Alive
<1>8. CASE MarkNotReady
  BY <1>8, OrderIsOneToOne DEF MarkNotReady, TypeOK, StageInv, Opening, Closing,
     NotReadyWhileClosing, Alive
<1>9. CASE Close
  BY <1>9, OrderIsOneToOne DEF Close, Proceed, Gone, TypeOK, StageInv, Opening, Closing,
     NotReadyWhileClosing, Alive
<1>10. CASE Drained
  BY <1>10, OrderIsOneToOne DEF Drained, Proceed, Gone, TypeOK, StageInv, Opening, Closing,
     NotReadyWhileClosing, Alive
<1>11. CASE GiveUp
  BY <1>11, OrderIsOneToOne DEF GiveUp, Proceed, Gone, TypeOK, StageInv, Opening, Closing,
     NotReadyWhileClosing, Alive
<1>12. CASE Signal
  BY <1>12, OrderIsOneToOne DEF Signal, Gone, TypeOK, StageInv, Opening, Closing,
     NotReadyWhileClosing, Alive
<1>13. CASE Expire
  BY <1>13, OrderIsOneToOne DEF Expire, TypeOK, StageInv, Opening, Closing,
     NotReadyWhileClosing, Alive
<1>14. ASSUME NEW s \in Servers, Bind(s) PROVE NotReadyWhileClosing'
  BY <1>14, OrderIsOneToOne DEF Bind, TypeOK, StageInv, Opening, Closing,
     NotReadyWhileClosing, Alive
<1>15. ASSUME NEW s \in Servers, BindFails(s) PROVE NotReadyWhileClosing'
  BY <1>15, OrderIsOneToOne DEF BindFails, TypeOK, StageInv, Opening, Closing,
     NotReadyWhileClosing, Alive
<1>16. ASSUME NEW s \in Servers, Report(s) PROVE NotReadyWhileClosing'
  BY <1>16, OrderIsOneToOne DEF Report, TypeOK, StageInv, Opening, Closing,
     NotReadyWhileClosing, Alive
<1>17. ASSUME NEW s \in Servers, Break(s) PROVE NotReadyWhileClosing'
  BY <1>17, OrderIsOneToOne DEF Break, TypeOK, StageInv, Opening, Closing,
     NotReadyWhileClosing, Alive
<1>18. ASSUME NEW s \in Servers, Accept(s) PROVE NotReadyWhileClosing'
  BY <1>18, OrderIsOneToOne DEF Accept, TypeOK, StageInv, Opening, Closing,
     NotReadyWhileClosing, Alive
<1>19. ASSUME NEW s \in Servers, Finish(s) PROVE NotReadyWhileClosing'
  BY <1>19, OrderIsOneToOne DEF Finish, TypeOK, StageInv, Opening, Closing,
     NotReadyWhileClosing, Alive
<1>20. QED
  BY <1>1, <1>2, <1>3, <1>4, <1>5, <1>6, <1>7, <1>8, <1>9, <1>10, <1>11, <1>12, <1>13, <1>14,
     <1>15, <1>16, <1>17, <1>18, <1>19 DEF Next, Main

LEMMA DrainNext ==
  ASSUME TypeOK, StageInv, DrainInv, Next
  PROVE  DrainInv'
<1>1. CASE StartDNS
  BY <1>1, OrderShape, OrderIsOneToOne DEF StartDNS, TypeOK, StageInv, Opening, Closing,
     DrainInv, Alive
<1>2. CASE CheckDNS
  BY <1>2, OrderShape, OrderIsOneToOne DEF CheckDNS, Gone, TypeOK, StageInv, Opening, Closing,
     DrainInv, Alive
<1>3. CASE StartGRPC
  BY <1>3, OrderShape, OrderIsOneToOne DEF StartGRPC, Gone, TypeOK, StageInv, Opening,
     Closing, DrainInv, Alive
<1>4. CASE StartHTTP
  BY <1>4, OrderShape, OrderIsOneToOne DEF StartHTTP, TypeOK, StageInv, Opening, Closing,
     DrainInv, Alive
<1>5. CASE MarkReady
  BY <1>5, OrderShape, OrderIsOneToOne DEF MarkReady, TypeOK, StageInv, Opening, Closing,
     DrainInv, Alive
<1>6. CASE Notify
  BY <1>6, OrderShape, OrderIsOneToOne DEF Notify, TypeOK, StageInv, Opening, Closing,
     DrainInv, Alive
<1>7. CASE ReceiveSignal
  BY <1>7, OrderShape, OrderIsOneToOne DEF ReceiveSignal, TypeOK, StageInv, Opening, Closing,
     DrainInv, Alive
<1>8. CASE MarkNotReady
  BY <1>8, OrderShape, OrderIsOneToOne DEF MarkNotReady, TypeOK, StageInv, Opening, Closing,
     DrainInv, Alive
<1>9. CASE Close
  BY <1>9, OrderShape, OrderIsOneToOne DEF Close, Proceed, Gone, TypeOK, StageInv, Opening,
     Closing, DrainInv, Alive
<1>10. CASE Drained
  BY <1>10, OrderShape, OrderIsOneToOne DEF Drained, Proceed, Gone, TypeOK, StageInv, Opening,
     Closing, DrainInv, Alive
<1>11. CASE GiveUp
  BY <1>11, OrderShape, OrderIsOneToOne DEF GiveUp, Proceed, Gone, TypeOK, StageInv, Opening,
     Closing, DrainInv, Alive
<1>12. CASE Signal
  BY <1>12, OrderShape, OrderIsOneToOne DEF Signal, Gone, TypeOK, StageInv, Opening, Closing,
     DrainInv, Alive
<1>13. CASE Expire
  BY <1>13, OrderShape, OrderIsOneToOne DEF Expire, TypeOK, StageInv, Opening, Closing,
     DrainInv, Alive
<1>14. ASSUME NEW s \in Servers, Bind(s) PROVE DrainInv'
  BY <1>14, OrderShape, OrderIsOneToOne DEF Bind, TypeOK, StageInv, Opening, Closing,
     DrainInv, Alive
<1>15. ASSUME NEW s \in Servers, BindFails(s) PROVE DrainInv'
  BY <1>15, OrderShape, OrderIsOneToOne DEF BindFails, TypeOK, StageInv, Opening, Closing,
     DrainInv, Alive
<1>16. ASSUME NEW s \in Servers, Report(s) PROVE DrainInv'
  BY <1>16, OrderShape, OrderIsOneToOne DEF Report, TypeOK, StageInv, Opening, Closing,
     DrainInv, Alive
<1>17. ASSUME NEW s \in Servers, Break(s) PROVE DrainInv'
  BY <1>17, OrderShape, OrderIsOneToOne DEF Break, TypeOK, StageInv, Opening, Closing,
     DrainInv, Alive
<1>18. ASSUME NEW s \in Servers, Accept(s) PROVE DrainInv'
  BY <1>18, OrderShape, OrderIsOneToOne DEF Accept, TypeOK, StageInv, Opening, Closing,
     DrainInv, Alive
<1>19. ASSUME NEW s \in Servers, Finish(s) PROVE DrainInv'
  BY <1>19, OrderShape, OrderIsOneToOne DEF Finish, TypeOK, StageInv, Opening, Closing,
     DrainInv, Alive
<1>20. QED
  BY <1>1, <1>2, <1>3, <1>4, <1>5, <1>6, <1>7, <1>8, <1>9, <1>10, <1>11, <1>12, <1>13, <1>14,
     <1>15, <1>16, <1>17, <1>18, <1>19 DEF Next, Main

LEMMA FailNext ==
  ASSUME TypeOK, StageInv, FailInv, Next
  PROVE  FailInv'
<1>1. CASE StartDNS
  BY <1>1, OrderShape, OrderIsOneToOne DEF StartDNS, TypeOK, StageInv, Opening, Closing,
     FailInv, Alive
<1>2. CASE CheckDNS
  BY <1>2, OrderShape, OrderIsOneToOne DEF CheckDNS, Gone, TypeOK, StageInv, Opening, Closing,
     FailInv, Alive
<1>3. CASE StartGRPC
  BY <1>3, OrderShape, OrderIsOneToOne DEF StartGRPC, Gone, TypeOK, StageInv, Opening,
     Closing, FailInv, Alive
<1>4. CASE StartHTTP
  BY <1>4, OrderShape, OrderIsOneToOne DEF StartHTTP, TypeOK, StageInv, Opening, Closing,
     FailInv, Alive
<1>5. CASE MarkReady
  BY <1>5, OrderShape, OrderIsOneToOne DEF MarkReady, TypeOK, StageInv, Opening, Closing,
     FailInv, Alive
<1>6. CASE Notify
  BY <1>6, OrderShape, OrderIsOneToOne DEF Notify, TypeOK, StageInv, Opening, Closing,
     FailInv, Alive
<1>7. CASE ReceiveSignal
  BY <1>7, OrderShape, OrderIsOneToOne DEF ReceiveSignal, TypeOK, StageInv, Opening, Closing,
     FailInv, Alive
<1>8. CASE MarkNotReady
  BY <1>8, OrderShape, OrderIsOneToOne DEF MarkNotReady, TypeOK, StageInv, Opening, Closing,
     FailInv, Alive
<1>9. CASE Close
  <2>1. pc = "close" /\ at \in 1 .. 4
    BY <1>9, OrderShape DEF Close, TypeOK
  <2>2. CASE Order[at] \in DNS /\ listener[Order[at]] \in {"starting", "failing", "unbound"}
    <3>1. failed' = TRUE /\ Proceed /\ listener' = listener /\ at \in {3, 4}
      BY <1>9, <2>1, <2>2, OrderIsOneToOne DEF Close
    <3>2. (at < at' \/ pc' = "exited") /\ listener'[Order[at]] # "stopped"
      BY <2>1, <2>2, <3>1, ProceedShape DEF TypeOK
    <3>3. QED
      BY <3>1, <3>2 DEF FailInv
  <2>3. CASE ~ (Order[at] \in DNS /\ listener[Order[at]] \in {"starting", "failing", "unbound"})
    <3>1. /\ listener' = [listener EXCEPT ![Order[at]] = "stopping"] /\ pc' = "drain"
          /\ at' = at /\ failed' = failed /\ expired' = expired
      BY <1>9, <2>3 DEF Close
    <3>2. \A i \in {3, 4} : i < at => listener'[Order[i]] = listener[Order[i]]
      BY <2>1, <3>1, OrderIsOneToOne DEF TypeOK
    <3>3. QED
      BY <2>1, <3>1, <3>2 DEF FailInv
  <2>4. QED
    BY <2>2, <2>3
<1>10. CASE Drained
  BY <1>10, OrderShape, OrderIsOneToOne DEF Drained, Proceed, Gone, TypeOK, StageInv, Opening,
     Closing, FailInv, Alive
<1>11. CASE GiveUp
  BY <1>11, OrderShape, OrderIsOneToOne DEF GiveUp, Proceed, Gone, TypeOK, StageInv, Opening,
     Closing, FailInv, Alive
<1>12. CASE Signal
  BY <1>12, OrderShape, OrderIsOneToOne DEF Signal, Gone, TypeOK, StageInv, Opening, Closing,
     FailInv, Alive
<1>13. CASE Expire
  BY <1>13, OrderShape, OrderIsOneToOne DEF Expire, TypeOK, StageInv, Opening, Closing,
     FailInv, Alive
<1>14. ASSUME NEW s \in Servers, Bind(s) PROVE FailInv'
  BY <1>14, OrderShape, OrderIsOneToOne DEF Bind, TypeOK, StageInv, Opening, Closing, FailInv,
     Alive
<1>15. ASSUME NEW s \in Servers, BindFails(s) PROVE FailInv'
  BY <1>15, OrderShape, OrderIsOneToOne DEF BindFails, TypeOK, StageInv, Opening, Closing,
     FailInv, Alive
<1>16. ASSUME NEW s \in Servers, Report(s) PROVE FailInv'
  BY <1>16, OrderShape, OrderIsOneToOne DEF Report, TypeOK, StageInv, Opening, Closing,
     FailInv, Alive
<1>17. ASSUME NEW s \in Servers, Break(s) PROVE FailInv'
  BY <1>17, OrderShape, OrderIsOneToOne DEF Break, TypeOK, StageInv, Opening, Closing,
     FailInv, Alive
<1>18. ASSUME NEW s \in Servers, Accept(s) PROVE FailInv'
  BY <1>18, OrderShape, OrderIsOneToOne DEF Accept, TypeOK, StageInv, Opening, Closing,
     FailInv, Alive
<1>19. ASSUME NEW s \in Servers, Finish(s) PROVE FailInv'
  BY <1>19, OrderShape, OrderIsOneToOne DEF Finish, TypeOK, StageInv, Opening, Closing,
     FailInv, Alive
<1>20. QED
  BY <1>1, <1>2, <1>3, <1>4, <1>5, <1>6, <1>7, <1>8, <1>9, <1>10, <1>11, <1>12, <1>13, <1>14,
     <1>15, <1>16, <1>17, <1>18, <1>19 DEF Next, Main

LEMMA CleanNext ==
  ASSUME TypeOK, StageInv, DrainInv, CleanExitDropsNothing, Next
  PROVE  CleanExitDropsNothing'
<1>t. at \in 1 .. 4 /\ dropped \in BOOLEAN /\ code \in 0 .. 2 /\ failed \in BOOLEAN
  BY OrderShape DEF TypeOK
<1>1. CASE Drained
  <2>1. /\ failed' = failed /\ Proceed /\ inFlight[Order[at]] = 0 /\ pc = "drain"
    BY <1>1 DEF Drained
  <2>2. ASSUME pc' = "exited", code' = 0 PROVE ~ dropped'
    <3>1. at = 4 /\ ~ failed
      BY <1>t, <2>1, <2>2, ProceedShape
    <3>2. \A i \in 1 .. 4 : inFlight[Order[i]] = 0
      BY <1>t, <2>1, <3>1 DEF DrainInv, Closing
    <3>3. \A s \in Servers : inFlight[s] = 0
      BY <3>2, OrderIsOneToOne
    <3>4. ~ dropped
      BY <2>1 DEF StageInv, Alive
    <3>5. dropped' <=> dropped \/ \E s \in Servers : inFlight[s] > 0
      BY <1>t, <2>1, <3>1, ProceedShape
    <3>6. QED
      BY <3>3, <3>4, <3>5
  <2>3. QED
    BY <2>2 DEF CleanExitDropsNothing
<1>2. CASE GiveUp
  <2>1. failed' = TRUE /\ Proceed
    BY <1>2 DEF GiveUp
  <2>2. pc' = "exited" => code' # 0
    BY <1>t, <2>1, ProceedShape
  <2>3. QED
    BY <2>2 DEF CleanExitDropsNothing
<1>3. CASE Close
  <2>1. (failed' = TRUE /\ Proceed) \/ pc' = "drain"
    BY <1>3 DEF Close
  <2>2. pc' = "exited" => code' # 0
    BY <1>t, <2>1, ProceedShape
  <2>3. QED
    BY <2>2 DEF CleanExitDropsNothing
<1>4. CASE CheckDNS \/ StartGRPC \/ Signal
  BY <1>4 DEF CheckDNS, StartGRPC, Signal, Gone, Alive, CleanExitDropsNothing
<1>5. CASE StartDNS \/ StartHTTP \/ MarkReady \/ Notify \/ ReceiveSignal \/ MarkNotReady \/ Expire
  BY <1>5 DEF StartDNS, StartHTTP, MarkReady, Notify, ReceiveSignal, MarkNotReady, Expire,
     CleanExitDropsNothing
<1>6. ASSUME NEW s \in Servers,
             Bind(s) \/ BindFails(s) \/ Report(s) \/ Break(s) \/ Accept(s) \/ Finish(s)
      PROVE  CleanExitDropsNothing'
  BY <1>6 DEF Bind, BindFails, Report, Break, Accept, Finish, CleanExitDropsNothing
<1>7. QED
  BY <1>1, <1>2, <1>3, <1>4, <1>5, <1>6 DEF Next, Main

LEMMA ErrorNext ==
  ASSUME TypeOK, StageInv, FailInv, ErrorExitIsExplained, Next, FailInv'
  PROVE  ErrorExitIsExplained'
<1>t. at \in 1 .. 4 /\ dropped \in BOOLEAN /\ code \in 0 .. 2 /\ failed \in BOOLEAN
  BY OrderShape DEF TypeOK
<1>1. CASE Drained \/ GiveUp \/ Close
  <2>1. pc' = "drain" \/ (failed' \in BOOLEAN /\ Proceed)
    BY <1>1, <1>t DEF Drained, GiveUp, Close
  <2>2. ASSUME pc' = "exited", code' = 1 PROVE failed'
    BY <1>t, <2>1, <2>2, ProceedShape
  <2>3. QED
    BY <2>2, OrderShape DEF FailInv, ErrorExitIsExplained, DNS
<1>2. CASE CheckDNS \/ StartGRPC
  <2>1. ~ ready' /\ (pc' = "exited" => listener'["http"] = "off")
    BY <1>2 DEF CheckDNS, StartGRPC, StageInv
  <2>2. QED
    BY <2>1 DEF ErrorExitIsExplained
<1>3. CASE StartDNS \/ StartHTTP \/ MarkReady \/ Notify \/ ReceiveSignal
            \/ MarkNotReady \/ Signal \/ Expire
  BY <1>3 DEF StartDNS, StartHTTP, MarkReady, Notify, ReceiveSignal, MarkNotReady, Signal,
     Gone, Alive,
     Expire, ErrorExitIsExplained
<1>4. ASSUME NEW s \in Servers,
             Bind(s) \/ BindFails(s) \/ Report(s) \/ Break(s) \/ Accept(s) \/ Finish(s)
      PROVE  ErrorExitIsExplained'
  BY <1>4 DEF Bind, BindFails, Report, Break, Accept, Finish, Alive, ErrorExitIsExplained
<1>5. QED
  BY <1>1, <1>2, <1>3, <1>4 DEF Next, Main
-----------------------------------------------------------------------------
LEMMA StutterInv == ASSUME Inv, UNCHANGED vars PROVE Inv'
<1>1. (TypeOK /\ ChannelInv /\ StageInv)'
  BY DEF Inv, vars, TypeOK, ChannelInv, Spent, StageInv, Alive
<1>2. (DrainInv /\ FailInv)'
  BY DEF Inv, vars, DrainInv, FailInv
<1>3. (CleanExitDropsNothing /\ ErrorExitIsExplained /\ NotReadyWhileClosing)'
  BY DEF Inv, vars, CleanExitDropsNothing, ErrorExitIsExplained, NotReadyWhileClosing
<1>4. QED
  BY <1>1, <1>2, <1>3 DEF Inv

LEMMA NextInv == ASSUME Inv, Next PROVE Inv'
<1>1. (TypeOK /\ ChannelInv /\ StageInv /\ DrainInv)'
  BY TypeNext, ChannelNext, StageNext, DrainNext DEF Inv
<1>2. (FailInv /\ CleanExitDropsNothing /\ NotReadyWhileClosing)'
  BY FailNext, CleanNext, ReadyNext DEF Inv
<1>3. ErrorExitIsExplained'
  BY <1>2, ErrorNext DEF Inv
<1>4. QED
  BY <1>1, <1>2, <1>3 DEF Inv

\* The inductive invariant holds, however many handlers a server may have.
THEOREM InvHolds == Spec => []Inv
<1>1. Init => Inv
  BY InitInv
<1>2. Inv /\ [Next]_vars => Inv'
  BY NextInv, StutterInv
<1>3. QED
  BY <1>1, <1>2, PTL DEF Spec

\* The main goroutine stays within the servers, and no channel overflows.
THEOREM TypeCorrect == Spec => []TypeOK
<1>1. Inv => TypeOK
  BY DEF Inv
<1>2. QED
  BY <1>1, InvHolds, PTL

\* An exit code of 0 says that every handler of every server was done
\* (main.go:215-235).
THEOREM CleanExitTheorem == Spec => []CleanExitDropsNothing
<1>1. Inv => CleanExitDropsNothing
  BY DEF Inv
<1>2. QED
  BY <1>1, InvHolds, PTL

\* An exit code of 1 comes from a server that could not start, the deadline,
\* or a DNS server that never stopped (main.go:172-184, 215-232).
THEOREM ErrorExitTheorem == Spec => []ErrorExitIsExplained
<1>1. Inv => ErrorExitIsExplained
  BY DEF Inv
<1>2. QED
  BY <1>1, InvHolds, PTL

\* A goroutine of the DNS server sends on errCh once at most, so that the two
\* never block although it is read at most once (dns/server.go:69-94).
THEOREM ChannelTheorem == Spec => []NoListenerBlocks
<1>1. Inv => NoListenerBlocks
  BY DEF Inv, ChannelInv, Spent, TypeOK, NoListenerBlocks, Capacity, DNS
<1>2. QED
  BY <1>1, InvHolds, PTL

\* /readyz has ceased to say ready before the first server is told to stop
\* (main.go:211-215).
THEOREM ReadyTheorem == Spec => []NotReadyWhileClosing
<1>1. Inv => NotReadyWhileClosing
  BY DEF Inv
<1>2. QED
  BY <1>1, InvHolds, PTL
-----------------------------------------------------------------------------
(***************************************************************************)
(* That a shutdown ends: the part of SignalEndsProcess which a safety      *)
(* proof reaches.  A signal that has come is kept until it is received,    *)
(* and the main goroutine only ever comes nearer its exit; once the        *)
(* deadline has passed nothing can hold it.                                *)
(***************************************************************************)

\* How many steps the main goroutine is from its exit, at most: two for every
\* server still to stop.
Remaining ==
  CASE pc = "dns" -> 16 [] pc = "check" -> 15 [] pc = "grpc" -> 14 [] pc = "http" -> 13
    [] pc = "ready" -> 12 [] pc = "notify" -> 11 [] pc = "wait" -> 10 [] pc = "notReady" -> 9
    [] pc = "close" -> 2 * (4 - at) + 2 [] pc = "drain" -> 2 * (4 - at) + 1
    [] pc \in {"exited", "killed"} -> 0

\* The guards of the actions of Main.
MainMayGoOn ==
  \/ pc \in {"dns", "check", "grpc", "http", "ready", "notify", "notReady", "close"}
  \/ pc = "wait" /\ sigCh > 0
  \/ pc = "drain" /\ (inFlight[Order[at]] = 0 \/ expired)

\* Only the wait for a signal and, up to the deadline, for handlers holds it.
MainIsFree ==
  Alive => \/ MainMayGoOn
           \/ pc = "wait" /\ sigCh = 0
           \/ pc = "drain" /\ ~ expired

\* What cannot be taken back: the way that the main goroutine has made, the
\* signal that it has not yet received, and the deadline that has passed.
ShutdownLeadsOn ==
  [][/\ Main => Remaining' < Remaining
     /\ Remaining' <= Remaining
     /\ pc = "wait" /\ sigCh = 1 => pc' = "notReady" \/ (pc' = "wait" /\ sigCh' = 1)
     /\ pc \in Closing \cup {"notReady"} => pc' \in Closing \cup {"notReady", "exited"}
     /\ expired => expired']_vars

\* While it waits for the handlers of a server the deadline runs.
THEOREM MainIsFreeTheorem == Spec => []MainIsFree
<1>1. TypeOK => MainIsFree
  BY DEF TypeOK, PCs, Alive, MainMayGoOn, MainIsFree
<1>2. QED
  BY <1>1, TypeCorrect, PTL

LEMMA MainLeadsOn ==
  ASSUME TypeOK, Main
  PROVE  /\ Remaining \in Nat /\ Remaining' \in Nat /\ Remaining' < Remaining
         /\ pc = "wait" => pc' = "notReady"
         /\ pc \in Closing \cup {"notReady"} => pc' \in Closing \cup {"exited"}
         /\ expired' = expired
<1>t. at \in 1 .. 4 /\ dropped \in BOOLEAN /\ code \in 0 .. 2 /\ failed \in BOOLEAN
  BY OrderShape DEF TypeOK
<1>1. CASE StartDNS \/ CheckDNS \/ StartGRPC \/ StartHTTP \/ MarkReady \/ Notify \/ ReceiveSignal
  BY <1>1 DEF StartDNS, CheckDNS, StartGRPC, StartHTTP, MarkReady, Notify, ReceiveSignal, Gone,
     Remaining, Closing
<1>2. CASE MarkNotReady
  BY <1>t, <1>2 DEF MarkNotReady, Remaining, Closing
<1>3. ASSUME failed' \in BOOLEAN, Proceed, pc \in Closing
      PROVE  /\ Remaining \in Nat /\ Remaining' \in Nat /\ Remaining' < Remaining
             /\ pc' \in Closing \cup {"exited"}
  <2>1. Remaining \in 2 * (4 - at) + 1 .. 2 * (4 - at) + 2
    BY <1>t, <1>3 DEF Remaining, Closing
  <2>2. CASE at < 4
    <3>1. at' = at + 1 /\ pc' = "close"
      BY <1>t, <1>3, <2>2, ProceedShape
    <3>2. Remaining' = 2 * (4 - at') + 2
      BY <3>1 DEF Remaining
    <3>3. QED
      BY <1>t, <2>1, <2>2, <3>1, <3>2 DEF Closing
  <2>3. CASE at = 4
    <3>1. pc' = "exited"
      BY <1>t, <1>3, <2>3, ProceedShape
    <3>2. Remaining' = 0
      BY <3>1 DEF Remaining
    <3>3. QED
      BY <1>t, <2>1, <2>3, <3>1, <3>2
  <2>4. QED
    BY <1>t, <2>2, <2>3
<1>4. CASE Close
  <2>1. CASE Proceed
    <3>1. pc = "close" /\ failed' \in BOOLEAN /\ expired' = expired
      BY <1>t, <1>4 DEF Close
    <3>2. QED
      BY <1>3, <2>1, <3>1 DEF Closing
  <2>2. CASE pc' = "drain" /\ at' = at
    <3>1. pc = "close" /\ expired' = expired
      BY <1>4 DEF Close
    <3>2. Remaining = 2 * (4 - at) + 2 /\ Remaining' = 2 * (4 - at) + 1
      BY <2>2, <3>1 DEF Remaining
    <3>3. QED
      BY <1>t, <2>2, <3>1, <3>2 DEF Closing
  <2>3. QED
    BY <1>4, <2>1, <2>2 DEF Close
<1>5. CASE Drained \/ GiveUp
  BY <1>t, <1>3, <1>5 DEF Drained, GiveUp, Closing
<1>6. QED
  BY <1>1, <1>2, <1>4, <1>5 DEF Main

LEMMA OthersLeaveMain ==
  ASSUME TypeOK, Next, ~ Main
  PROVE  /\ Remaining' <= Remaining
         /\ pc = "wait" /\ sigCh = 1 => pc' = "wait" /\ sigCh' = 1
         /\ pc \in Closing \cup {"notReady"} => pc' = pc
         /\ expired => expired'
<1>t. at \in 1 .. 4
  BY OrderShape DEF TypeOK
<1>r. Remaining \in Nat
  BY <1>t DEF Remaining, TypeOK, PCs
<1>1. CASE Signal
  <2>1. (pc' = pc /\ at' = at /\ sigCh' = 1) \/ pc' = "killed"
    BY <1>1 DEF Signal, Gone
  <2>2. expired' = expired /\ (pc \in Closing \cup {"wait", "notReady"} => pc' = pc)
    BY <1>1 DEF Signal, Closing
  <2>3. CASE pc' = "killed"
    <3>1. Remaining' = 0
      BY <2>3 DEF Remaining
    <3>2. QED
      BY <1>r, <2>1, <2>2, <2>3, <3>1 DEF Closing
  <2>4. CASE pc' = pc /\ at' = at /\ sigCh' = 1
    <3>1. Remaining' = Remaining
      BY <2>4 DEF Remaining
    <3>2. QED
      BY <1>r, <2>2, <2>4, <3>1
  <2>5. QED
    BY <2>1, <2>3, <2>4
<1>2. ASSUME \/ Expire
             \/ \E s \in Servers : Bind(s) \/ BindFails(s) \/ Report(s) \/ Break(s)
                                   \/ Accept(s) \/ Finish(s)
      PROVE  pc' = pc /\ at' = at /\ sigCh' = sigCh /\ (expired => expired')
  BY <1>2 DEF Expire, Bind, BindFails, Report, Break, Accept, Finish
<1>3. CASE ~ Signal
  <2>1. pc' = pc /\ at' = at /\ sigCh' = sigCh /\ (expired => expired')
    BY <1>2, <1>3 DEF Next
  <2>2. Remaining' = Remaining
    BY <2>1 DEF Remaining
  <2>3. QED
    BY <1>r, <2>1, <2>2
<1>4. QED
  BY <1>1, <1>3

\* From the signal to the exit the main goroutine takes at most ten steps,
\* whatever servers and handlers do meanwhile (main.go:247-255, 211-235).
THEOREM ShutdownTheorem == Spec => ShutdownLeadsOn
<1> DEFINE Leads ==
      /\ Main => Remaining' < Remaining
      /\ Remaining' <= Remaining
      /\ pc = "wait" /\ sigCh = 1 => pc' = "notReady" \/ (pc' = "wait" /\ sigCh' = 1)
      /\ pc \in Closing \cup {"notReady"} => pc' \in Closing \cup {"notReady", "exited"}
      /\ expired => expired'
<1>1. ASSUME TypeOK, Next PROVE Leads
  <2>1. CASE Main
    BY <1>1, <2>1, MainLeadsOn
  <2>2. CASE ~ Main
    BY <1>1, <2>2, OthersLeaveMain
  <2>3. QED
    BY <2>1, <2>2
<1>2. TypeOK /\ [Next]_vars => [Leads]_vars
  BY <1>1
<1> HIDE DEF Leads
<1>3. Spec => [][Leads]_vars
  BY <1>2, TypeCorrect, PTL DEF Spec
<1>4. QED
  BY <1>3 DEF ShutdownLeadsOn, Leads
=============================================================================
