---------------------------- MODULE MCControlPlane ----------------------------
(***************************************************************************)
(* Three admin calls, enough for two updates inside one GetConfig, and     *)
(* lists that compile, one entry dropped, and that are refused half way.   *)
(***************************************************************************)
EXTENDS ControlPlane, TLC

CONSTANTS e1, e2, bad, t1, t2, tBlank, tBad, q1, c1, c2, c3

MCTrimSpace == (t1 :> e1) @@ (t2 :> e2) @@ (tBlank :> Blank) @@ (tBad :> bad)
MCAccepts == [e \in {e1, e2} |-> {q1}]
MCUpdates == {<<tBlank, t2, t1>>, <<t1>>, <<t2, tBad>>}
=============================================================================
