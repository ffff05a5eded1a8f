------------------------------ MODULE MCUpstream ------------------------------
(***************************************************************************)
(* Up to three servers in resolv.conf, the limit of the C resolver, with   *)
(* the program's own 5 s and 10 s: two silent servers use up the deadline. *)
(***************************************************************************)
EXTENDS Upstream

CONSTANTS h1, h2, h3

At(h, f) == [host |-> h, form |-> f]

MCPublic == <<At(h1, "hostPort"), At(h2, "hostPort")>>
MCExplicit == {At(h1, "host"), At(h2, "bareIPv6"), At(h3, "hostPort")}
MCConf == {<<>>, <<At(h1, "host"), At(h2, "host"), At(h3, "host")>>,
           <<At(h3, "bareIPv6"), At(h1, "host")>>, <<At(h2, "bareIPv6")>>}
=============================================================================
