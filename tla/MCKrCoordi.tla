----------------------------- MODULE MCKrCoordi -----------------------------
(***************************************************************************)
(* KrCoordi with three servers, whose virtual nodes alternate on the ring  *)
(* and collide once, and one client.                                       *)
(***************************************************************************)
EXTENDS KrCoordi, TLC

CONSTANT c1

MCServers == 1 .. 3
MCClients == {c1}
MCObjects == 1 .. 4
MCVidHash ==
  (<<1, 0>> :> 10) @@ (<<1, 1>> :> 30) @@ (<<2, 0>> :> 20) @@ (<<2, 1>> :> 30) @@
  (<<3, 0>> :> 25) @@ (<<3, 1>> :> 50)
MCObjHash == <<5, 22, 40, 60>>

=============================================================================
