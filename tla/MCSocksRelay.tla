----------------------------- MODULE MCSocksRelay -----------------------------
(* SocksRelay with two connections: one of every kind, one UDP association. *)
EXTENDS SocksRelay, TLC

CONSTANTS c1, c2

MCConns == {c1, c2}
MCAsks == (c1 :> Commands) @@ (c2 :> {"udp"})

=============================================================================
