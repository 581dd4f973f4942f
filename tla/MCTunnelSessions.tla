-------------------------- MODULE MCTunnelSessions --------------------------
(* TunnelSessions for TLC. *)
EXTENDS TunnelSessions, TLC

=============================================================================
