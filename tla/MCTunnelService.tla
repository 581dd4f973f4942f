--------------------------- MODULE MCTunnelService ---------------------------
(* TunnelService with the bounds and the events its configurations give. *)
EXTENDS TunnelService

=============================================================================
