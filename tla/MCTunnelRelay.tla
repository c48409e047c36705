--------------------------- MODULE MCTunnelRelay ---------------------------
(* TunnelRelay with up to two chunks in each direction: one in the hand of *)
(* a copy goroutine while another is under way or buffered.                *)
EXTENDS TunnelRelay
=============================================================================
