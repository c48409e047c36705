--------------------------- MODULE MCTunnelServer ---------------------------
(* TunnelServer with three connections, room for two and one relay slot:   *)
(* both limits are reached and released.  The liveness run has two         *)
(* connections that compete for the one relay slot.                        *)
EXTENDS TunnelServer, TLC

CONSTANTS c1, c2, c3

MCConn == {c1, c2, c3}
MCTwoConn == {c1, c2}
MCSymmetry == Permutations(MCConn)

=============================================================================
