------------------------- MODULE MCBandwidthSampler -------------------------
(* Packets with gaps, at most four in flight, acknowledged and lost in any *)
(* order, every placement of the app-limited phases, and a packet from     *)
(* before the controller; or, with overestimate avoidance, more time.      *)
EXTENDS BandwidthSampler

MCSetups ==
  {[overestimateAvoidance |-> FALSE, appLimitedFlags |-> {TRUE, FALSE}, skips |-> {0, 1},
    earlier |-> 1, maxPacket |-> 4, maxOutstanding |-> 4, maxTime |-> 2],
   [overestimateAvoidance |-> TRUE, appLimitedFlags |-> {FALSE}, skips |-> {0},
    earlier |-> 0, maxPacket |-> 4, maxOutstanding |-> 3, maxTime |-> 3]}
=============================================================================
