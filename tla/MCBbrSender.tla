---------------------------- MODULE MCBbrSender ----------------------------
(* BbrSender on small windows: one packet at least, two at first, four at  *)
(* most, and a gain cycle of three phases.                                 *)
EXTENDS BbrSender

Cycle == <<1250, 750, 1000>>

(* Modes: time passes and samples are app-limited or not.                  *)
Paced ==
  [profile |-> "conservative", datagramSizes |-> {1}, bandwidths |-> {1, 4}, rtts |-> {1},
   ackHeights |-> {0}, sendInFlights |-> {1}, appLimitedFlags |-> {TRUE, FALSE},
   packetKinds |-> {TRUE}, timePasses |-> TRUE, maxPacketNumber |-> 4, maxOutstanding |-> 2]

(* Recovery: three packets in flight, acknowledged or lost in any order.   *)
Lossy ==
  [profile |-> "conservative", datagramSizes |-> {1}, bandwidths |-> {4}, rtts |-> {1},
   ackHeights |-> {0}, sendInFlights |-> {1}, appLimitedFlags |-> {FALSE},
   packetKinds |-> {TRUE}, timePasses |-> FALSE, maxPacketNumber |-> 6, maxOutstanding |-> 3]

(* Datagram sizes: MTU discovery raises the limits at any moment.          *)
Growing ==
  [profile |-> "aggressive", datagramSizes |-> {2, 6}, bandwidths |-> {1, 8}, rtts |-> {1},
   ackHeights |-> {1}, sendInFlights |-> {1, 60}, appLimitedFlags |-> {FALSE},
   packetKinds |-> {TRUE, FALSE}, timePasses |-> FALSE, maxPacketNumber |-> 5,
   maxOutstanding |-> 2]

MCSetups == {Paced, Lossy, Growing}
=============================================================================
