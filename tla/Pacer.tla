------------------------------- MODULE Pacer -------------------------------
(***************************************************************************)
(* The token bucket that spaces the packets of a connection, pacer.go,     *)
(* with the parts of bbr_sender.go and congestion.go that feed it: the     *)
(* rate, and the datagram size that the sender and the pacer each keep.    *)
(*                                                                         *)
(* Time is counted from the last packet sent.  The products of rate and    *)
(* time are integers from -HalfRange to HalfRange - 1.                     *)
(***************************************************************************)
EXTENDS Integers

CONSTANTS
  Second,            \* ticks of the clock in a second
  HalfRange,         \* 2^63, for the 64 bits of a ByteCount
  maxBurstPackets, maxBurstPacingDelayMultiplier,
  MinPacingDelay,    \* congestion.MinPacingDelay
  InitialPacketSize, \* congestion.InitialPacketSize
  minBps,            \* the least rate given to the pacer
  QuicSizes,         \* inputs: conn.InitialPacketSize()
  Mtus,              \* inputs: sizes found by MTU discovery
  PacingRates,       \* inputs: PacingRate() in bytes per second
  MaxIdle,           \* bound: ticks without a packet
  Never              \* no packet has been sent yet

ASSUME PacerConstants ==
  /\ {Second, HalfRange, maxBurstPackets, maxBurstPacingDelayMultiplier, InitialPacketSize,
      MinPacingDelay, minBps} \subseteq Nat \ {0}
  /\ QuicSizes \subseteq Nat /\ Mtus \subseteq Nat \ {0} /\ PacingRates \subseteq Nat
  /\ \E r \in PacingRates : \A q \in PacingRates : q <= r
  /\ Second > 3 /\ HalfRange > 1 /\ QuicSizes # {} /\ MaxIdle \in Nat /\ Never \notin Nat

VARIABLES
  budgetAtLastSent, \* p.budgetAtLastSent
  pacerSize,        \* p.maxDatagramSize
  senderSize,       \* the maxDatagramSize of the bbrSender
  quicSize,         \* the size QUIC fills its packets to, which may be larger
  sinceSent,        \* time since p.lastSentTime, or Never
  pacingRate,       \* what PacingRate() returns
  excess            \* history: paced bytes ahead of the highest rate, times Second

pacerVars == <<budgetAtLastSent, pacerSize, senderSize, quicSize, sinceSent, pacingRate,
               excess>>

Larger(x, y) == IF x >= y THEN x ELSE y
Smaller(x, y) == IF x <= y THEN x ELSE y

(* An integer as the machine keeps it, and division towards zero.          *)
Wrap(x) == ((x + HalfRange) % (2 * HalfRange)) - HalfRange
Quot(x, y) == IF x >= 0 THEN x \div y ELSE -((-x) \div y)

(* Mutant: the size QUIC was configured with is taken as it is.            *)
seedQuicSize(initial, byAddr) == IF initial = 0 THEN byAddr ELSE initial

(* "never seed the replacement controller above the size QUIC starts at"   *)
seedPacketSize(initial, byAddr) ==
  IF initial = 0 THEN byAddr ELSE Smaller(initial, byAddr)

bandwidthForPacer(rate) == IF rate < minBps THEN minBps ELSE rate
getBandwidth == bandwidthForPacer(pacingRate)

MaxBurst(bandwidth, size) ==
  Larger((maxBurstPacingDelayMultiplier * MinPacingDelay * bandwidth) \div Second,
         maxBurstPackets * size)
maxBurstSize == MaxBurst(getBandwidth, pacerSize)

Budget ==
  IF sinceSent = Never THEN maxBurstSize
  ELSE LET budget == budgetAtLastSent + Quot(Wrap(getBandwidth * sinceSent), Second)
       IN  Smaller(maxBurstSize, IF budget < 0 THEN HalfRange \div 2 - 1 ELSE budget)

HasPacingBudget == Budget >= senderSize

(* When the next packet may be sent, from the last one on; 0 means now.    *)
TimeUntilSend ==
  IF budgetAtLastSent >= pacerSize THEN 0
  ELSE LET diff == Second * (pacerSize - budgetAtLastSent)
           up == IF diff % getBandwidth > 0 THEN 1 ELSE 0
       IN  Larger(MinPacingDelay, diff \div getBandwidth + up)

PacerInit ==
  /\ budgetAtLastSent = maxBurstPackets * InitialPacketSize
  /\ pacerSize = InitialPacketSize
  /\ \E initial \in QuicSizes :
       /\ senderSize = seedPacketSize(initial, InitialPacketSize)
       /\ quicSize = IF initial = 0 THEN InitialPacketSize ELSE initial
  /\ sinceSent = Never
  /\ pacingRate \in PacingRates
  /\ excess = 0

SentPacket(size) ==
  /\ budgetAtLastSent' = IF size > Budget THEN 0 ELSE Budget - size
  /\ sinceSent' = 0
  /\ UNCHANGED <<pacerSize, senderSize, quicSize, pacingRate>>

HighestRate == bandwidthForPacer(CHOOSE r \in PacingRates : \A q \in PacingRates : q <= r)

(* The connection sends a packet when the pacer lets it.  The sender asks  *)
(* for a budget of senderSize, so that a larger packet may find less than  *)
(* it needs and be charged what is left: excess counts a packet up to      *)
(* senderSize, all that the pacer can answer for.                          *)
SendPaced(size) ==
  /\ HasPacingBudget
  /\ SentPacket(size)
  /\ excess' = LET drained == IF sinceSent = Never THEN 0 ELSE HighestRate * sinceSent
               IN  Larger(0, excess - drained) + Second * Smaller(size, senderSize)

(* Acknowledgements and loss probes are sent whether it does or not.       *)
SendUnpaced(size) ==
  /\ ~HasPacingBudget
  /\ SentPacket(size)
  /\ excess' = IF sinceSent = Never THEN excess
               ELSE Larger(0, excess - HighestRate * sinceSent)

SetMaxDatagramSize(s) ==
  /\ s >= senderSize
  /\ senderSize' = s /\ quicSize' = s
  /\ pacerSize' = s
  /\ UNCHANGED <<budgetAtLastSent, sinceSent, pacingRate, excess>>

(* The controller changes its rate.                                        *)
SetPacingRate(r) ==
  /\ pacingRate' = r
  /\ UNCHANGED <<budgetAtLastSent, pacerSize, senderSize, quicSize, sinceSent, excess>>

PacerTick ==
  /\ sinceSent # Never /\ sinceSent < MaxIdle
  /\ sinceSent' = sinceSent + 1
  /\ UNCHANGED <<budgetAtLastSent, pacerSize, senderSize, quicSize, pacingRate, excess>>

(* QUIC does not ask the sender for its size: the configured packet size   *)
(* has no upper bound, and a probe of MTU discovery is larger than any     *)
(* packet before it.                                                       *)
QuicPackets == (1..quicSize) \cup Mtus

PacerNext ==
  \/ \E size \in QuicPackets : SendPaced(size) \/ SendUnpaced(size)
  \/ \E s \in Mtus : SetMaxDatagramSize(s)
  \/ \E r \in PacingRates : SetPacingRate(r)
  \/ PacerTick

PacerSpec == PacerInit /\ [][PacerNext]_pacerVars

-----------------------------------------------------------------------------
(* The budget is never negative and the rate never zero.                   *)
PacerTypeOK ==
  /\ budgetAtLastSent \in Nat /\ excess \in Nat
  /\ pacerSize \in Nat \ {0} /\ senderSize \in Nat \ {0} /\ quicSize \in Nat \ {0}
  /\ sinceSent \in (0..MaxIdle) \cup {Never}
  /\ getBandwidth \in Nat \ {0}

(* The bursts, in bytes times ticks of a second, are integers: with 64     *)
(* bits, below 2300 gigabytes per second.                                  *)
BurstsFit ==
  \A s \in Mtus \cup {InitialPacketSize} : Second * MaxBurst(HighestRate, s) <= HalfRange

(* A product of rate and idle time overflows once at most, so far from     *)
(* zero that the budget turns negative: with 64 bits and a rate of 10      *)
(* gigabits per second, the connection is silent for 14 seconds at most.   *)
ProductsFit ==
  \A s \in Mtus \cup {InitialPacketSize} :
    HighestRate * MaxIdle + Second * (MaxBurst(HighestRate, s) + 1) <= 2 * HalfRange

(* When there is no budget, the time of the next packet lies ahead: else   *)
(* the send loop, told to wait until a moment that has passed, spins.      *)
NoSpin == ~HasPacingBudget => sinceSent # Never /\ sinceSent < TimeUntilSend

(* However long the connection was idle, however its rate changed and      *)
(* whatever the sizes of its packets, the packets that are paced exceed    *)
(* the highest rate by one burst at most, each of them counted up to the   *)
(* size the sender was told.  (So a connection whose packets are larger,   *)
(* at a configured size above InitialPacketSize without MTU discovery, may *)
(* exceed its rate in the proportion of the two sizes, and no further.)    *)
BurstBounded ==
  \E s \in {pacerSize} \cup Mtus \cup {InitialPacketSize} :
    excess <= Second * MaxBurst(HighestRate, s)

(* The pacer is well formed, never spins and never lets a burst through.   *)
PacerInv == PacerTypeOK /\ NoSpin /\ BurstBounded

=============================================================================
